--------------------------- MODULE FixpointProofs ---------------------------
(***************************************************************************)
(* Proofs about the interprocedural fixpoint, for every tree of graphs,    *)
(* every call relation, every set of types and every round budget:         *)
(* the type invariant, that a result taken again is never stale, and that  *)
(* the results of a converged chunk are a fixpoint.                        *)
(*                                                                         *)
(* The inductive invariant says what a version means.  An analysis that is *)
(* kept recorded, for each entry it read, a version no later than the last *)
(* one handed out; and as long as the entry has that version it has the    *)
(* contents that were read.  Bumping an entry can only break the premise,  *)
(* because the new version is later than every recorded one.  For literal  *)
(* signatures the contents are those observed last, which is why the check *)
(* has to look at the scratch before it compares versions.                 *)
(***************************************************************************)
EXTENDS Fixpoint, TLAPS

\* The recorded reads of the analyses c, under versions v up to n of the
\* entries of snapshot s and observed signatures o.
Tracked(c, v, n, s, o) ==
    \A h \in Graphs : c[h] # None =>
        \A key \in Reads(h) :
            /\ c[h].reads[key] \in Nat
            /\ c[h].reads[key] <= n
            /\ v[key] = c[h].reads[key] => Entry(s, o, key) = c[h].result.in[key]

\* Analyses and inferences answer in range.
Answered ==
    /\ \A a \in analysis : a[2] \in OutputsOf(a[1][1])
    /\ \A a \in inference : a[2] \subseteq Types

\* What is kept of each analysis is a result of the right shape.
Kept ==
    /\ cached = [g \in Graphs |-> cached[g]]
    /\ results = [g \in Graphs |-> results[g]]
    /\ \A g \in Graphs : cached[g] # None =>
          /\ cached[g].result.out \in OutputsOf(g)
          /\ cached[g].result.in = [key \in Reads(g) |-> cached[g].result.in[key]]

\* What the visits of this round have written.
Written ==
    status = "running" => \A g \in Graphs :
        /\ Visited(g) =>
              /\ scratch[g] = results[g].out.sigs
              /\ results[g].out.sigs \subseteq next.callables[g]
              /\ g # Root => results[g].out.ret \subseteq next.callables[Parent[g]]
              /\ \A c \in Nested(g) : results[g].out.cap \subseteq next.captured[c]
              /\ next.refinements[g] = results[g].out.ref
        /\ ~Visited(g) => next.refinements[g] = None

VersionsBounded == \A key \in FactKeys : version[key] <= nextVersion

IInv ==
    /\ TypeOK
    /\ Answered
    /\ Kept
    /\ VersionsBounded
    /\ Tracked(cached, version, nextVersion, prev, observed)
    /\ ResultsAreCurrent
    /\ Written
    /\ ConvergedIsFixpoint

-----------------------------------------------------------------------------
\* Every entry an analysis reads has a version.
LEMMA ReadsAreKeys ==
    ASSUME NEW g \in Graphs, NEW key \in Reads(g)
    PROVE  key \in FactKeys
<1>1. CASE key \in {"callables", "captured"} \X {g}
  BY <1>1 DEF FactKeys, SnapshotKeys
<1>2. CASE key \in {"refinements"} \X Callees[g]
  BY <1>2, FixpointAssumption DEF FactKeys, SnapshotKeys
<1>3. CASE g # Root /\ key \in {"callables", "scratch"} \X {Parent[g]}
  <2>1. Parent[g] \in Graphs
    BY <1>3, FixpointAssumption
  <2> QED
    BY <1>3, <2>1 DEF FactKeys, SnapshotKeys
<1> QED
  BY <1>1, <1>2, <1>3 DEF Reads

\* A key is one of the four kinds.
LEMMA KeyKinds ==
    ASSUME NEW key \in FactKeys
    PROVE  /\ key[2] \in Graphs
           /\ key[1] \in {"callables", "captured", "refinements", "scratch"}
           /\ key = <<key[1], key[2]>>
BY DEF FactKeys, SnapshotKeys

\* The scratch entry an analysis reads is its parent's.
LEMMA ScratchRead ==
    ASSUME NEW g \in Graphs, NEW key \in Reads(g), key[1] = "scratch"
    PROVE  g # Root /\ key = <<"scratch", Parent[g]>>
BY DEF Reads

\* Outputs have their types.
LEMMA OutputsTyped ==
    ASSUME NEW g \in Graphs, NEW out \in OutputsOf(g)
    PROVE  /\ out.ret \subseteq Types
           /\ out.sigs \subseteq Types
           /\ out.cap \subseteq Types
           /\ out.ref \in Refinements \cup {None}
BY DEF OutputsOf, Outputs

\* Entries other than literal signatures do not depend on the scratch.
LEMMA EntryOfSnapshot ==
    ASSUME NEW s, NEW o, NEW p, NEW key \in FactKeys, key[1] # "scratch"
    PROVE  Entry(s, o, key) = Entry(s, p, key)
BY DEF Entry

LEMMA EntryOfScratch ==
    ASSUME NEW s, NEW o, NEW g
    PROVE  Entry(s, o, <<"scratch", g>>) = o[g]
BY DEF Entry
-----------------------------------------------------------------------------
(* The visiting order.                                                     *)

\* A graph being visited has not been visited in this round, its parent has.
LEMMA VisitOrder ==
    ASSUME TypeOK, NEW g \in Graphs, Visiting(g)
    PROVE  /\ ~Visited(g)
           /\ g # Root => Visited(Parent[g])
<1>1. pos \in 1 .. Len(Order) /\ Order[pos] = g /\ Len(Order) \in Nat
  BY FixpointAssumption DEF TypeOK, Visiting
<1>2. ~Visited(g)
  <2>1. ASSUME NEW i \in 1 .. pos - 1, Order[i] = g
        PROVE  FALSE
    <3>1. i \in 1 .. Len(Order) /\ pos \in 1 .. Len(Order) /\ i # pos
      BY <1>1
    <3>2. Order[i] # Order[pos]
      BY <3>1, FixpointAssumption
    <3> QED
      BY <3>2, <2>1, <1>1
  <2> QED
    BY <2>1 DEF Visited
<1>3. ASSUME g # Root
      PROVE  Visited(Parent[g])
  <2>1. PICK j \in 1 .. pos - 1 : Order[j] = Parent[g]
    BY <1>1, <1>3, FixpointAssumption
  <2>2. j <= Len(Order)
    BY <1>1
  <2> QED
    BY <2>1, <2>2 DEF Visited
<1> QED
  BY <1>2, <1>3

\* The parent of a graph visited, or being visited, is an earlier graph.
LEMMA VisitedAfterParent ==
    ASSUME TypeOK, NEW g \in Graphs, Visiting(g),
           NEW h \in Graphs \ {Root}, Visited(h) \/ h = g
    PROVE  Parent[h] # g
<1>1. pos \in 1 .. Len(Order) /\ Order[pos] = g /\ Len(Order) \in Nat
  BY FixpointAssumption DEF TypeOK, Visiting
<1>2. PICK i \in 1 .. pos : Order[i] = h
  BY <1>1 DEF Visited
<1>3. i \in 1 .. Len(Order)
  BY <1>1
<1>4. PICK j \in 1 .. i - 1 : Order[j] = Parent[h]
  BY <1>2, <1>3, FixpointAssumption
<1>5. j \in 1 .. Len(Order) /\ j # pos /\ pos \in 1 .. Len(Order)
  BY <1>1, <1>3
<1>6. Order[j] # Order[pos]
  BY <1>5, FixpointAssumption
<1> QED
  BY <1>1, <1>4, <1>6

\* A visit adds the graph to the visited ones.
LEMMA VisitAdds ==
    ASSUME TypeOK, NEW g \in Graphs, Visiting(g), pos' = pos + 1, NEW h \in Graphs
    PROVE  Visited(h)' <=> (Visited(h) \/ h = g)
<1>1. pos \in 1 .. Len(Order) /\ Order[pos] = g /\ Len(Order) \in Nat
  BY FixpointAssumption DEF TypeOK, Visiting
<1>2. ASSUME NEW i \in 1 .. pos' - 1, i <= Len(Order), Order[i] = h
      PROVE  Visited(h) \/ h = g
  <2>1. i \in 1 .. pos - 1 \/ i = pos
    BY <1>1
  <2> QED
    BY <2>1, <1>1, <1>2 DEF Visited
<1>3. ASSUME NEW i \in 1 .. pos - 1, i <= Len(Order), Order[i] = h
      PROVE  Visited(h)'
  <2>1. i \in 1 .. pos' - 1
    BY <1>1
  <2> QED
    BY <2>1, <1>3 DEF Visited
<1>4. Visited(g)'
  <2>1. pos \in 1 .. pos' - 1 /\ pos <= Len(Order)
    BY <1>1
  <2> QED
    BY <2>1, <1>1 DEF Visited
<1> QED
  BY <1>2, <1>3, <1>4 DEF Visited

\* A round is over when every graph has been visited.
LEMMA RoundVisitsAll ==
    ASSUME TypeOK, RoundOver, NEW g \in Graphs
    PROVE  Visited(g)
<1>1. PICK i \in 1 .. Len(Order) : Order[i] = g
  BY FixpointAssumption
<1>2. i \in 1 .. pos - 1 /\ i <= Len(Order)
  BY FixpointAssumption DEF TypeOK, RoundOver
<1> QED
  BY <1>1, <1>2 DEF Visited

-----------------------------------------------------------------------------
(* Versions.                                                               *)

\* Looking at the scratch keeps the meaning of versions, and leaves the
\* signatures the analysis of g reads observed.
LEMMA RefreshKeepsVersions ==
    ASSUME TypeOK, VersionsBounded, NEW g \in Graphs,
           Tracked(cached, version, nextVersion, prev, observed)
    PROVE  /\ RefreshedObserved(g) \in Facts
           /\ RefreshedVersion(g) \in [FactKeys -> Nat]
           /\ RefreshedNextVersion(g) \in Nat
           /\ \A key \in FactKeys : RefreshedVersion(g)[key] <= RefreshedNextVersion(g)
           /\ Tracked(cached, RefreshedVersion(g), RefreshedNextVersion(g),
                      prev, RefreshedObserved(g))
           /\ \A key \in Reads(g) :
                 Entry(prev, RefreshedObserved(g), key) = Entry(prev, scratch, key)
<1>1. CASE ~Stale(g)
  <2>1. RefreshedObserved(g) = observed /\ RefreshedVersion(g) = version
           /\ RefreshedNextVersion(g) = nextVersion
    BY <1>1 DEF RefreshedObserved, RefreshedVersion, RefreshedNextVersion
  <2>2. ASSUME NEW key \in Reads(g)
        PROVE  Entry(prev, observed, key) = Entry(prev, scratch, key)
    <3>1. CASE key[1] = "scratch"
      <4>1. key = <<"scratch", Parent[g]>> /\ observed[Parent[g]] = scratch[Parent[g]]
        BY <1>1, <3>1, ScratchRead DEF Stale
      <4> QED
        BY <4>1, EntryOfScratch
    <3>2. CASE key[1] # "scratch"
      BY <3>2, ReadsAreKeys, EntryOfSnapshot
    <3> QED
      BY <3>1, <3>2
  <2> QED
    BY <2>1, <2>2 DEF TypeOK, VersionsBounded
<1>2. CASE Stale(g)
  <2> DEFINE p == Parent[g]
             k == <<"scratch", p>>
             o == [observed EXCEPT ![p] = scratch[p]]
             v == [version EXCEPT ![k] = nextVersion + 1]
  <2>1. RefreshedObserved(g) = o /\ RefreshedVersion(g) = v
           /\ RefreshedNextVersion(g) = nextVersion + 1
    BY <1>2 DEF RefreshedObserved, RefreshedVersion, RefreshedNextVersion
  <2>2. p \in Graphs /\ k \in FactKeys
    BY <1>2, FixpointAssumption DEF Stale, FactKeys
  <2>3. o \in Facts /\ v \in [FactKeys -> Nat] /\ nextVersion + 1 \in Nat
    BY <2>2 DEF TypeOK, Facts
  <2>4. \A key \in FactKeys : v[key] <= nextVersion + 1
    BY <2>2 DEF TypeOK, VersionsBounded
  <2>5. \A h \in Graphs : o[h] = IF h = p THEN scratch[p] ELSE observed[h]
    BY <2>2 DEF TypeOK, Facts
  <2>6. \A key \in FactKeys : v[key] = IF key = k THEN nextVersion + 1 ELSE version[key]
    BY <2>2 DEF TypeOK
  <2> HIDE DEF o, v, k
  <2>7. ASSUME NEW key \in FactKeys, key # k
        PROVE  Entry(prev, o, key) = Entry(prev, observed, key)
    <3>1. CASE key[1] = "scratch"
      <4>1. key = <<"scratch", key[2]>> /\ key[2] \in Graphs /\ key[2] # p
        BY <2>7, <3>1, KeyKinds DEF k
      <4> QED
        BY <4>1, <2>5, EntryOfScratch
    <3>2. CASE key[1] # "scratch"
      BY <3>2, EntryOfSnapshot
    <3> QED
      BY <3>1, <3>2
  <2>8. Tracked(cached, v, nextVersion + 1, prev, o)
    <3>1. ASSUME NEW h \in Graphs, cached[h] # None, NEW key \in Reads(h)
          PROVE  /\ cached[h].reads[key] \in Nat
                 /\ cached[h].reads[key] <= nextVersion + 1
                 /\ v[key] = cached[h].reads[key]
                        => Entry(prev, o, key) = cached[h].result.in[key]
      <4>1. /\ cached[h].reads[key] \in Nat
            /\ cached[h].reads[key] <= nextVersion
            /\ version[key] = cached[h].reads[key]
                   => Entry(prev, observed, key) = cached[h].result.in[key]
        BY <3>1 DEF Tracked
      <4>2. key \in FactKeys
        BY ReadsAreKeys
      <4>3. nextVersion \in Nat
        BY DEF TypeOK
      <4>4. CASE key = k
        BY <4>1, <4>2, <4>3, <4>4, <2>6
      <4>5. CASE key # k
        BY <4>1, <4>2, <4>3, <4>5, <2>6, <2>7
      <4> QED
        BY <4>4, <4>5
    <3> QED
      BY <3>1 DEF Tracked
  <2>9. ASSUME NEW key \in Reads(g)
        PROVE  Entry(prev, o, key) = Entry(prev, scratch, key)
    <3>1. CASE key[1] = "scratch"
      <4>1. key = <<"scratch", p>>
        BY <3>1, ScratchRead
      <4> QED
        BY <4>1, <2>2, <2>5, EntryOfScratch
    <3>2. CASE key[1] # "scratch"
      BY <3>2, ReadsAreKeys, EntryOfSnapshot
    <3> QED
      BY <3>1, <3>2
  <2> QED
    BY <2>1, <2>3, <2>4, <2>8, <2>9
<1> QED
  BY <1>1, <1>2
-----------------------------------------------------------------------------
(* Visits.                                                                 *)

\* Whatever the unknown functions answer is in range.
LEMMA AnswersInRange ==
    ASSUME Answered, NEW g \in Graphs
    PROVE  /\ \A summary \in Summaries(g) : summary \subseteq Types
           /\ \A out \in Answers(analysis, <<g, Inputs(g)>>, OutputsOf(g)) :
                 out \in OutputsOf(g)
<1>1. ASSUME NEW summary \in Summaries(g)
      PROVE  summary \subseteq Types
  BY <1>1 DEF Summaries, Answers, Answered
<1>2. ASSUME NEW out \in Answers(analysis, <<g, Inputs(g)>>, OutputsOf(g))
      PROVE  out \in OutputsOf(g)
  <2>1. CASE out \in OutputsOf(g)
    BY <2>1
  <2>2. CASE \E a \in analysis : a[1] = <<g, Inputs(g)>> /\ out = a[2]
    <3>1. PICK a \in analysis : a[1] = <<g, Inputs(g)>> /\ out = a[2]
      BY <2>2
    <3>2. a[1][1] = g
      BY <3>1
    <3> QED
      BY <3>1, <3>2 DEF Answered
  <2> QED
    BY <1>2, <2>1, <2>2 DEF Answers
<1> QED
  BY <1>1, <1>2

\* A visit adds to the snapshot under construction what the result says of the
\* graph and takes nothing back.
LEMMA PublishedEffect ==
    ASSUME next \in Snapshots, NEW g \in Graphs, NEW summary \in SUBSET Types,
           NEW out \in OutputsOf(g)
    PROVE  LET n == Published(g, summary, out)
           IN  /\ n \in Snapshots
               /\ \A h \in Graphs : /\ next.callables[h] \subseteq n.callables[h]
                                    /\ next.captured[h] \subseteq n.captured[h]
               /\ out.sigs \subseteq n.callables[g]
               /\ g # Root => out.ret \subseteq n.callables[Parent[g]]
               /\ \A c \in Nested(g) : out.cap \subseteq n.captured[c]
               /\ out.ref # None => n.refinements[g] = out.ref
               /\ out.ref = None => n.refinements[g] = next.refinements[g]
               /\ \A h \in Graphs \ {g} : n.refinements[h] = next.refinements[h]
<1> DEFINE calls == [h \in Graphs |->
                next.callables[h]
                    \cup (IF h = g THEN summary \cup out.sigs ELSE {})
                    \cup (IF g # Root /\ h = Parent[g] THEN out.ret ELSE {})]
           caps == [h \in Graphs |->
                next.captured[h] \cup (IF h \in Nested(g) THEN out.cap ELSE {})]
           refs == IF out.ref # None THEN [next.refinements EXCEPT ![g] = out.ref]
                                     ELSE next.refinements
           n == Published(g, summary, out)
<1>1. n.callables = calls /\ n.captured = caps /\ n.refinements = refs
        /\ n = [callables |-> calls, captured |-> caps, refinements |-> refs]
  BY DEF Published
<1>2. next.callables \in Facts /\ next.captured \in Facts
        /\ next.refinements \in [Graphs -> Refinements \cup {None}]
  BY DEF Snapshots
<1>3. g # Root => Parent[g] \in Graphs
  BY FixpointAssumption
<1>4. calls \in Facts /\ caps \in Facts
  BY <1>2, OutputsTyped DEF Facts
<1>5. refs \in [Graphs -> Refinements \cup {None}]
  BY <1>2, OutputsTyped
<1>6. n \in Snapshots
  BY <1>1, <1>4, <1>5 DEF Snapshots
<1>7. \A h \in Graphs : /\ next.callables[h] \subseteq calls[h]
                        /\ next.captured[h] \subseteq caps[h]
  OBVIOUS
<1>8. out.sigs \subseteq calls[g] /\ (g # Root => out.ret \subseteq calls[Parent[g]])
  BY <1>3
<1>9. \A c \in Nested(g) : out.cap \subseteq caps[c]
  BY DEF Nested
<1>10. /\ out.ref # None => refs[g] = out.ref
       /\ out.ref = None => refs[g] = next.refinements[g]
       /\ \A h \in Graphs \ {g} : refs[h] = next.refinements[h]
  BY <1>2
<1> HIDE DEF calls, caps, refs, n
<1> QED
  BY <1>1, <1>6, <1>7, <1>8, <1>9, <1>10 DEF n

\* A visit that publishes a current result keeps the round current, and its
\* writes go where the invariant says.
LEMMA VisitKeepsRound ==
    ASSUME IInv, NEW g \in Graphs, Visiting(g),
           NEW summary \in SUBSET Types, NEW result,
           result.out \in OutputsOf(g), result.in = Inputs(g),
           Publish(g, summary, result)
    PROVE  /\ next' \in Snapshots
           /\ scratch' \in Facts
           /\ pos' \in 1 .. Len(Order) + 1
           /\ results' = [h \in Graphs |-> results'[h]]
           /\ ResultsAreCurrent'
           /\ Written'
           /\ ConvergedIsFixpoint'
<1>1. /\ results' = [results EXCEPT ![g] = result]
      /\ next' = Published(g, summary, result.out)
      /\ scratch' = [scratch EXCEPT ![g] = result.out.sigs]
      /\ pos' = pos + 1
      /\ UNCHANGED <<prev, round, status>>
  BY DEF Publish
<1>2. TypeOK /\ status = "running" /\ status' = "running"
  BY <1>1 DEF IInv, Visiting
<1>3. ~Visited(g) /\ (g # Root => Visited(Parent[g]))
  BY <1>2, VisitOrder
<1>4. \A h \in Graphs : Visited(h)' <=> (Visited(h) \/ h = g)
  BY <1>1, <1>2, VisitAdds
<1>5. results' = [h \in Graphs |-> IF h = g THEN result ELSE results[h]]
  BY <1>1 DEF IInv, Kept
<1>6. \A h \in Graphs : scratch'[h] = IF h = g THEN result.out.sigs ELSE scratch[h]
  BY <1>1, <1>2 DEF TypeOK, Facts
<1>7. scratch' \in Facts
  BY <1>1, <1>2, OutputsTyped DEF TypeOK, Facts
<1>8. pos' \in 1 .. Len(Order) + 1
  BY <1>1, <1>2, FixpointAssumption DEF TypeOK, Visiting
<1>9. next' \in Snapshots
  BY <1>1, <1>2, PublishedEffect DEF TypeOK
<1>10. ResultsAreCurrent'
  <2>1. ASSUME NEW h \in Graphs, Visited(h) \/ h = g
        PROVE  Inputs(h)' = Inputs(h)
    <3>1. ASSUME NEW key \in Reads(h)
          PROVE  Entry(prev', scratch', key) = Entry(prev, scratch, key)
      <4>1. CASE key[1] # "scratch"
        BY <4>1, <1>1, ReadsAreKeys, EntryOfSnapshot
      <4>2. CASE key[1] = "scratch"
        <5>1. h # Root /\ key = <<"scratch", Parent[h]>>
          BY <4>2, ScratchRead
        <5>2. Parent[h] \in Graphs
          BY <5>1, FixpointAssumption
        <5>3. Parent[h] # g
          BY <2>1, <5>1, <1>3, <1>2, VisitedAfterParent
        <5> QED
          BY <5>1, <5>2, <5>3, <1>6, EntryOfScratch
      <4> QED
        BY <4>1, <4>2
    <3> QED
      BY <3>1 DEF Inputs
  <2>2. ASSUME NEW h \in Graphs, Visited(h)'
        PROVE  results'[h].in = Inputs(h)'
    <3>1. CASE h = g
      BY <3>1, <2>1, <1>5
    <3>2. CASE h # g
      BY <3>2, <2>1, <2>2, <1>2, <1>4, <1>5 DEF IInv, ResultsAreCurrent
    <3> QED
      BY <3>1, <3>2
  <2> QED
    BY <2>2 DEF ResultsAreCurrent
<1>11. Written'
  <2> DEFINE n == Published(g, summary, result.out)
  <2>1. /\ \A h \in Graphs : /\ next.callables[h] \subseteq n.callables[h]
                             /\ next.captured[h] \subseteq n.captured[h]
        /\ result.out.sigs \subseteq n.callables[g]
        /\ g # Root => result.out.ret \subseteq n.callables[Parent[g]]
        /\ \A c \in Nested(g) : result.out.cap \subseteq n.captured[c]
        /\ result.out.ref # None => n.refinements[g] = result.out.ref
        /\ result.out.ref = None => n.refinements[g] = next.refinements[g]
        /\ \A h \in Graphs \ {g} : n.refinements[h] = next.refinements[h]
    BY <1>2, PublishedEffect, ZenonT(40) DEF TypeOK
  <2>2. next' = n
    BY <1>1
  <2> HIDE DEF n
  <2>3. next.refinements[g] = None
    BY <1>2, <1>3 DEF IInv, Written
  <2>4. ASSUME NEW h \in Graphs, Visited(h)'
        PROVE  /\ scratch'[h] = results'[h].out.sigs
               /\ results'[h].out.sigs \subseteq n.callables[h]
               /\ h # Root => results'[h].out.ret \subseteq n.callables[Parent[h]]
               /\ \A c \in Nested(h) : results'[h].out.cap \subseteq n.captured[c]
               /\ n.refinements[h] = results'[h].out.ref
    <3>1. CASE h = g
      BY <3>1, <1>5, <1>6, <2>1, <2>3
    <3>2. CASE h # g
      <4>1. /\ scratch[h] = results[h].out.sigs
            /\ results[h].out.sigs \subseteq next.callables[h]
            /\ h # Root => results[h].out.ret \subseteq next.callables[Parent[h]]
            /\ \A c \in Nested(h) : results[h].out.cap \subseteq next.captured[c]
            /\ next.refinements[h] = results[h].out.ref
        BY <3>2, <2>4, <1>2, <1>4 DEF IInv, Written
      <4>2. results'[h] = results[h] /\ scratch'[h] = scratch[h]
        BY <3>2, <1>5, <1>6
      <4>3. h # Root => Parent[h] \in Graphs
        BY FixpointAssumption
      <4>4. \A c \in Nested(h) : c \in Graphs
        BY DEF Nested
      <4> QED
        BY <4>1, <4>2, <4>3, <4>4, <3>2, <2>1
    <3> QED
      BY <3>1, <3>2
  <2>5. ASSUME NEW h \in Graphs, ~(Visited(h)')
        PROVE  n.refinements[h] = None
    BY <2>5, <1>2, <1>4, <2>1 DEF IInv, Written
  <2> QED
    BY <2>2, <2>4, <2>5 DEF Written
<1>12. ConvergedIsFixpoint'
  BY <1>2 DEF ConvergedIsFixpoint
<1>13. results' = [h \in Graphs |-> results'[h]]
  BY <1>5
<1> QED
  BY <1>7, <1>8, <1>9, <1>10, <1>11, <1>12, <1>13
\* A result that may be taken again is current.
LEMMA ReuseIsCurrent ==
    ASSUME IInv, NEW g \in Graphs, FactsUnchanged(g)
    PROVE  /\ cached[g].result.out \in OutputsOf(g)
           /\ cached[g].result.in = Inputs(g)
<1>1. cached[g] # None /\ \A key \in Reads(g) : RefreshedVersion(g)[key] = cached[g].reads[key]
  BY DEF FactsUnchanged, Recorded
<1>2. /\ Tracked(cached, RefreshedVersion(g), RefreshedNextVersion(g),
                 prev, RefreshedObserved(g))
      /\ \A key \in Reads(g) :
            Entry(prev, RefreshedObserved(g), key) = Entry(prev, scratch, key)
  BY RefreshKeepsVersions DEF IInv
<1>3. ASSUME NEW key \in Reads(g)
      PROVE  cached[g].result.in[key] = Entry(prev, scratch, key)
  BY <1>1, <1>2 DEF Tracked
<1>4. /\ cached[g].result.out \in OutputsOf(g)
      /\ cached[g].result.in = [key \in Reads(g) |-> cached[g].result.in[key]]
  BY <1>1 DEF IInv, Kept
<1> QED
  BY <1>3, <1>4 DEF Inputs

\* A step that takes a result again keeps the invariant.
LEMMA ReuseStep ==
    ASSUME IInv, NEW g \in Graphs, Reuse(g)
    PROVE  IInv'
<1>1. Visiting(g) /\ FactsUnchanged(g) /\ Refresh(g) /\ UNCHANGED <<cached, analysis>>
  BY DEF Reuse
<1>2. PICK summary \in Summaries(g) :
        /\ Publish(g, summary, cached[g].result)
        /\ inference' = inference \cup {<<ReturnArgument(g), summary>>}
  BY DEF Reuse
<1>3. summary \in SUBSET Types
  BY AnswersInRange DEF IInv
<1>4. cached[g].result.out \in OutputsOf(g) /\ cached[g].result.in = Inputs(g)
  BY <1>1, ReuseIsCurrent
<1>5. /\ next' \in Snapshots
      /\ scratch' \in Facts
      /\ pos' \in 1 .. Len(Order) + 1
      /\ results' = [h \in Graphs |-> results'[h]]
      /\ ResultsAreCurrent' /\ Written' /\ ConvergedIsFixpoint'
  BY <1>1, <1>2, <1>3, <1>4, VisitKeepsRound
<1>6. /\ observed' \in Facts
      /\ version' \in [FactKeys -> Nat]
      /\ nextVersion' \in Nat
      /\ VersionsBounded'
      /\ Tracked(cached, version', nextVersion', prev, observed')
  BY <1>1, RefreshKeepsVersions DEF IInv, Refresh, VersionsBounded
<1>7. UNCHANGED <<prev, round, status>>
  BY <1>2 DEF Publish
<1>8. TypeOK'
  BY <1>5, <1>6, <1>7 DEF IInv, TypeOK
<1>9. Answered'
  BY <1>1, <1>2, <1>3 DEF IInv, Answered
<1>10. Kept'
  BY <1>1, <1>5 DEF IInv, Kept
<1>11. Tracked(cached, version, nextVersion, prev, observed)'
  BY <1>1, <1>6, <1>7 DEF Tracked
<1> QED
  BY <1>5, <1>6, <1>8, <1>9, <1>10, <1>11 DEF IInv

\* A step that analyses a graph keeps the invariant.
LEMMA AnalyseStep ==
    ASSUME IInv, NEW g \in Graphs, Analyse(g)
    PROVE  IInv'
<1>1. Visiting(g) /\ Refresh(g)
  BY DEF Analyse
<1>2. PICK summary \in Summaries(g),
           out \in Answers(analysis, <<g, Inputs(g)>>, OutputsOf(g)) :
        /\ Publish(g, summary, [in |-> Inputs(g), out |-> out])
        /\ inference' = inference \cup {<<ReturnArgument(g), summary>>}
        /\ analysis' = analysis \cup {<<<<g, Inputs(g)>>, out>>}
        /\ cached' = [cached EXCEPT ![g] =
              [result |-> [in |-> Inputs(g), out |-> out],
               reads  |-> [key \in Reads(g) |-> RefreshedVersion(g)[key]]]]
  BY DEF Analyse, Recorded
<1>3. summary \in SUBSET Types /\ out \in OutputsOf(g)
  BY AnswersInRange DEF IInv
<1> DEFINE result == [in |-> Inputs(g), out |-> out]
<1>4. result.out \in OutputsOf(g) /\ result.in = Inputs(g)
  BY <1>3
<1>5. /\ next' \in Snapshots
      /\ scratch' \in Facts
      /\ pos' \in 1 .. Len(Order) + 1
      /\ results' = [h \in Graphs |-> results'[h]]
      /\ ResultsAreCurrent' /\ Written' /\ ConvergedIsFixpoint'
  <2>1. Publish(g, summary, result)
    BY <1>2
  <2> HIDE DEF result
  <2> QED
    BY <1>1, <1>3, <1>4, <2>1, VisitKeepsRound
<1>6. /\ observed' \in Facts
      /\ version' \in [FactKeys -> Nat]
      /\ nextVersion' \in Nat
      /\ VersionsBounded'
      /\ Tracked(cached, version', nextVersion', prev, observed')
      /\ \A key \in Reads(g) : Entry(prev, observed', key) = Entry(prev, scratch, key)
  BY <1>1, RefreshKeepsVersions DEF IInv, Refresh, VersionsBounded
<1>7. UNCHANGED <<prev, round, status>>
  BY <1>2 DEF Publish
<1>8. TypeOK'
  BY <1>5, <1>6, <1>7 DEF IInv, TypeOK
<1>9. Answered'
  <2>1. \A a \in analysis' : a[2] \in OutputsOf(a[1][1])
    <3>1. ASSUME NEW a \in analysis'
          PROVE  a[2] \in OutputsOf(a[1][1])
      <4>1. CASE a \in analysis
        BY <4>1 DEF IInv, Answered
      <4>2. CASE a = <<<<g, Inputs(g)>>, out>>
        <5>1. a[2] = out /\ a[1][1] = g
          BY <4>2
        <5> QED
          BY <5>1, <1>3
      <4> QED
        BY <1>2, <4>1, <4>2
    <3> QED
      BY <3>1
  <2>2. \A a \in inference' : a[2] \subseteq Types
    BY <1>2, <1>3 DEF IInv, Answered
  <2> QED
    BY <2>1, <2>2 DEF Answered
<1>10. /\ cached'[g].result = result
       /\ cached'[g].reads = [key \in Reads(g) |-> version'[key]]
       /\ \A h \in Graphs \ {g} : cached'[h] = cached[h]
  <2>1. cached = [h \in Graphs |-> cached[h]]
    BY DEF IInv, Kept
  <2>2. version' = RefreshedVersion(g)
    BY <1>1 DEF Refresh
  <2>3. cached'[g] = [result |-> result, reads |-> [key \in Reads(g) |-> version'[key]]]
    BY <1>2, <2>1, <2>2
  <2>4. \A h \in Graphs \ {g} : cached'[h] = cached[h]
    BY <1>2, <2>1
  <2> HIDE DEF result
  <2> QED
    BY <2>3, <2>4
<1> HIDE DEF result
<1>11. Kept'
  <2>1. cached' = [h \in Graphs |-> cached'[h]]
    BY <1>2 DEF IInv, Kept
  <2>2. ASSUME NEW h \in Graphs, cached'[h] # None
        PROVE  /\ cached'[h].result.out \in OutputsOf(h)
               /\ cached'[h].result.in = [key \in Reads(h) |-> cached'[h].result.in[key]]
    <3>1. CASE h = g
      <4>1. cached'[h].result.out \in OutputsOf(g) /\ cached'[h].result.in = Inputs(g)
        BY <3>1, <1>4, <1>10
      <4>2. Inputs(g) = [key \in Reads(g) |-> Inputs(g)[key]]
        BY DEF Inputs
      <4> QED
        BY <3>1, <4>1, <4>2
    <3>2. CASE h # g
      BY <3>2, <2>2, <1>10 DEF IInv, Kept
    <3> QED
      BY <3>1, <3>2
  <2> QED
    BY <2>1, <2>2, <1>5 DEF Kept
<1>12. Tracked(cached, version, nextVersion, prev, observed)'
  <2>1. ASSUME NEW h \in Graphs, cached'[h] # None, NEW key \in Reads(h)
        PROVE  /\ cached'[h].reads[key] \in Nat
               /\ cached'[h].reads[key] <= nextVersion'
               /\ version'[key] = cached'[h].reads[key]
                      => Entry(prev, observed', key) = cached'[h].result.in[key]
    <3>1. CASE h = g
      <4>1. cached'[h].reads[key] = version'[key] /\ cached'[h].result.in = Inputs(g)
        BY <3>1, <1>4, <1>10
      <4>2. key \in FactKeys
        BY ReadsAreKeys
      <4>3. Inputs(g)[key] = Entry(prev, scratch, key)
        BY <3>1 DEF Inputs
      <4> QED
        BY <3>1, <4>1, <4>2, <4>3, <1>6 DEF VersionsBounded
    <3>2. CASE h # g
      BY <3>2, <2>1, <1>6, <1>10 DEF Tracked
    <3> QED
      BY <3>1, <3>2
  <2> QED
    BY <2>1, <1>7 DEF Tracked
<1> QED
  BY <1>5, <1>6, <1>8, <1>9, <1>11, <1>12 DEF IInv
-----------------------------------------------------------------------------
(* The end of a round.                                                     *)

\* The merged snapshot is one, holds what the round wrote, and differs from
\* the stable one in the entries that get a new version.
LEMMA MergedEffect ==
    ASSUME prev \in Snapshots, next \in Snapshots
    PROVE  /\ Merged \in Snapshots
           /\ \A g \in Graphs : /\ next.callables[g] \subseteq Merged.callables[g]
                                /\ next.captured[g] \subseteq Merged.captured[g]
                                /\ Merged.refinements[g] = next.refinements[g]
<1>1. /\ prev.callables \in Facts /\ next.callables \in Facts
      /\ prev.captured \in Facts /\ next.captured \in Facts
      /\ next.refinements \in [Graphs -> Refinements \cup {None}]
  BY DEF Snapshots
<1>2. /\ Merged.callables = [g \in Graphs |-> prev.callables[g] \cup next.callables[g]]
      /\ Merged.captured = [g \in Graphs |-> prev.captured[g] \cup next.captured[g]]
      /\ Merged.refinements = next.refinements
  BY DEF Merged
<1>3. Merged \in Snapshots
  <2>1. /\ [g \in Graphs |-> prev.callables[g] \cup next.callables[g]] \in Facts
        /\ [g \in Graphs |-> prev.captured[g] \cup next.captured[g]] \in Facts
    BY <1>1 DEF Facts
  <2> QED
    BY <1>1, <2>1 DEF Merged, Snapshots
<1> QED
  BY <1>2, <1>3

LEMMA NewStateTyped ==
    NewInterprocState \in Snapshots /\ \A g \in Graphs : NewInterprocState.refinements[g] = None
BY DEF NewInterprocState, Snapshots, Facts

\* An entry the swap leaves at its version keeps its contents.
LEMMA UnchangedEntry ==
    ASSUME NEW key \in FactKeys, key \notin ChangedKeys
    PROVE  Entry(Merged, observed, key) = Entry(prev, observed, key)
<1>1. CASE key[1] = "scratch"
  BY <1>1 DEF Entry
<1>2. CASE key[1] # "scratch"
  <2>1. key \in SnapshotKeys
    BY <1>2 DEF FactKeys
  <2>2. Entry(prev, scratch, key) = Entry(Merged, scratch, key)
    BY <2>1 DEF ChangedKeys
  <2> QED
    BY <2>2, <1>2, EntryOfSnapshot
<1> QED
  BY <1>1, <1>2

\* The swap keeps the invariant.
LEMMA SwapStep ==
    ASSUME IInv, FixpointSwap
    PROVE  IInv'
<1>1. TypeOK /\ prev \in Snapshots /\ next \in Snapshots
  BY DEF IInv, TypeOK
<1>2. /\ RoundOver
      /\ prev' = Merged
      /\ next' = NewInterprocState
      /\ scratch' = [g \in Graphs |-> {}]
      /\ version' = [key \in FactKeys |->
                        IF key \in ChangedKeys THEN nextVersion + 1 ELSE version[key]]
      /\ nextVersion' = nextVersion + 1
      /\ status' = IF Merged = prev THEN "converged"
                   ELSE IF BudgetSpent THEN "exhausted" ELSE "running"
      /\ IF status' = "running" THEN round' = round + 1 /\ pos' = 1
                                ELSE UNCHANGED <<round, pos>>
      /\ UNCHANGED <<observed, cached, results, analysis, inference>>
  BY DEF FixpointSwap
<1>3. TypeOK'
  <2>1. prev' \in Snapshots /\ next' \in Snapshots
    BY <1>1, <1>2, MergedEffect, NewStateTyped
  <2>2. scratch' \in Facts /\ observed' \in Facts
    BY <1>1, <1>2 DEF TypeOK, Facts
  <2>3. version' \in [FactKeys -> Nat] /\ nextVersion' \in Nat
    BY <1>1, <1>2 DEF TypeOK
  <2>4. round' \in 1 .. Rounds /\ pos' \in 1 .. Len(Order) + 1
    <3>1. Len(Order) \in Nat
      BY FixpointAssumption
    <3>2. CASE status' = "running"
      BY <3>1, <3>2, <1>1, <1>2, FixpointAssumption DEF TypeOK, BudgetSpent
    <3>3. CASE status' # "running"
      BY <3>3, <1>1, <1>2 DEF TypeOK
    <3> QED
      BY <3>2, <3>3
  <2>5. status' \in {"running", "converged", "exhausted"}
    BY <1>2
  <2> QED
    BY <2>1, <2>2, <2>3, <2>4, <2>5 DEF TypeOK
<1>4. Answered' /\ Kept'
  BY <1>2 DEF IInv, Answered, Kept
<1>5. VersionsBounded'
  BY <1>1, <1>2 DEF IInv, TypeOK, VersionsBounded
<1>6. Tracked(cached, version, nextVersion, prev, observed)'
  <2>1. ASSUME NEW h \in Graphs, cached[h] # None, NEW key \in Reads(h)
        PROVE  /\ cached[h].reads[key] \in Nat
               /\ cached[h].reads[key] <= nextVersion'
               /\ version'[key] = cached[h].reads[key]
                      => Entry(Merged, observed, key) = cached[h].result.in[key]
    <3>1. /\ cached[h].reads[key] \in Nat
          /\ cached[h].reads[key] <= nextVersion
          /\ version[key] = cached[h].reads[key]
                 => Entry(prev, observed, key) = cached[h].result.in[key]
      BY <2>1 DEF IInv, Tracked
    <3>2. key \in FactKeys /\ nextVersion \in Nat
      BY <1>1, ReadsAreKeys DEF TypeOK
    <3>3. CASE key \in ChangedKeys
      BY <3>1, <3>2, <3>3, <1>2
    <3>4. CASE key \notin ChangedKeys
      BY <3>1, <3>2, <3>4, <1>2, UnchangedEntry
    <3> QED
      BY <3>3, <3>4
  <2> QED
    BY <2>1, <1>2 DEF Tracked
<1>7. ASSUME status' = "running", NEW g \in Graphs
      PROVE  ~(Visited(g)')
  BY <1>7, <1>2 DEF Visited
<1>8. ResultsAreCurrent'
  BY <1>7 DEF ResultsAreCurrent
<1>9. Written'
  BY <1>2, <1>7, NewStateTyped DEF Written
<1>10. ConvergedIsFixpoint'
  <2>1. SUFFICES ASSUME status' = "converged", NEW g \in Graphs
                 PROVE  /\ \A key \in Reads(g) :
                              results'[g].in[key] =
                                 Entry(prev', [h \in Graphs |-> results'[h].out.sigs], key)
                        /\ results'[g].out.sigs \subseteq prev'.callables[g]
                        /\ g # Root => results'[g].out.ret \subseteq prev'.callables[Parent[g]]
                        /\ \A c \in Nested(g) : results'[g].out.cap \subseteq prev'.captured[c]
                        /\ prev'.refinements[g] = results'[g].out.ref
    BY DEF ConvergedIsFixpoint
  <2>2. Merged = prev /\ prev' = prev /\ results' = results
    BY <2>1, <1>2
  <2>3. status = "running" /\ \A h \in Graphs : Visited(h)
    BY <1>1, <1>2, RoundVisitsAll DEF RoundOver
  <2>4. \A h \in Graphs :
            /\ scratch[h] = results[h].out.sigs
            /\ results[h].out.sigs \subseteq next.callables[h]
            /\ h # Root => results[h].out.ret \subseteq next.callables[Parent[h]]
            /\ \A c \in Nested(h) : results[h].out.cap \subseteq next.captured[c]
            /\ next.refinements[h] = results[h].out.ref
    BY <2>3 DEF IInv, Written
  <2>5. \A h \in Graphs : /\ next.callables[h] \subseteq prev.callables[h]
                          /\ next.captured[h] \subseteq prev.captured[h]
                          /\ prev.refinements[h] = next.refinements[h]
    BY <1>1, <2>2, MergedEffect
  <2>6. [h \in Graphs |-> results[h].out.sigs] = scratch
    BY <1>1, <2>4 DEF TypeOK, Facts
  <2>7. \A key \in Reads(g) : results[g].in[key] = Entry(prev, scratch, key)
    BY <2>3 DEF IInv, ResultsAreCurrent, Inputs
  <2>8. /\ g # Root => Parent[g] \in Graphs
        /\ \A c \in Nested(g) : c \in Graphs
    BY FixpointAssumption DEF Nested
  <2> QED
    BY <2>2, <2>4, <2>5, <2>6, <2>7, <2>8
<1> QED
  BY <1>3, <1>4, <1>5, <1>6, <1>8, <1>9, <1>10 DEF IInv

-----------------------------------------------------------------------------
\* The invariant holds when the driver starts.
LEMMA InitIInv == Init => IInv
<1> SUFFICES ASSUME Init PROVE IInv
  OBVIOUS
<1>1. TypeOK
  <2>1. PICK seeds \in [Refines -> Refinements \cup {None}] :
          prev = [NewInterprocState EXCEPT !.refinements =
                     [g \in Graphs |-> IF g \in Refines THEN seeds[g] ELSE None]]
    BY DEF Init
  <2>2. [g \in Graphs |-> IF g \in Refines THEN seeds[g] ELSE None]
           \in [Graphs -> Refinements \cup {None}]
    OBVIOUS
  <2>3. prev \in Snapshots
    BY <2>1, <2>2 DEF NewInterprocState, Snapshots, Facts
  <2>4. next \in Snapshots
    BY NewStateTyped DEF Init
  <2>5. scratch \in Facts /\ observed \in Facts
    BY DEF Init, Facts
  <2>6. round \in 1 .. Rounds /\ pos \in 1 .. Len(Order) + 1
    BY FixpointAssumption DEF Init
  <2> QED
    BY <2>3, <2>4, <2>5, <2>6 DEF Init, TypeOK
<1>2. Answered /\ Kept /\ VersionsBounded
  BY DEF Init, Answered, Kept, VersionsBounded
<1>3. Tracked(cached, version, nextVersion, prev, observed)
  BY DEF Init, Tracked
<1>4. \A g \in Graphs : ~Visited(g)
  BY DEF Init, Visited
<1>5. ResultsAreCurrent /\ ConvergedIsFixpoint
  BY <1>4 DEF Init, ResultsAreCurrent, ConvergedIsFixpoint
<1>6. Written
  BY <1>4, NewStateTyped DEF Init, Written
<1> QED
  BY <1>1, <1>2, <1>3, <1>5, <1>6 DEF IInv

\* Every step of the driver keeps the invariant.
LEMMA NextIInv == IInv /\ [Next]_vars => IInv'
<1> SUFFICES ASSUME IInv, [Next]_vars PROVE IInv'
  OBVIOUS
<1>1. CASE \E g \in Graphs : Reuse(g)
  BY <1>1, ReuseStep
<1>2. CASE \E g \in Graphs : Analyse(g)
  BY <1>2, AnalyseStep
<1>3. CASE FixpointSwap
  BY <1>3, SwapStep
<1>4. CASE UNCHANGED vars
  BY <1>4 DEF vars, IInv, TypeOK, Answered, Kept, VersionsBounded, Tracked,
              ResultsAreCurrent, Written, ConvergedIsFixpoint, Visited, Inputs
<1> QED
  BY <1>1, <1>2, <1>3, <1>4 DEF Next

LEMMA Invariance == Spec => []IInv
BY InitIInv, NextIInv, PTL DEF Spec

\* The store and the driver keep their types: the round count stays within the
\* budget, the snapshots hold facts and refinements of known graphs only.
THEOREM TypeCorrect == Spec => []TypeOK
<1>1. IInv => TypeOK
  BY DEF IInv
<1> QED
  BY <1>1, Invariance, PTL

\* Whatever the analysis computes, whatever the shape of the chunk and whatever
\* the order in which entries change: a result the worklist takes again is the
\* analysis of what the round's snapshot now says.
THEOREM WorklistIsSound == Spec => []ResultsAreCurrent
<1>1. IInv => ResultsAreCurrent
  BY DEF IInv
<1> QED
  BY <1>1, Invariance, PTL

\* The results of a chunk that converged were computed from the final snapshot,
\* which holds everything they say.
THEOREM ConvergenceIsFixpoint == Spec => []ConvergedIsFixpoint
<1>1. IInv => ConvergedIsFixpoint
  BY DEF IInv
<1> QED
  BY <1>1, Invariance, PTL
=============================================================================
