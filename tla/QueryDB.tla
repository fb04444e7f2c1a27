------------------------------- MODULE QueryDB -------------------------------
(***************************************************************************)
(* The incremental computation database of types/db: inputs stamped with   *)
(* the revision of their last Set, memoized queries that record what they  *)
(* read, and Query.Get, which answers from the cache, revalidates the      *)
(* recorded dependencies, or computes again, to a fixpoint when the query  *)
(* asked for itself.                                                       *)
(*                                                                         *)
(* A query here is a Query with one key.  What a compute function does is  *)
(* given by NextRead, the source it reads after the values it has read so  *)
(* far, and Combine, its result.  A step of a goroutine is one access to   *)
(* shared state: an atomic load of the revision, or a critical section of  *)
(* an Input or a Query.  Get runs on a stack of activations; the tracker's *)
(* frame of recorded dependencies is the deps field of a computing one,    *)
(* and a Get called by a validating one runs in the validation context,    *)
(* whose tracker has no frame.                                             *)
(***************************************************************************)
EXTENDS Naturals, Sequences, SequencesExt

CONSTANTS Threads,      \* goroutines, each with its own QueryContext
          Inputs,       \* the keys of the Input table
          Queries,
          Values,
          Zero,         \* the zero V: an unset input, and a query's seed
          None,         \* no source, no cache entry, no pending Set, no answer
          NextRead(_, _),   \* query, values read: the next source, or None
          Combine(_, _),    \* query, values read: the computed value
          Widen(_, _),      \* previous value, new value
          Widens,       \* the queries made with a widen function
          Panicky,      \* the queries whose computation may panic
          Exclusive,    \* TRUE: callers keep Set and Clear apart from Get
          MaxIter,      \* maxIter: fixpoint iterations before the panic
          MaxRevision   \* bound: Sets

ASSUME SourceAssumption ==
    /\ Inputs \cap Queries = {}
    /\ None \notin Inputs \cup Queries /\ None \notin Values
    /\ Zero \in Values
    /\ Widens \subseteq Queries /\ Panicky \subseteq Queries
ASSUME BoundAssumption ==
    /\ Exclusive \in BOOLEAN
    /\ MaxIter \in Nat \ {0}
    /\ MaxRevision \in Nat \ {0}

VARIABLES revision,   \* DB.revision
          input,      \* Input.values
          setting,    \* the Set that holds the Input's lock, or None
          cache,      \* Query.cache, the MemoEntry or None
          stack,      \* the activations of Query.Get, outermost first
          inProgress, \* tracker.inProgress
          cycle,      \* tracker.cycle
          answer      \* what the last top-level Get returned, until the next call

vars == <<revision, input, setting, cache, stack, inProgress, cycle, answer>>

-----------------------------------------------------------------------------
(* State.                                                                  *)

Revisions == 0 .. MaxRevision
Deps == [source : Inputs \cup Queries, last : Revisions]
Entries == [value : Values, verifiedAt : Revisions \ {0},
            updatedAt : Revisions \ {0}, deps : Seq(Deps)]
Sets == [source : Inputs, value : Values]   \* a Set under way

ASSUME NoneAssumption == None \notin Entries /\ None \notin Sets

\* Where an activation of Get stands:
\*   approx       the query is in progress, take the current approximation
\*   record       ... and record the dependency on it
\*   lookup       readCacheEntry
\*   check        compare VerifiedAt with the revision
\*   validate     changedAt of the next dependency
\*   revalidated  ... a query's: its Get returned, compare its UpdatedAt
\*   stamp, mark  load the revision, markVerified with it
\*   compute      the compute function runs
\*   load, store  load the revision, updateCacheEntry with it
Phases == {"approx", "record", "lookup", "check", "validate", "revalidated",
           "stamp", "mark", "compute", "load", "store"}
Activations ==
    [query : Queries, phase : Phases,
     entry : Entries \cup {None},   \* the copied MemoEntry
     next : Nat,                    \* the dependency being validated
     vals : Seq(Values),            \* what the compute function has read
     deps : Seq(Deps),              \* the tracker's frame
     value : Values, rev : Revisions, seen : Seq(Values)]

Top(t) == Last(stack[t])
At(t, phase) == stack[t] # <<>> /\ Top(t).phase = phase
Idle == \A t \in Threads : stack[t] = <<>>

\* The activation as Get starts: in progress already, or not.
Activation(t, q) ==
    [query |-> q, phase |-> IF q \in inProgress[t] THEN "approx" ELSE "lookup",
     entry |-> None, next |-> 1, vals |-> <<>>, deps |-> <<>>,
     value |-> Zero, rev |-> 0, seen |-> <<>>]

UpdatedAt(q) == IF cache[q] = None THEN 0 ELSE cache[q].updatedAt

Init ==
    /\ revision = 1
    /\ input = [i \in Inputs |-> [value |-> Zero, revision |-> 0]]
    /\ setting = None
    /\ cache = [q \in Queries |-> None]
    /\ stack = [t \in Threads |-> <<>>]
    /\ inProgress = [t \in Threads |-> {}]
    /\ cycle = [t \in Threads |-> {}]
    /\ answer = None

-----------------------------------------------------------------------------
(* Inputs.                                                                 *)

\* Set bumps the revision under the Input's lock ...
SetBump(i, v) ==
    /\ setting = None
    /\ Exclusive => Idle
    /\ revision < MaxRevision
    /\ revision' = revision + 1
    /\ setting' = [source |-> i, value |-> v]
    /\ answer' = None
    /\ UNCHANGED <<input, cache, stack, inProgress, cycle>>

\* ... and then stores the value stamped with it.  (Only Set bumps, so the
\* revision is still the one it got.)
SetStore ==
    /\ setting # None
    /\ input' = [input EXCEPT ![setting.source] =
                    [value |-> setting.value, revision |-> revision]]
    /\ setting' = None
    /\ UNCHANGED <<revision, cache, stack, inProgress, cycle, answer>>

\* Query.Clear.
Clear(q) ==
    /\ Exclusive => Idle
    /\ cache[q] # None
    /\ cache' = [cache EXCEPT ![q] = None]
    /\ answer' = None
    /\ UNCHANGED <<revision, input, setting, stack, inProgress, cycle>>

-----------------------------------------------------------------------------
(* Query.Get.  The helpers take and return one goroutine's stack.          *)

Update(s, a) == Append(Front(s), a)

\* recordDep: into the top frame, if the context has one.
recordDep(s, source, last) ==
    IF s # <<>> /\ Last(s).phase = "compute"
    THEN Update(s, [Last(s) EXCEPT !.deps = Append(@, [source |-> source, last |-> last])])
    ELSE s

\* The callee returned v: to the compute function, or to changedAt.
Deliver(s, v) ==
    CASE s = <<>> -> s
      [] s # <<>> /\ Last(s).phase = "compute" ->
            Update(s, [Last(s) EXCEPT !.vals = Append(@, v)])
      [] OTHER -> Update(s, [Last(s) EXCEPT !.phase = "revalidated"])

\* Record the dependency on the query at the top of t's stack and return v.
Return(t, v, last) ==
    LET q == Top(t).query
        callers == Front(stack[t])
    IN  /\ stack' = [stack EXCEPT ![t] = Deliver(recordDep(callers, q, last), v)]
        /\ answer' = IF callers = <<>>
                     THEN [query |-> q, value |-> v]
                     ELSE answer

Goto(t, a) == stack' = [stack EXCEPT ![t] = Update(@, a)]

\* The loop body's start: mark in progress, push a frame, call compute.
StartCompute(t, a) ==
    /\ inProgress' = [inProgress EXCEPT ![t] = @ \cup {a.query}]
    /\ Goto(t, [a EXCEPT !.phase = "compute", !.entry = None, !.next = 1])

\* A top-level Get.
Get(t, q) ==
    /\ stack[t] = <<>>
    /\ Exclusive => setting = None
    /\ stack' = [stack EXCEPT ![t] = <<Activation(t, q)>>]
    /\ answer' = None
    /\ UNCHANGED <<revision, input, setting, cache, inProgress, cycle>>

\* In progress: note the cycle; getCachedValue, or the seed.
Approximate(t) ==
    /\ At(t, "approx")
    /\ LET q == Top(t).query IN
       /\ cycle' = [cycle EXCEPT ![t] = @ \cup {q}]
       /\ Goto(t, [Top(t) EXCEPT !.phase = "record",
                      !.value = IF cache[q] = None THEN Zero ELSE cache[q].value])
    /\ UNCHANGED <<revision, input, setting, cache, inProgress, answer>>

RecordApproximation(t) ==
    /\ At(t, "record")
    /\ Return(t, Top(t).value, UpdatedAt(Top(t).query))
    /\ UNCHANGED <<revision, input, setting, cache, inProgress, cycle>>

\* readCacheEntry: with no entry there is nothing to check or to validate.
Lookup(t) ==
    /\ At(t, "lookup")
    /\ LET e == cache[Top(t).query] IN
       IF e = None THEN StartCompute(t, Top(t))
       ELSE /\ Goto(t, [Top(t) EXCEPT !.phase = "check", !.entry = e])
            /\ UNCHANGED inProgress
    /\ UNCHANGED <<revision, input, setting, cache, cycle, answer>>

\* Mutant of Check: the fast path forgets to record the dependency.
CheckUnrecorded(t) ==
    /\ At(t, "check")
    /\ LET e == Top(t).entry IN
       IF e.verifiedAt = revision
       THEN /\ stack' = [stack EXCEPT ![t] = Deliver(Front(@), e.value)]
            /\ answer' = IF Len(stack[t]) = 1
                         THEN [query |-> Top(t).query, value |-> e.value]
                         ELSE answer
       ELSE /\ Goto(t, [Top(t) EXCEPT !.phase = "validate"])
            /\ UNCHANGED answer
    /\ UNCHANGED <<revision, input, setting, cache, inProgress, cycle>>

\* The fast path, or on to validation.
Check(t) ==
    /\ At(t, "check")
    /\ LET e == Top(t).entry IN
       IF e.verifiedAt = revision THEN Return(t, e.value, e.updatedAt)
       ELSE /\ Goto(t, [Top(t) EXCEPT !.phase = "validate"])
            /\ UNCHANGED answer
    /\ UNCHANGED <<revision, input, setting, cache, inProgress, cycle>>

\* changedAt answers: unchanged, look at the next one; changed, compute.
Changed(t, changed) ==
    IF changed THEN StartCompute(t, Top(t))
    ELSE /\ Goto(t, [Top(t) EXCEPT !.phase = "validate", !.next = @ + 1])
         /\ UNCHANGED inProgress

\* depsChanged at its next dependency.  One not older than the revision is
\* unchanged; an input's revision is read under the Input's lock (revision
\* only grows, so the two loads are one step at the second); a query is asked
\* for with Get, in the validation context.
Validate(t) ==
    /\ At(t, "validate")
    /\ LET a == Top(t)
           d == a.entry.deps[a.next]
       IN  CASE a.next > Len(a.entry.deps) ->
                  /\ Goto(t, [a EXCEPT !.phase = "stamp"])
                  /\ UNCHANGED inProgress
             [] a.next <= Len(a.entry.deps) /\ revision <= d.last ->
                  Changed(t, FALSE)
             [] a.next <= Len(a.entry.deps) /\ revision > d.last /\ d.source \in Inputs ->
                  /\ setting = None
                  /\ Changed(t, input[d.source].revision > d.last)
             [] OTHER ->
                  /\ stack' = [stack EXCEPT ![t] = Append(@, Activation(t, d.source))]
                  /\ UNCHANGED inProgress
    /\ UNCHANGED <<revision, input, setting, cache, cycle, answer>>

\* Mutant of Revalidated: a dependency found unchanged is asked for again.
RevalidatedStays(t) ==
    /\ At(t, "revalidated")
    /\ LET a == Top(t)
           d == a.entry.deps[a.next]
       IN  IF UpdatedAt(d.source) > d.last THEN StartCompute(t, a)
           ELSE Goto(t, [a EXCEPT !.phase = "validate"]) /\ UNCHANGED inProgress
    /\ UNCHANGED <<revision, input, setting, cache, cycle, answer>>

\* revalidate: Get returned, now read UpdatedAt.
Revalidated(t) ==
    /\ At(t, "revalidated")
    /\ LET d == Top(t).entry.deps[Top(t).next] IN
       Changed(t, UpdatedAt(d.source) > d.last)
    /\ UNCHANGED <<revision, input, setting, cache, cycle, answer>>

\* Nothing changed: the revision is loaded, and written to VerifiedAt.
Stamp(t) ==
    /\ At(t, "stamp")
    /\ Goto(t, [Top(t) EXCEPT !.phase = "mark", !.rev = revision])
    /\ UNCHANGED <<revision, input, setting, cache, inProgress, cycle, answer>>

MarkVerified(t) ==
    /\ At(t, "mark")
    /\ LET a == Top(t) IN
       /\ cache' = IF cache[a.query] = None THEN cache
                   ELSE [cache EXCEPT ![a.query].verifiedAt = a.rev]
       /\ Return(t, a.entry.value, a.entry.updatedAt)
    /\ UNCHANGED <<revision, input, setting, inProgress, cycle>>

\* The compute function reads an input (Input.Get) ...
ReadInput(t) ==
    /\ At(t, "compute")
    /\ setting = None
    /\ LET a == Top(t)
           i == NextRead(a.query, a.vals)
       IN  /\ i \in Inputs
           /\ stack' = [stack EXCEPT ![t] =
                 Deliver(recordDep(@, i, input[i].revision), input[i].value)]
    /\ UNCHANGED <<revision, input, setting, cache, inProgress, cycle, answer>>

\* ... calls another query or itself ...
ReadQuery(t) ==
    /\ At(t, "compute")
    /\ LET q == NextRead(Top(t).query, Top(t).vals) IN
       /\ q \in Queries
       /\ stack' = [stack EXCEPT ![t] = Append(@, Activation(t, q))]
    /\ UNCHANGED <<revision, input, setting, cache, inProgress, cycle, answer>>

\* ... returns, and the frame is popped ...
Computed(t) ==
    /\ At(t, "compute")
    /\ LET a == Top(t) IN
       /\ NextRead(a.query, a.vals) = None
       /\ Goto(t, [a EXCEPT !.phase = "load", !.vals = <<>>,
                            !.value = Combine(a.query, a.vals)])
       /\ inProgress' = [inProgress EXCEPT ![t] = @ \ {a.query}]
    /\ UNCHANGED <<revision, input, setting, cache, cycle, answer>>

\* Mutant of Unwind: only the innermost Get undoes its marks.
UnwindInnermost(t) ==
    /\ stack' = [stack EXCEPT ![t] = <<>>]
    /\ inProgress' = [inProgress EXCEPT ![t] = @ \ {Top(t).query}]
    /\ cycle' = [cycle EXCEPT ![t] = @ \ {Top(t).query}]

\* The panic leaves every Get on the goroutine's stack; the computing ones
\* recover it, undo their marks and panic again.
Unwind(t) ==
    LET computing == {stack[t][n].query : n \in
                        {k \in DOMAIN stack[t] : stack[t][k].phase = "compute"}}
    IN  /\ stack' = [stack EXCEPT ![t] = <<>>]
        /\ inProgress' = [inProgress EXCEPT ![t] = @ \ computing]
        /\ cycle' = [cycle EXCEPT ![t] = @ \ (computing \cup {Top(t).query})]

\* ... or panics.
ComputePanics(t) ==
    /\ At(t, "compute")
    /\ Top(t).query \in Panicky
    /\ Unwind(t)
    /\ UNCHANGED <<revision, input, setting, cache, answer>>

LoadRevision(t) ==
    /\ At(t, "load")
    /\ Goto(t, [Top(t) EXCEPT !.phase = "store", !.rev = revision])
    /\ UNCHANGED <<revision, input, setting, cache, inProgress, cycle, answer>>

\* The value updateCacheEntry stores: widened if the query asked for itself.
Widened(a, cycled) ==
    IF cycled /\ a.query \in Widens /\ cache[a.query] # None
    THEN Widen(cache[a.query].value, a.value)
    ELSE a.value

\* Mutants of updateCacheEntry: UpdatedAt stays where it was ...
updateCacheEntryFirst(a, v) ==
    LET e == cache[a.query] IN
    [value |-> v, verifiedAt |-> a.rev, deps |-> a.deps,
     updatedAt |-> IF e # None THEN e.updatedAt ELSE a.rev]

\* ... or a new entry is never given one.
updateCacheEntryUnset(a, v) ==
    LET e == cache[a.query] IN
    [value |-> v, verifiedAt |-> a.rev, deps |-> a.deps,
     updatedAt |-> CASE e = None -> 0
                     [] e # None /\ e.value = v -> e.updatedAt
                     [] OTHER -> a.rev]

\* updateCacheEntry: an equal value keeps its UpdatedAt.
updateCacheEntry(a, v) ==
    LET e == cache[a.query] IN
    [value |-> v, verifiedAt |-> a.rev, deps |-> a.deps,
     updatedAt |-> IF e # None /\ e.value = v THEN e.updatedAt ELSE a.rev]

\* Mutants of Store: one iteration only ...
StoreOnce(t) ==
    /\ At(t, "store")
    /\ LET a == Top(t)
           q == a.query
           v == Widened(a, q \in cycle[t])
           e == updateCacheEntry(a, v)
       IN  /\ cache' = [cache EXCEPT ![q] = e]
           /\ Return(t, v, e.updatedAt)
           /\ cycle' = [cycle EXCEPT ![t] = @ \ {q}]
    /\ UNCHANGED <<revision, input, setting, inProgress>>

\* ... or as many as it takes for two in a row to be equal.
StoreUnbounded(t) ==
    /\ At(t, "store")
    /\ LET a == Top(t)
           q == a.query
           v == Widened(a, q \in cycle[t])
           e == updateCacheEntry(a, v)
       IN  /\ cache' = [cache EXCEPT ![q] = e]
           /\ IF q \notin cycle[t] \/ a.seen = <<v>>
              THEN Return(t, v, e.updatedAt) /\ UNCHANGED inProgress
              ELSE /\ Goto(t, [a EXCEPT !.phase = "compute", !.deps = <<>>, !.seen = <<v>>])
                   /\ inProgress' = [inProgress EXCEPT ![t] = @ \cup {q}]
                   /\ UNCHANGED answer
           /\ cycle' = [cycle EXCEPT ![t] = @ \ {q}]
    /\ UNCHANGED <<revision, input, setting>>

\* After updateCacheEntry: done, unless the query asked for itself and this
\* value is new; then once more, up to MaxIter times.
Store(t) ==
    /\ At(t, "store")
    /\ LET a == Top(t)
           q == a.query
           cycled == q \in cycle[t]
           v == Widened(a, cycled)
           e == updateCacheEntry(a, v)
           recorded == recordDep(Front(stack[t]), q, e.updatedAt)
           again == Append(a.seen, v)
       IN  /\ cache' = [cache EXCEPT ![q] = e]
           /\ CASE ~cycled \/ v \in ToSet(a.seen) ->
                     /\ Return(t, v, e.updatedAt)
                     /\ cycle' = [cycle EXCEPT ![t] = @ \ {q}]
                     /\ UNCHANGED inProgress
                [] cycled /\ v \notin ToSet(a.seen) /\ Len(again) < MaxIter ->
                     /\ stack' = [stack EXCEPT ![t] = Append(recorded,
                           [a EXCEPT !.phase = "compute", !.deps = <<>>, !.seen = again])]
                     /\ inProgress' = [inProgress EXCEPT ![t] = @ \cup {q}]
                     /\ cycle' = [cycle EXCEPT ![t] = @ \ {q}]
                     /\ UNCHANGED answer
                [] OTHER -> Unwind(t) /\ UNCHANGED answer
    /\ UNCHANGED <<revision, input, setting>>

-----------------------------------------------------------------------------
Step(t) ==
    \/ Approximate(t) \/ RecordApproximation(t)
    \/ Lookup(t) \/ Check(t) \/ Validate(t) \/ Revalidated(t)
    \/ Stamp(t) \/ MarkVerified(t)
    \/ ReadInput(t) \/ ReadQuery(t) \/ Computed(t) \/ ComputePanics(t)
    \/ LoadRevision(t) \/ Store(t)

Next ==
    \/ \E i \in Inputs, v \in Values : SetBump(i, v)
    \/ SetStore
    \/ \E q \in Queries : Clear(q)
    \/ \E t \in Threads, q \in Queries : Get(t, q)
    \/ \E t \in Threads : Step(t)

Spec == Init /\ [][Next]_vars

\* A Get that has begun is plain control flow of its goroutine, and so is the
\* second half of a Set.
Fairness == WF_vars(SetStore) /\ \A t \in Threads : WF_vars(Step(t))
FairSpec == Spec /\ Fairness

-----------------------------------------------------------------------------
(* Properties.                                                             *)

\* What a query computes from the present inputs with no cache at all, after it
\* has read some values.  (For queries that do not depend on themselves.)
Fresh[read \in Queries \X Seq(Values)] ==
    LET q == read[1]
        vals == read[2]
        s == NextRead(q, vals)
    IN  IF s = None THEN Combine(q, vals)
        ELSE Fresh[<<q, Append(vals, IF s \in Inputs THEN input[s].value
                                     ELSE Fresh[<<s, <<>>>>])>>]

\* What it computes if the queries it asks for answer with their cached values.
Rerun[read \in Queries \X Seq(Values)] ==
    LET q == read[1]
        vals == read[2]
        s == NextRead(q, vals)
    IN  IF s = None THEN Combine(q, vals)
        ELSE Rerun[<<q, Append(vals, IF s \in Inputs THEN input[s].value
                                                     ELSE cache[s].value)>>]

\* Types; a stored entry has been verified and updated at some revision.
TypeOK ==
    /\ revision \in Revisions \ {0}
    /\ input \in [Inputs -> [value : Values, revision : Revisions]]
    /\ setting \in Sets \cup {None}
    /\ cache \in [Queries -> Entries \cup {None}]
    /\ \A t \in Threads : stack[t] \in Seq(Activations)
    /\ inProgress \in [Threads -> SUBSET Queries]
    /\ cycle \in [Threads -> SUBSET Queries]

\* The point of the database: whatever was answered from the cache, kept by
\* an unchanged dependency or cut off by an equal value, Get returns what
\* computing everything again would return.
AnswerIsFresh ==
    answer # None => answer.value = Fresh[<<answer.query, <<>>>>]

\* Once no Get is running, the entries that Get's fast path would return
\* without looking further are those computed from the present inputs.
VerifiedIsFresh ==
    Idle /\ setting = None =>
        \A q \in Queries : cache[q] # None /\ cache[q].verifiedAt = revision =>
            cache[q].value = Fresh[<<q, <<>>>>]

\* None of what the entry of q was computed from has been cleared since.
StillCached(q) ==
    \A d \in ToSet(cache[q].deps) : d.source \in Queries => cache[d.source] # None

\* A query that asks for itself is answered by a fixpoint: computing it once
\* more from the cached values changes nothing.  Violated by two queries that
\* ask for each other: only the outer one is iterated.
AnswerIsFixpoint ==
    answer # None /\ answer.query \notin Panicky /\ StillCached(answer.query) =>
        answer.value = Rerun[<<answer.query, <<>>>>]

\* A query that asks for itself after it has read some values, answered by prev.
ComputedWith[read \in Queries \X Seq(Values), prev \in Values] ==
    LET q == read[1]
        vals == read[2]
        s == NextRead(q, vals)
    IN  IF s = None THEN Combine(q, vals)
        ELSE ComputedWith[<<q, Append(vals, IF s = q THEN prev ELSE input[s].value)>>, prev]

\* What the iteration reaches from the seed.
FromSeed(q) ==
    LET round[n \in 0 .. MaxIter] ==
          IF n = 0 THEN Zero ELSE ComputedWith[<<q, <<>>>>, round[n - 1]]
    IN  round[MaxIter]

\* A query that asks for itself, and otherwise for inputs alone, is answered by
\* what the iteration from its seed comes to.  Violated after a Set: it starts
\* from the value cached for the old inputs.
AnswerIsFromSeed ==
    answer # None => answer.value = FromSeed(answer.query)

\* A Get of a query that the same goroutine is already in the middle of is a
\* recursive call, and takes the approximation.  Violated by a validation that
\* comes to the query's dependency on itself: the query is not in progress
\* then, so the Get of it validates in turn, and comes to the same dependency.
RecursionDetected ==
    \A t \in Threads : \A m, n \in DOMAIN stack[t] :
        m < n /\ stack[t][m].query = stack[t][n].query =>
            stack[t][n].phase \in {"approx", "record"}

\* inProgress holds exactly the queries being computed by the goroutine, also
\* after a panic passed through some of them: a query left in would be answered
\* by its last approximation for as long as the context lives.
InProgressIsComputing ==
    \A t \in Threads : inProgress[t] =
        {stack[t][n].query : n \in
            {k \in DOMAIN stack[t] : stack[t][k].phase = "compute"}}

\* Every Get ends: validation through other queries, nested computations, and
\* fixpoint iterations that do not converge.  (Of queries that read every input
\* before they ask for themselves; see RecursionDetected for the others.)
GetReturns == \A t \in Threads : stack[t] # <<>> ~> stack[t] = <<>>

=============================================================================
