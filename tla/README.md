# go-lua: TLA+ models, checks and proofs

go-lua is a Lua 5.1 virtual machine for actor runtimes (a fork of gopher-lua) with a flow-sensitive type
checker. This directory models the parts of it whose correctness depends on long or interleaved
sequences of steps, checks them with TLC and proves most of what the runs check with TLAPS, for instances of any
size: of the call frame stack, coroutines, registers and upvalues, tables, the query database, the checker's fixpoint
driver and the derivation of subtypes.

## 1. Inventory

### Runtime (package `lua`, repository root)

| part | state | operations | shared with | what is hard | what makes it correct |
|---|---|---|---|---|---|
| call frame stack (`state.go`) | fixed array, or segments from a process-wide `sync.Pool` | Push, Pop, SetSp, At, `removeCallerFrame`, FreeAll | every thread of every state, through `segmentPool` | segment boundaries, reused memory, unwinding | each thread sees a private bounded stack; a frame's `Idx` is its position |
| interpreter and Go stack (`vm.go`, `state.go`) | frames, frame extensions (continuations), `yieldCont` slot, `baseframe` of each nested loop | OP_CALL, OP_TAILCALL, OP_RETURN, `callGFunction`, `callR`, metamethod calls | coroutine library, base library, host | a yield unwinds the Go stack that was going to finish the call | pending calls are finished exactly once, from the right place |
| coroutines (`coroutinelib.go`, `vm.go`, `state.go`) | `G.CurrentThread`, `Parent`, `Dead`, `yieldState`, `wrapped` | create, wrap, resume, yield, `LState.Resume`, cancellation | the host's scheduler ("system yields") | two kinds of yield through the same frames, errors, cancellation | links mirror who resumed whom; suspended threads can go on; dead ones never do |
| protected calls (`baselib.go`, `vm.go`) | Protected frames, continuations | pcall, xpcall, `handleProtectedError` | all of the above | errors after the pcall's Go activation is gone | every pcall answers |
| registers, upvalues (`registry.go`, `state.go`) | value array with top; sorted list of open upvalues | grow, set top, find, close | frames | growth while upvalues point into the array | captured variables survive their frame |
| tables (`table.go`) | array part, hash part, key order | get, set, insert, remove, len, next | programs | keys that migrate between the parts, assignment during traversal | a finite map; next visits every key once |
| state pool (`state_pool.go`) | `statePool` | Close, reuse | all states of a process | what a reused state keeps | indistinguishable from a new one |
| hooks and coverage (`hook.go`, `coverage.go`) | hook, counters, coverage switch | dispatch before an instruction | all goroutines (coverage) | reentrancy | transparent to the program |
| errors, libraries, types at run time | - | - | - | sequential | - |

### Compiler and checker

| part | state | what is hard | what makes it correct |
|---|---|---|---|
| query database (`types/db`) | revision, inputs, memoized queries, per-goroutine dependency tracker | several locks per operation, recursion, cycles, panics | an answer equals a computation from nothing |
| interner (`types/db/db.go`) | hash buckets of at most 8 | double-checked insertion, full buckets | equal types share a pointer |
| checker driver and session store (`compiler/check/pipeline`, `store`) | two snapshots of interprocedural facts, versions of their entries, literal signatures of the round, results of earlier rounds | results are taken again on the word of recorded versions; facts widen, refinements are replaced | a result taken again is what an analysis would give now; convergence means a fixpoint |
| pattern matcher (`pm`, `stringlib.go`) | program, backtrack stack, captures | ordered choice, empty matches, a silent budget, captures after backtracking | the matches Lua defines |
| subtype derivation (`types/subtype/subtype.go`) | trail of assumed pairs, refuted pairs, count of cut derivations; kept from query to query by a `Session` | assumptions that are withdrawn after something was derived from them, memos, the depth limit | what is remembered agrees with the greatest fixpoint of the rules |
| type algebra (`types/narrow`, `constraint`, `flow`, ...) | none | recursion over recursive types | algebraic laws |
| code generator, parser, cfg builder | registers, jump lists | recursion over syntax | bytecode computes what the source says |
| language server, validators, inspection | caches | - | - |

Interactions. The host calls `PCall` or `Resume` on a thread; the interpreter runs Lua frames in a loop and
calls Go functions on the Go stack; a Go function that calls Lua nests another loop. `coResume` runs another
thread in a nested loop; a yield returns from all loops of a thread. The checker calls queries with a
`QueryContext` per goroutine; queries call queries; editing a source or connecting a manifest sets an input.

`PROJECT.json` lists the hazards of this code at the lines where they bite, each with its properties or a
note saying why none covers it yet.

## 2. Modules

| module | models | theorems |
|---|---|---|
| `FrameStack` | what a set of call stacks promises: independent bounded sequences of frames | |
| `SegmentedFrameStack` | `autoGrowingCallFrameStack`, `segmentPool`, `removeCallerFrame` | |
| `SegmentedFrameStackProofs` | | type correctness, exclusivity, frame indices, refinement, operation by operation too |
| `MCSegmentedFrameStack` | symmetry for TLC | |
| `CoroutineChain` | what the thread links promise: a chain of resumers that grows and shrinks at one end | |
| `Coroutine` | threads, frames, the Go stack, calls, pcall, metamethods, yields, resumes, errors | |
| `CoroutineProofs` | | type correctness, links, pending calls, suspended and dead threads, the chain refinement |
| `QueryDB` | revisions, inputs, `Query.Get` | |
| `QueryDBProofs` | | type correctness, the set of queries in progress, answers and verified entries are fresh |
| `MCQueryDB` | small query graphs | |
| `TableMap` | what a table promises: a partial map whose positions 1, 2, ... form a list ending at a border | |
| `Table` | `LTable`: array part, hash parts, key order, list operations, traversal | |
| `TableProofs` | | length is a border, operations conform, refinement of `TableMap`; loops over `next` are exact, the order of traversal is bounded |
| `Registers` | registries that grow, frames on them, open upvalues, pcall, yields, the state pool | |
| `RegistersProofs` | | variables are kept, open upvalues are listed, the layout of calls and variables |
| `MCRegisters` | options, call shapes and symmetry for TLC | |
| `Fixpoint` | the type checker's rounds, worklist, fact versions and snapshot swap | |
| `FixpointProofs` | | type correctness, soundness of the worklist, convergence is a fixpoint |
| `MCFixpoint` | a chunk with two functions | |
| `PatternChars` | characters and their classes | |
| `LuaPattern` | what a pattern matches, defined over its characters as Lua's manual and matcher do | |
| `PatternSyntax` | `pm`: parser and compiler | |
| `PatternMachine` | `pm`: backtracking machine, `Find`; what `stringlib.go` reads of a match; for any compiled patterns | |
| `PatternProofs` | | type correctness, captures are slices, matches come in order without overlap |
| `PatternMatch` | parser, compiler and machine together, against `LuaPattern` | |
| `MCPatternMatch` | patterns put together from pieces | |
| `Subtype` | the checker of `sub <: super`: activations, trail, refutations, depth limit, sessions; for any rules | |
| `SubtypeProofs` | | type correctness, refusals are real, successes are consistent |
| `SubtypeRules` | the rules: which goals decide a pair, in which order | |
| `MCSubtype` | pairs of recursive types, and the greatest fixpoint of their rules | |

Definitions whose comment starts with "Mutant" are wrong versions of the definition that follows; they are
never part of a specification and show that the property named in `PROJECT.json` notices the difference.

### SegmentedFrameStack

Variables are the fields of the Go struct, indexed by stack: `segments`, `segIdx`, `segSp`; `array` is the
memory of the segments, `pool` the process-wide pool. A pooled segment keeps what its last owner wrote; the
pool may drop a segment at any time, as `sync.Pool` may. Each method is one action: a stack belongs to one
goroutine and `sync.Pool` is safe for concurrent use, so threads interleave between methods. `callFrame` is
abstracted to a payload and its `Idx`, an int16 (`IdxLimit`). `UnwindInPlace` says whether callers may unwind
to the depth they are at; see section 5.

### Coroutine

`thread` holds each LState: its frames (function, Protected mark, the opcode to be redone), frame extensions,
`yieldCont` and `yieldContRB`, `yieldState`, `Parent`, `Dead`, `wrapped`. `go` is the Go call stack:
activations of `threadRun`, `pcall`'s and metamethods' `callR`, and `coResume`. `sig` says whether the top
activation's loop has just returned or panicked. Registers and values are left out, so what the program
does next is a free choice; what the runtime does with it is not. Everything runs on one goroutine: a step is
the code between two points where the program chooses or a Go function returns.

`Uses` names the constructs programs may combine. It is a hypothesis on programs, not on the runtime:

* `"pcall"`, `"meta"`, `"tail"`, `"wrap"`: pcall, metamethod calls, tail calls of yielding functions, wrapped
  coroutines;
* `"main"`: the host runs the main thread by `PCall` before it resumes others;
* `"nested"` (metamethod inside metamethod), `"mixed"` (metamethods and pcalls on one stack), `"gopcall"`
  (`pcall(pcall, f)`), `"tailpcall"` (`return pcall(f)`): each violates a property, in a configuration of its own
  (section 5), and is left out of the runs that pass;
* `"normal"` (resuming a thread that waits for its own child) and `"shared"` (resuming a thread some suspended
  coroutine will re-enter): no run has them, because nothing in the repository says what should happen.

### QueryDB

`stack` holds the activations of `Query.Get` of each goroutine with the local variables of `Get`; the tracker's
dependency frame is the `deps` of a computing activation. A step is one access to shared state: a load of
`DB.revision`, or one critical section of an `Input` or a `Query`. `Input.Set` is two steps, because it bumps
the revision before it stores and readers of the revision do not take its lock. A compute function is given by
`NextRead` (which source it reads after the values read so far, so reads may depend on values) and `Combine`.
A query is a `Query` with one key. `Exclusive` says that callers keep Set and Clear apart from Get.
A panic leaves all Gets of its goroutine (no compute function recovers it half-way). `Fresh`, a computation from
nothing, is a function of a query and the values it has read so far.

Left out: `alwaysWiden` and `onMaxIter`, which nothing in the repository sets; custom dependencies, which
nothing records; queries whose value is a nil interface (a hazard of its own); `Connect` and `Disconnect`,
which are `Set` behind a test that the value differs.

### Table

`tb` is the `LTable` as a record: the array part, the hash parts, and `keys` with `k2i`, the list `next` walks, in
which deleted keys keep a slot until `addIterationKey` compacts them. Keys are abstracted to the kinds
`numericTableKey` and `RawSet` tell apart: array positions, 0 and `MaxArrayIndex` as numbers out of range (integer or
float), strings, references. Each exported method is one action, with everything it calls. `traversal` is one
caller's loop over `next` and what it has seen: between two calls the program may assign to existing fields and
delete any field, as Lua allows, and other loops may call `next`.
`TableMap` is the map the calls are compared with, call by call in every reachable table (CallsConform), and the
specification `Table` is proved to implement: which of several borders a list operation starts from is open there,
as Lua leaves it. The loop that compacts dead slots is written as what it computes, a key's rank among the live
ones, and the order of Go's map iteration as any bijection.

### Registers

One registry per state with its capacity, top and growth step, the frames that lie on it, the list of open
upvalues, and closures that hold them (`ls`, `uv`, `closure`); `store` is what the last write to each variable stored,
whoever wrote it.
Variables belong to calls, so a property can say that a closure and a frame that share a variable agree on its
value (VariablesKept) without mentioning registers. Calls, tail calls, returns, blocks that end, pcall, yields,
errors caught by pcall's Go activation or, after a yield, by its frame, Close and the reuse of closed states.
Assumed of the code generator: a block with captured variables ends with OP_CLOSE.

### Fixpoint

`prev` and `next` are the store's two snapshots, `scratch` the literal signatures of the round, `version`,
`observed` and `cached` what the worklist goes by. A visit of a function is one action, in one of two forms:
Reuse takes the result of an earlier round, Analyse asks for a new one; both publish it. The analysis is an
unknown function of the entries it reads: `analysis` remembers what it answered, equal arguments get equal
answers, new arguments any answer, so the properties hold for every analysis. Facts are sets of types widened
by union; a function's graph is visited once per round, parents first.

### PatternSyntax, PatternMachine, PatternMatch

A behaviour is one call of `Find`: Init chooses pattern, subject, offset and limit, then each instruction is one action.
`PatternMachine` takes the compiled patterns as a constant and says in `Sound` what the machine relies on without
a check: where instructions may jump, and that each capture is opened and closed once, in this order. `PatternSyntax` gives
them as the code does (`getCompiledPattern`); it is recursive over patterns, so only TLC uses it, and TLC evaluates
`Sound` for every pattern of the run. `LuaPattern` shares with them only `PatternChars`, character classes and the order of characters:
it has no syntax tree, no program and no stack. It answers "undefined" where Lua raises an error or gives a
pattern no meaning; there nothing is asked of the matches, except that gsub can splice them.

### Subtype

`stack` holds the activations of `check`, each with the goals its rules have had answered; `trail`, `refuted` and
`cutoffs` are the checker's fields. A query, a goal and the end of a rule are one action each; a session asks
several queries of one checker. The code for a pair decides the next goal from the answers so far, so the module
takes the rules as `Runs`: the sequences of goals and answers the code can go through, each with its verdict.
`Truth` is a reading of `<:` that the rules reproduce; the properties compare memos with it.
`SubtypeRules` gives `Runs` as the code does: a rule is a tree of goals combined with && and ||. It is recursive over types, so
only TLC uses it. Left out: the gradual relation, metatables, generics and type parameters, `Self`, variadic and
optional parameters, the builtin table type, and that the memos tell equal types apart that were made separately.

## 3. Runs

| run | instance | checks |
|---|---|---|
| `frame_stack` | 2 stacks, 3 segments of 2 frames, at most 2 segments per stack, 2 payloads; symmetric | TypeOK, SegmentsExclusive, FrameIdxIsPosition, RefinesFrameStack, OperationsRefine |
| `coroutine_calls` | a host thread and a Lua coroutine, 4 frames each; pcall, metamethods, wrapped coroutines, tail calls | TypeOK, DeadHasNoWork, OnlyLuaInterpreted, SuspendedCanResume, PcallIsArmed, OpcodeFinishedOnce |
| `coroutine_chain` | a host thread and two Lua coroutines, 2 frames each; a main thread run by PCall, tail calls, metamethods | ParentIsResumer, RunningIsCurrent, RefinesChain, SystemYieldReachesHost |
| `query_incremental` | 2 goroutines, 3 queries over 2 inputs with 2 values, 2 Sets, Clears and panics; symmetric | TypeOK, AnswerIsFresh, VerifiedIsFresh, InProgressIsComputing |
| `query_cycles` | 1 goroutine, 2 inputs with 3 values, a self-recursive query that converges and one that does not, a query that reads the first and is validated through it, 2 Sets, Clears, 3 iterations | AnswerIsFixpoint, GetReturns |
| `table` | 1 table, array positions below 6, gaps of up to 2, up to 5 elements and 2 hashed keys, one traversal | LenIsBorder, CallsConform, TraversalExact, OrderIsBounded |
| `registers` | 1 state, reused through the pool, with a registry of 6 that grows once; 2 frames, 2 locals, 2 closures, 2 upvalues; symmetric | VariablesKept, OpenUpvaluesListed |
| `fixpoint` | a chunk and two functions in it, the chunk and the second call the first; 1 type, 1 refinement, 3 rounds | ResultsAreCurrent, ConvergedIsFixpoint |
| `pattern` | about 3 700 patterns of up to 3 pieces, 3 subjects of up to 4 characters, every offset, limits -1 and 1, 5 backtracks | TypeOK, NeverInventsMatch, RefusalIsRight, IdentityReplace, CapturesSlice, FindAgrees, SearchEnds |
| `subtype` | 72 pairs of recursive types, 2 queries of one session, depth limit 5 | TypeOK, ProvedIsConsistent, RefutedIsReal |

Two more runs, `query_concurrent` and `pcall_after_yield`, have one property each, which the code violates. Eleven
configurations beside them are not among the runs of `PROJECT.json`: each is an instance a few lines long that lets in
one case which the runs above keep out, and TLC finds its property violated within seconds. Section 5 names them all;
`tlc -config SubtypeNil.cfg MCSubtype` shows the trace of the last. The runs above say what holds, these where it ends.

Why the bounds are enough to be interesting. Two frames per segment and two segments give every case of the
segment arithmetic (empty, partly full, exactly full, next segment, overflow), and three segments for two
stacks make them fight over memory. Four frames hold a function, a pcall, a metamethod and a yielding callee,
the longest chain of hand-overs of one continuation; two frames are enough for a coroutine that resumes
another, and three threads for a chain with a middle. Two Sets allow a value to change and change back while
one query looked in between and another did not; three queries allow an early cutoff below a query that is
validated through two paths. `MaxRevision`, `MaxDepth` and `MaxIter` are the only bounds in guards there.
A table with a few positions around the end of its array, one position beyond the array's limit and one other
key meets every migration between the parts. Registers are few enough for a second call to force growth. A chunk with
functions makes a literal signature reach a function that is visited later in the same round, and three
rounds let a fact appear, be read and settle; deeper nesting is left to the theorems, which hold for any tree.
In `query_cycles` the recursive queries read both inputs before they ask for themselves, so that a Set makes
them compute; `view` does not read `j` unless `sum` is 2, so it is validated through `sum` to the end, by a
recursive query whose value did or did not change. Five backtracks are enough for most of the patterns to be decided
and few enough for some runs to be given up. A depth limit of 5 is met by several of the recursive types and missed by
others, and a second query reads what the first one left.

Deadlock is checked in every run but `fixpoint`, `pattern` and `subtype`, whose behaviours end when the driver, `Find`
or the last query returns, and `coroutine_calls`, where nothing is left to do once the host's only thread has finished:
elsewhere no bound leaves a state without a next step, so no thread, stack or goroutine is ever stuck.

Fairness. `SystemYieldReachesHost` needs weak fairness of entering a loop and of unwinding: both are Go control
flow without a choice, so they happen. `GetReturns` needs weak fairness of a goroutine inside `Get` and of
the second half of a `Set`: no step there waits for anything but a lock held for a bounded time. `SearchEnds` needs weak fairness of the
machine's step: `Find` is a loop on one goroutine.

## 4. Proofs

`SegmentedFrameStackProofs` holds for any number of stacks, segments and payloads, any segment size and
stack size (`SizeAssumption`) as long as depths fit the frame index (`DepthAssumption`).

* The inductive invariant `MemoryInv` is TypeOK, SegmentsInUse (a live stack owns exactly the segments up to
  `segIdx`) and SegmentsExclusive. Exclusivity alone is not inductive: a Pop that frees an entry must know that
  the entry holds a segment, and Push that the entry it fills was empty. `TypeCorrect` and `Exclusive` follow.
* For every action an "effect" lemma says how `Sp` moves and which frames are kept, in every stack; the
  arithmetic of positions, segments and slots is in the lemmas DivMod, DivModBack, NextMultiple, SegmentOf.
* `FrameIndices`: with those lemmas each action preserves FrameIdxIsPosition.
* `Refinement`: every step maps to a step of `FrameStack` or a stutter. That alone allows an unwind to stop at the
  wrong depth, since `FrameStack` may unwind to any. `Operations` says more: each operation does what the operation
  of `FrameStack` with the same name and the same argument does. The hypothesis `~UnwindInPlace` is necessary there,
  see section 5.

`FixpointProofs` holds for any tree of functions visited parents first, any types and refinements, any call
relation and any budget (`FixpointAssumption`), and for every analysis that is a function of what it reads.

* ResultsAreCurrent is not inductive: that a result may be taken again rests on what versions mean. The
  inductive invariant `IInv` adds VersionsBounded (no version is ahead of the counter), Tracked (a recorded
  version that is still the entry's version means that the entry still holds what the result read: for
  snapshot entries against `prev`, for literal signatures against what was last `observed`), Answered (a visited
  function has a result), Kept (results of visited functions read what the snapshot and the parent's
  signatures of this round say) and Written (what they say has been written to `next`).
* Each action has a lemma per conjunct it can disturb. A swap gives changed entries a version larger than any
  recorded one, so Tracked survives; a visit refreshes the parent's signatures before it compares.
* `TypeCorrect`, `WorklistIsSound` and `ConvergenceIsFixpoint` follow: the last because a merge that changed
  nothing means that `prev` already contained all that Written put into `next`.

`SubtypeProofs` holds for any types, any depth limit, any number of queries and any rules that are monotone
(`MonotoneAssumption`: a run of the rules fails where another succeeds only because a goal was answered
differently), whose unguarded pairs lead to unguarded pairs (`UnguardedAssumption`), and any `Truth` that the
rules reproduce (`TruthAssumption`). TLC evaluates these assumptions for `SubtypeRules` on the types of the run.

* `TypeCorrect`: the trail has no pair twice, because a pair on it is not assumed again; so withdrawing the pairs
  behind a mark withdraws them from the set too.
* `RefusalsAreReal` rests on Sound: every goal an activation has seen refused is false unless the limit was met since
  the activation began. If a pair it then refutes were true, its rules would succeed on true goals, and by monotony
  one of those would be among the refused ones. That refutations happen under assumptions does no harm: assumptions only
  add successes.
* `SuccessesAreConsistent` rests on Trailed: the trail up to the mark of each activation follows from
  itself, but for the pairs in progress, whose rules have seen only goals that are on the trail or true; Marked:
  marks grow along the stack; Kept: the last answer, if yes, is true or on the part of the trail that no open activation
  withdraws. A withdrawal goes back to a mark,
  so what stays never rested on what goes. It is stated for `cutoffs = 0`: a rule that concludes from a goal's failure
  (a field that cannot be nil is required) may conclude from the limit.

`QueryDBProofs` holds for any query graph, goroutines, inputs and values, with panics and
Clears. `TypeCorrect` and `InProgressExact` assume only that compute functions are functions on the values (`Typed`),
recursive queries included: TypeOK and Stacks (only the top activation of a goroutine is inside Get's own code, a query
being computed is not entered again, and the tracker's set is those being computed) are inductive together. `AnswersFresh` and
`VerifiedFresh` have three hypotheses more, each of which the property needs:

* `Exclusive`, since `query_concurrent` violates the property without it;
* `Ranked`: no query depends on itself. The queries of `query_cycles` do, and a fixpoint iteration from a seed is not
  a computation from nothing;
* `WellDefined`: the compute functions end, so that there is a computation from nothing to compare with. (`Fresh` is a
  recursive function, whose existence for every graph would need induction.)

TLC evaluates the rank of the graph of `query_incremental` (ChainIsRanked). Freshness of verified entries
is not inductive: an entry of an earlier revision comes back by validation, and other goroutines refresh the cache
under a Get. The invariant FreshInv says

* EntryOk: every entry, old ones too, came from a sequence of reads, and each recorded dependency stands for the value read as long as
  its source is not newer than the dependency says (DepOk); one verified at this revision is fresh;
* Sound: what a Get knows in each phase. Validation has confirmed a prefix of the reads, and a computation that has read the
  same prefix still gives what it gives from nothing (Midway); the copy of an entry that Get took outside the lock is still the
  entry's value, unless another goroutine has verified the entry meanwhile;
* Chained: ranks fall along a goroutine's stack, so no query is asked for below itself.

A Get that stamps or stores makes a cache that is Refreshed: entries verified now, with the value and UpdatedAt they had or
updated now. Everything above survives that, whoever did it. An early cutoff is sound because UpdatedAt moves only when the
value does.

`TableProofs` holds for any array length, gaps, keys and values with `BelowLimit`, the
hypothesis that Append stays below the limit of the array part (finding 16 shows it is needed).

* Data: Shape and Apart (a hashed position lies beyond the end of the array, with a gap: where the array would go on,
  migration has emptied the hash part) are inductive, with one lemma per operation on what it does to the map.
  `LengthIsBorder`, `OperationsConform` and `Refinement` follow.
* Order: Listed (the slots list the hashed keys once each, among dead ones, and `k2i` finds them) and Cleared (positions that
  have moved to the array have no slot); for a loop, Ahead: what it has not seen lies behind its cursor. An operation
  that adds no field leaves the slots where they are, and compaction happens only when a field is added, which a loop
  may not do: `LoopsExact`. `SlotsBounded` rests on the bijection between live keys and ranks.

`RegistersProofs` holds for any states, options, upvalues, values and depth of calls, any finite set of closures, and any number of
arguments and locals that fits a function's registers (`RegistersAssumption`; the rest of it keeps model values apart). There
is no hypothesis on programs: a call that would overflow the registry raises an error, which Raise covers.

* Neither property is inductive. VariablesKept speaks of values only, and a write to a register keeps the other
  variables because no two of them share one; OpenUpvaluesListed speaks of the list, and the list stays complete because an upvalue is
  closed exactly when its variable leaves the registers. The inductive invariant `IInv` (`LayoutKept`) is checked by TLC on the
  instance of the run and has two parts:
* ThreadOk, of each state: its registry is one (a top within the capacity) and its calls are Stacked, each beginning above
  the variables of the one below and ending below the top. So the setup of a call, and the growth and the copying it
  may need, leave the variables of callers alone (Keeps);
* Bound, of variables: a register has one variable and a variable one register (Once); upvalues belong to a state
  exactly while they are open (Objects); closures share an upvalue exactly if they share the variable (Holding); a captured
  variable that is in a register has its upvalue open there (Attached); the list is sorted and complete (Listed)
  and has only upvalues of such variables (Placed); registers and closed upvalues have the values of `store` (Kept).
* Bound takes the state as arguments, and one lemma per kind of step says that it survives: a variable is assigned, made, or
  captured, registers above the variables change, variables from a register on are given up and their upvalues
  closed. Each action is shown to be such a step. Cutting the list at the first upvalue to close is right because it is
  sorted (BelowRemains), and findUpvalue's insertion keeps it so (InsertsOpens).

`CoroutineProofs` holds for any threads and any depth of stacks, for programs within `Admitted`: pcalls, metamethods,
tail calls, wrapped coroutines and the host's PCall in any combination `Uses` allows; the constructs it leaves out violate
one of the properties (findings 4 to 8), or nothing says what they should do (`"normal"`, `"shared"`).
`CurrentThreadExact` leaves out `"wrap"` too, by finding 8. None of the properties is inductive, because each speaks of
one of three structures that a step changes together: the frames of a thread, the Go stack and the Parent links. The
inductive invariant `Good` consists of

* WF, of each thread: which frames may lie below which, that a pcall below the top is armed and extended, that at most one
  opcode is suspended and owns the slot, which extension belongs to which frame, what yielded and dead threads keep;
* Shape, of the Go stack: a `threadRun` stands on a `coResume` of its thread or at the bottom, nested loops of one thread own
  disjoint ranges of its frames, and no thread is in two `threadRun`s;
* Held: every activation that waits finds the frame and the phase it called from; Top: the one on top has the frame it is
  about to run; Parents and Current: the links follow the Go stack, but for a thread that has just given control back, and,
  with `"wrap"`, for a dead thread on which an error left `G.CurrentThread`;
* Rested and Awaits, of threads off the Go stack: they can go on, and a coroutine whose system yield was passed on is
  awaited by one frame and not resumed by another.

Each action has its lemma. They rest on general ones about a step of the running thread that leaves callers' frames alone
(Local, Leave), about pushing and popping activations, and about a thread that is resumed or gives back. `Good` takes the
state as arguments, so that an action that does several things goes through intermediate states; a panicking loop promises
nothing of its top frame, so `"panic"` serves as the state between.

`ChainRefined` shows the refinement of `CoroutineChain`, for finitely many threads and without `"wrap"` (finding 8: an error
in a wrapped thread leaves `G.CurrentThread` on a dead one, where the abstract chain has already dropped it). The mapping
takes `Ancestry`, the threads met from `G.CurrentThread` along Parent, for the chain, so the proof has two halves.
From `Good`, each state has a Line: a sequence without repetition from the main thread to the current one, each the Parent
of the next. It is unique, and `Lineage`, which the model computes by recursion along Parent, is that sequence
(LineageIs): a function with those rows is built for longer and longer lines, so the recursive definition has a value. Then
each action is one of four kinds of step: the line and the statuses stay, a suspended thread is entered at its end, the last
thread leaves it, or a cancelled resume kills a thread off the line; each kind maps to an abstract step or a stutter.

`PatternProofs` holds for any patterns whose programs are `Sound` (`CompilerAssumption`, which TLC evaluates on the
patterns of the run; that the compiler only makes such programs would need induction over patterns), any subjects that are
strings and any budget of backtracks.

* The machine does not check what it slices and indexes: captures are offsets that instructions wrote, and the
  properties speak of matches, when a run is over. So the inductive invariant `IInv` says what a thread in the middle of a
  program knows (Thread, of the running thread and of each one on the stack): captures opened before its instruction began
  at its offset or earlier, those closed before it are slices, and the rest are untouched, so a reference that reads one
  sees zeros or an end before its beginning, and must go no further back than it began. "Before" is the place in
  the program: a jump neither skips nor repeats a save, so the place tells what has been run (ThreadJumps).
* Found, of the matches so far: their captures are slices, they come in order and end where the next run begins or
  before. `TypeCorrect`, `CapturesAreSlices` and `ReplacedByItself` follow; the last one is about the splice of gsub, a
  recursive function of the matches, and argues with the smallest prefix that would differ from the subject.

Only model-checked:

* liveness (`SystemYieldReachesHost`, `GetReturns`, `SearchEnds`), which is out of the prover's reach;
* FindAgrees, NeverInventsMatch and RefusalIsRight, which compare with a reference that is recursive over patterns, and
  the soundness of the compiler: general proofs would need induction over data;
* OpcodeFinishedOnce, for metamethods that do not nest (finding 4 is about those that do);
* AnswerIsFixpoint, of queries that depend on themselves, for the queries of the run: findings 9 to 11 show how narrow it is;
* ProvedIsConsistent when the limit is met, and that the rules of `SubtypeRules` are what the assumptions say.

## 5. What the code does differently from what it says

The first two are runs; the findings in `PROJECT.json` quote the lines.

1. `query_concurrent` (VerifiedIsFresh): a Set during a Get can leave a stale entry verified at the new revision.
2. `pcall_after_yield` (CaughtAnswersTwo): `handleProtectedError`, which catches an error once a yield has unwound
   pcall's Go activation, does not set the top of the registers, so a caller that takes all results gets leftovers
   after false and the error.

TLC shows the next eleven with the configuration named; the note of the hazard in `PROJECT.json` names it too.

3. `FrameStackInPlace.cfg`, module `MCSegmentedFrameStack` (OperationsRefine): SetSp to the present depth, when it
   exactly fills a segment, drops the whole segment, against "discards frames down to sp" (`state.go:216`). pcall of a
   value that cannot be called unwinds so.
4. `CoroutineNested.cfg`, module `Coroutine` (OpcodeFinishedOnce): a yield below a metamethod below a metamethod; the thread has one
   `yieldCont` slot, the outer opcode takes it, and the inner one is run again.
5. `CoroutineMixed.cfg` (ResultReadWhereReturned): a yield below a metamethod below a pcall leaves pcall's return base in
   the slot, where the opcode will look for its result (`state.go:1085`).
6. `CoroutineGoPcall.cfg` (OnlyLuaInterpreted): `pcall(pcall, f)` with a yield in `f`; OP_RETURN calls one continuation
   and the loop goes on with the frame of the other pcall, a Go function.
7. `CoroutineTailPcall.cfg` (YieldKeepsPcalls): a yield below `return pcall(f)` removes the pcall's frame instead of its
   caller's, against "execution should continue inside pcall's protection" (`pcall_yield_test.go:11`).
8. `CoroutineWrap.cfg` (RunningIsCurrent): an error of a wrapped coroutine that somebody catches leaves
   `G.CurrentThread` on the dead thread.
9. `QuerySelfValidation.cfg`, module `MCQueryDB` (RecursionDetected): after a Set of an input that a self-recursive query does not read,
   validation asks for the query itself, without end, against "Detects recursive calls to the same (query, key)
   pair" (`query.go:167`).
10. `QueryMutual.cfg` (AnswerIsFixpoint): of two queries that ask for each other, the inner one keeps a value computed
    from the seed, against "iterates to fixpoint if a cycle was detected" (`query.go:272`).
11. `QuerySeed.cfg` (AnswerIsFromSeed): after a Set, the first iteration starts from the value cached for the old input,
    not from the seed, so the answer need not be the fixpoint that a computation from nothing reaches.
12. `PatternLimit.cfg`, module `MCPatternMatch` (FindAgrees): `Find` compares the limit only after adding a match, so a limit of 0, which
    `gsub(s, p, r, 0)` passes, is no limit, against "Returns up to limit matches" (`pm.go:951`).
13. `SubtypeNil.cfg`, module `MCSubtype` (ProvedIsConsistent): checkNil is cut at the depth limit for both fields, so
    `{...{y: nil}} <: {...{y: integer}}` is accepted, against "Required in super, optional in sub: not a subtype"
    (`subtype.go:668`).

Three more appear in the same models when a constant that keeps them out is changed:

14. `[1-1-b]` among the patterns: a range after a range begins at character 0 (NeverInventsMatch, FindAgrees).
15. Two `Options` in `Registers.cfg` with different limits: a state from the pool keeps the registry of its last
    owner when the capacity is the same, and with it that owner's limit and growth step.
16. `MaxLen = MaxArrayIndex` in `Table.cfg`: Append does not look at the limit of the array part, so the element
    after it cannot be read by its key (CallsConform); in the code that takes 2^26 elements.

Seen while modelling, and outside the models: `IsFull` of the segmented stack compares with an index the stack
never reaches, so overflow is a panic from Push rather than pushCallFrame's error. A backreference to a capture
that is still open matches the empty string at offset 0 and fails elsewhere, one to a position capture matches
the empty string, and a pattern that ends in `%` is not refused; Lua raises an error for the first and the last.
The gradual relation asks the plain one through a checker whose cutoffs it does not count, so a refusal that is due to the
limit is remembered (against the comment at `subtype.go:36`). An optional of an alias of `number?` is not a subtype
of `number?`. `A & B <: A & C` is refused when only B is below C, because the rule for an intersection on the left comes first.
Types made by `fieldPresentType` are new pointers, so a cycle through them ends only at the limit.

Hazards without a property that the list in `PROJECT.json` leaves out for length: resume of a thread that waits
for its own child (`coroutinelib.go:72`) and re-entry of a thread resumed by somebody else in between
(`coroutinelib.go:161`), which nothing in the repository settles; a refused Resume of a finished thread leaves its
entry frame (`state.go:2040`); SetContext leaves the old `ctxDone` (`state.go:2233`); queries with a nil interface
value (`types/db/query.go:522`) and Clear between Get and the read of UpdatedAt (`query.go:425`); full buckets of the
interner (`types/db/db.go:198`); the parent scope, an input of a function's analysis that is not a recorded read
(`pipeline/runner.go:104`); a comparison function that writes to the table being sorted (`table.go:108`); a pooled
state's call stack, whatever its new owner asked for (`state_pool.go:98`); the first Call of a state, whose loop has no
base frame (`state.go:1077`); a range after a range in a set (`pm.go:430`, finding 14); a frame's Idx past the int16
limit (`state.go:405`), which DepthAssumption keeps out of the stack model;
return inference, which reads results of the previous round (`driver.go:345`).

## 6. Plan

1. Frame stack: done, proved.
2. Fixpoint driver: done, proved. To add: constructor fields (a second overwriting channel with class self
   types) and the reads of return inference.
3. Coroutines: done, proved. To add: xpcall's handler.
4. Query database: done, proved for queries that do not depend on themselves.
5. Tables: done, proved. Registers and upvalues: done, proved. To add: the call stack and hooks of pooled states.
6. Patterns: done; the machine proved, parser and compiler checked.
7. Subtype derivation: done, proved. To add: the gradual relation, metatables, the identity of types in the memos.
8. Interner; hooks and coverage; then, on bounded programs, the code generator's register allocation.

Not modelled, with reasons, per component: `PROJECT.json`.
