------------------------------ MODULE Registers ------------------------------
(***************************************************************************)
(* The registry of a state (registry.go), the upvalues that closures take  *)
(* into it (function.go, closeUpvalues and findUpvalue of state.go) and    *)
(* the pool of states (state_pool.go).                                     *)
(*                                                                         *)
(* A local variable is a register of its call; a closure reaches it through *)
(* an upvalue, open on that register until the register is given up, when  *)
(* it takes the value along.  What is not in the code says what Lua means:  *)
(* every execution of a declaration makes a variable, vars of a frame names *)
(* those in its first registers, var of a closure the one it captured, and *)
(* store has the last value written to each.  The registers of a frame     *)
(* after its variables are temporaries: what they hold is left out, and    *)
(* Nil stands for it.  Every function has one parameter and FrameSize      *)
(* registers.                                                              *)
(*                                                                         *)
(* That the code generator ends each block that has captured variables     *)
(* with OP_CLOSE is assumed.                                               *)
(***************************************************************************)
EXTENDS Integers, Sequences, FiniteSets, SequencesExt

CONSTANTS Threads,      \* LState objects
          Options,      \* records: RegistrySize, RegistryGrowStep, RegistryMaxSize
          FrameSize,    \* NumUsedRegisters
          Closures,     \* bound: the closures made; none is ever collected
          Upvals,       \* bound: Upvalue objects in use at a time
          MaxFrames,    \* bound: Lua calls in progress in a state
          MaxLocals,    \* bound: variables of one call
          CallShapes,   \* bound: the pairs of a number of arguments and vararg
          Values,
          Nil,          \* LNil, and whatever is not a variable's value
          None

\* What may be in a register that counts,
Contents == Values \cup {Nil}
\* and the names of variables: thread, call, place in the call, and a number.
Names == Threads \X Nat \X Nat \X Nat

ASSUME RegistersAssumption ==
    /\ FrameSize \in Nat /\ MaxLocals \in Nat /\ MaxLocals + 2 <= FrameSize
    /\ CallShapes \subseteq Nat \X BOOLEAN /\ MaxFrames \in Nat
    /\ IsFiniteSet(Closures)
    /\ Options # {}
    /\ Options \subseteq [RegistrySize : Nat, RegistryGrowStep : Nat, RegistryMaxSize : Nat]
    /\ None \notin Threads
    /\ None \notin [reg : Threads \cup {None}, index : Nat, closed : BOOLEAN, value : Contents]
    /\ Nil \notin Values

VARIABLES ls,       \* LState
          uv,       \* Upvalue; None: no such object
          closure,  \* LFunction with one upvalue; None: no such closure
          store     \* the value of each variable

vars == <<ls, uv, closure, store>>

-----------------------------------------------------------------------------
(* registry.  A register past the top holds no value that counts.          *)

newRegistry(o) ==
    [array |-> [i \in 0 .. o.RegistrySize - 1 |-> Nil], top |-> 0,
     growBy |-> o.RegistryGrowStep, maxSize |-> o.RegistryMaxSize]

Capacity(rg) == Cardinality(DOMAIN rg.array)

\* resize to at least n registers succeeds: otherwise registryOverflow raises.
Fits(rg, n) == n <= Capacity(rg) \/ n <= rg.maxSize

\* checkSize, resize and forceResize: only what is below the top is copied.
checkSize(rg, n) ==
    LET want == n + rg.growBy
        size == IF want > rg.maxSize THEN rg.maxSize ELSE want
    IN  IF n <= Capacity(rg) THEN rg
        ELSE [rg EXCEPT !.array = [i \in 0 .. size - 1 |-> IF i < rg.top THEN @[i] ELSE Nil]]

\* The top becomes n; what it passes on the way up or down is cleared.
MoveTop(rg, n) ==
    [rg EXCEPT !.top = n,
               !.array = [i \in DOMAIN @ |->
                             IF i \in n .. rg.top - 1 \/ i \in rg.top .. n - 1 THEN Nil ELSE @[i]]]

SetTop(rg, n) == MoveTop(checkSize(rg, n), n)

Set(rg, i, x) ==
    [checkSize(rg, i + 1) EXCEPT !.array[i] = x, !.top = IF i >= @ THEN i + 1 ELSE @]

CopyRange(rg, to, start, n) ==
    LET r == checkSize(rg, to + n)
        moved == [r EXCEPT !.array = [i \in DOMAIN @ |->
                     IF i \in to .. to + n - 1
                     THEN IF start + (i - to) < r.top THEN @[start + (i - to)] ELSE Nil
                     ELSE @[i]]]
    IN  [moved EXCEPT !.top = to + n,
                      !.array = [i \in DOMAIN @ |->
                                    IF i \in to + n .. r.top - 1 THEN Nil ELSE @[i]]]

\* The registers from idx on hold no variable any more.
Temporary(rg, idx) ==
    [rg EXCEPT !.array = [i \in DOMAIN @ |-> IF i >= idx THEN Nil ELSE @[i]]]

-----------------------------------------------------------------------------
(* Upvalues.                                                               *)

Value(u) == IF uv[u].closed THEN uv[u].value ELSE ls[uv[u].reg].reg.array[uv[u].index]

Holders(u) == {c \in Closures : closure[c] # None /\ closure[c].uv = u}

\* The open upvalues of thread t from register idx on are closed, and the
\* list is cut before the first of them.
closeUpvalues(t, idx) ==
    uv' = [u \in Upvals |->
              IF Contains(ls[t].uvcache, u) /\ uv[u].index >= idx
              THEN [reg |-> None, index |-> 0, closed |-> TRUE, value |-> Value(u)]
              ELSE uv[u]]
cacheBelow(t, idx) ==
    LET i == SelectInSeq(ls[t].uvcache, LAMBDA u : uv[u].index >= idx)
    IN  IF i = 0 THEN ls[t].uvcache ELSE SubSeq(ls[t].uvcache, 1, i - 1)

\* Mutant: a new upvalue goes to the end of the list.
MutantFindUpvalue(t, idx, u) ==
    LET cache == ls[t].uvcache
        i == SelectInSeq(cache, LAMBDA w : uv[w].index = idx)
    IN  IF i # 0 THEN [uv |-> cache[i], cache |-> cache] ELSE [uv |-> u, cache |-> Append(cache, u)]

\* The upvalue for register idx: the open one, or the unused object u at its
\* place in the list.
findUpvalue(t, idx, u) ==
    LET cache == ls[t].uvcache
        i == SelectInSeq(cache, LAMBDA w : uv[w].index >= idx)
    IN  IF i # 0 /\ uv[cache[i]].index = idx THEN [uv |-> cache[i], cache |-> cache]
        ELSE [uv |-> u, cache |-> InsertAt(cache, IF i = 0 THEN Len(cache) + 1 ELSE i, u)]

-----------------------------------------------------------------------------
(* Frames.                                                                 *)

Frames(t) == ls[t].frames
Top(t) == Last(Frames(t))
Running(t) == ls[t].status = "live" /\ Frames(t) # <<>>
\* The first register after the variables of the running call.
Free(t) == Top(t).base + Len(Top(t).vars)

InScope(t) == UNION {Range(Frames(t)[i].vars) : i \in DOMAIN Frames(t)}
Captured == {closure[c].var : c \in {d \in Closures : closure[d] # None}}
InUse == Captured \cup UNION {InScope(t) : t \in Threads}

\* A name for a new k-th variable of the i-th call: the first that no closure
\* holds.  (Names do not matter, only that they differ.)
NewVar(t, i, k) ==
    CHOOSE v \in {<<t, i, k, n>> : n \in 0 .. Cardinality(Closures)} :
        /\ v \notin Captured
        /\ \A n \in 0 .. v[4] - 1 : <<t, i, k, n>> \in Captured

\* Variable v is given value x; variables out of use are forgotten.
Write(v, x) == store' = [w \in InUse' |-> IF w = v THEN x ELSE store[w]]
Forget == store' = [w \in InUse' |-> store[w]]

\* initCallFrame for nargs arguments at lbase: the registry, and LocalBase.
initCallFrame(rg, lbase, nargs, vararg) ==
    LET given == IF nargs = 0
                 THEN [checkSize(rg, lbase + 1) EXCEPT !.array[lbase] = Nil, !.top = lbase + 1]
                 ELSE rg
        n == IF nargs = 0 THEN 1 ELSE nargs
        need == IF n < FrameSize THEN FrameSize ELSE n
        sized == checkSize(given, lbase + need)
        plain == [sized EXCEPT !.array = [i \in DOMAIN @ |->
                                    IF i \in lbase + 1 .. lbase + need - 1 THEN Nil ELSE @[i]],
                               !.top = lbase + FrameSize]
        room == SetTop(given, lbase + n + 1)
        swapped == [room EXCEPT !.array[lbase + n] = room.array[lbase], !.array[lbase] = Nil]
    IN  IF vararg THEN [reg |-> SetTop(swapped, lbase + n + FrameSize), base |-> lbase + n]
        ELSE [reg |-> plain, base |-> lbase]

\* The function and its arguments are put into registers from ra on.
Arguments(rg, ra, nargs, x) ==
    LET put[k \in 0 .. nargs] == IF k = 0 THEN Set(rg, ra, Nil)
                                  ELSE Set(put[k - 1], ra + k, IF k = 1 THEN x ELSE Nil)
    IN  put[nargs]

\* The registers a call at ra may need.
NeedOf(ra, nargs) == ra + nargs + 2 + FrameSize

\* What a pcall leaves with the call it protects: base of basePCall, the
\* ReturnBase of its own frame, and whether its Go activation is gone.
NoPcall == [on |-> FALSE, base |-> 0, ret |-> 0, resumed |-> FALSE]

-----------------------------------------------------------------------------
(* Opcodes.  One that needs more registers than it can get raises an error *)
(* before it changes a variable, which is a step of Raise.                 *)

\* The registry of t becomes rg and its frames fs.
Put(t, rg, fs) == ls' = [ls EXCEPT ![t].reg = rg, ![t].frames = fs]
ReplaceTop(t, f) == [Frames(t) EXCEPT ![Len(Frames(t))] = f]

\* OP_LOADK, OP_MOVE...: a declaration, or an assignment to the i-th variable.
DeclareLocal(t, x) ==
    /\ Running(t) /\ Len(Top(t).vars) < MaxLocals
    /\ Fits(ls[t].reg, Free(t) + 1)
    /\ Put(t, Set(ls[t].reg, Free(t), x),
           ReplaceTop(t, [Top(t) EXCEPT !.vars = Append(@, NewVar(t, Len(Frames(t)), Len(Top(t).vars) + 1))]))
    /\ UNCHANGED <<uv, closure>>
    /\ Write(NewVar(t, Len(Frames(t)), Len(Top(t).vars) + 1), x)
AssignLocal(t, i, x) ==
    /\ Running(t) /\ i \in DOMAIN Top(t).vars
    /\ Put(t, Set(ls[t].reg, Top(t).base + i - 1, x), Frames(t))
    /\ UNCHANGED <<uv, closure>>
    /\ Write(Top(t).vars[i], x)

\* OP_CLOSURE with an OP_MOVE: the closure goes to a register, then takes the
\* upvalue of the i-th variable.
MakeClosure(t, i, c) ==
    /\ Running(t) /\ i \in DOMAIN Top(t).vars /\ closure[c] = None
    /\ Fits(ls[t].reg, Free(t) + 1)
    /\ \E u \in Upvals : uv[u] = None
    /\ LET u == CHOOSE w \in Upvals : uv[w] = None
           idx == Top(t).base + i - 1
           found == findUpvalue(t, idx, u)
       IN    /\ closure' = [closure EXCEPT ![c] = [uv |-> found.uv, var |-> Top(t).vars[i]]]
             /\ ls' = [ls EXCEPT ![t].reg = Set(@, Free(t), Nil), ![t].uvcache = found.cache]
             /\ uv' = IF found.uv = u
                      THEN [uv EXCEPT ![u] = [reg |-> t, index |-> idx, closed |-> FALSE, value |-> Nil]]
                      ELSE uv
    /\ store' = store

\* OP_CLOSURE with an OP_GETUPVAL: the upvalue of the running closure c.
InheritUpvalue(c, d) ==
    /\ closure[c] # None /\ closure[d] = None
    /\ closure' = [closure EXCEPT ![d] = closure[c]]
    /\ UNCHANGED <<ls, uv, store>>

\* OP_SETUPVAL in closure c, whichever thread runs it.
SetUpvalue(c, x) ==
    /\ closure[c] # None
    /\ LET u == closure[c].uv IN
       IF uv[u].closed
       THEN uv' = [uv EXCEPT ![u].value = x] /\ ls' = ls
       ELSE /\ ls' = [ls EXCEPT ![uv[u].reg].reg = Set(@, uv[u].index, x)]
            /\ uv' = uv
    /\ closure' = closure
    /\ Write(closure[c].var, x)

\* OP_CLOSE: a block ends that declared the variables after the first k; their
\* registers become temporaries.
LeaveBlock(t, k) ==
    /\ Running(t) /\ k \in 1 .. Len(Top(t).vars) - 1
    /\ closeUpvalues(t, Top(t).base + k)
    /\ ls' = [ls EXCEPT ![t].uvcache = cacheBelow(t, Top(t).base + k),
                        ![t].reg = Temporary(@, Top(t).base + k),
                        ![t].frames = ReplaceTop(t, [Top(t) EXCEPT !.vars = SubSeq(@, 1, k)])]
    /\ closure' = closure
    /\ Forget

Frame(fn, base, ret, guard, param) ==
    [fn |-> fn, base |-> base, ret |-> ret, guard |-> guard, vars |-> <<param>>]
ArgumentOr(nargs, x) == IF nargs = 0 THEN Nil ELSE x

\* OP_CALL of a Lua function, or of pcall with one: pcall's own frame begins
\* one register further on, and so does the call it protects.
Call(t, nargs, x, vararg, protected) ==
    /\ Running(t) /\ Len(Frames(t)) < MaxFrames
    /\ LET ra == Free(t)
           param == NewVar(t, Len(Frames(t)) + 1, 1)
           fn == IF protected THEN ra + 1 ELSE ra
           called == IF protected THEN Set(ls[t].reg, ra, Nil) ELSE ls[t].reg
           init == initCallFrame(Arguments(called, fn, nargs, x), fn + 1, nargs, vararg)
           guard == IF protected
                    THEN [on |-> TRUE, base |-> fn, ret |-> ra, resumed |-> FALSE] ELSE NoPcall
       IN  /\ Fits(ls[t].reg, NeedOf(fn, nargs))
           /\ Put(t, init.reg, Append(Frames(t), Frame(fn, init.base, fn, guard, param)))
           /\ UNCHANGED <<uv, closure>>
           /\ Write(param, ArgumentOr(nargs, x))

\* OP_TAILCALL: the call is set up above, then moved over the running one.
TailCall(t, nargs, x, vararg) ==
    /\ Running(t)
    /\ LET ra == Free(t)
           f == Top(t)
           init == initCallFrame(Arguments(ls[t].reg, ra, nargs, x), ra + 1, nargs, vararg)
           moved == CopyRange(init.reg, f.fn, ra, init.reg.top - ra - 1)
           param == NewVar(t, Len(Frames(t)), 1)
       IN  /\ Fits(ls[t].reg, NeedOf(ra, nargs))
           /\ closeUpvalues(t, f.base)
           /\ ls' = [ls EXCEPT ![t].uvcache = cacheBelow(t, f.base),
                  ![t].reg = moved,
                  ![t].frames = ReplaceTop(t, Frame(f.fn, f.fn + (init.base - ra), f.ret, f.guard,
                                                 param))]
           /\ closure' = closure
           /\ Write(param, ArgumentOr(nargs, x))

\* kill, of a coroutine that has ended.
Ended(t, rg) == [ls[t] EXCEPT !.status = IF ls[t].thread THEN "dead" ELSE "live",
                              !.reg = rg, !.frames = <<>>, !.uvcache = <<>>]

\* OP_RETURN of the first register.  pcall puts true before the result.
Return(t) ==
    /\ Running(t)
    /\ LET f == Top(t)
           plain == Set(CopyRange(ls[t].reg, f.ret, f.base, 1), f.ret, Nil)
           answered == Set(Set(plain, f.guard.ret, Nil), f.guard.ret + 1, Nil)
           last == Len(Frames(t)) = 1
       IN  /\ closeUpvalues(t, IF last /\ ls[t].thread THEN 0 ELSE f.base)
           /\ ls' = [ls EXCEPT ![t] =
                  IF last THEN Ended(t, SetTop(ls[t].reg, 0))
                  ELSE [ls[t] EXCEPT !.reg = IF f.guard.on THEN answered ELSE plain,
                                     !.frames = Front(Frames(t)), !.uvcache = cacheBelow(t, f.base)]]
    /\ closure' = closure
    /\ Forget

\* A coroutine yields: the Go activations of its pcalls are unwound.
Yield(t) ==
    /\ Running(t) /\ ls[t].thread
    /\ ls' = [ls EXCEPT ![t].frames =
                 [i \in DOMAIN @ |->
                     [@[i] EXCEPT !.guard.resumed = Frames(t)[i].guard.resumed \/ Frames(t)[i].guard.on]]]
    /\ UNCHANGED <<uv, closure, store>>

\* An error.  basePCall catches it with pcallFailed; handleProtectedError does
\* so when the Go activation of basePCall is gone.  With no pcall, threadRun
\* or LState.PCall give up all calls.
Pcalls(t) == {i \in DOMAIN Frames(t) : Frames(t)[i].guard.on}
Catcher(t) == CHOOSE i \in Pcalls(t) : \A j \in Pcalls(t) : j <= i
pcallFailed(rg, g) ==
    CopyRange(Set(Set(SetTop(rg, g.base), g.base, Nil), g.base + 1, Nil), g.ret, g.base, 2)
handleProtectedError(rg, g) == Temporary(Set(Set(rg, g.ret, Nil), g.ret + 1, Nil), g.ret)

\* Mutant: the registers are cleared before the upvalues are closed.
MutantRaise(t) ==
    /\ Running(t) /\ Pcalls(t) # {}
    /\ LET k == Catcher(t)
           g == Frames(t)[k].guard
           rg == pcallFailed(ls[t].reg, g)
       IN  /\ ls' = [ls EXCEPT ![t].reg = rg, ![t].frames = SubSeq(@, 1, k - 1),
                               ![t].uvcache = cacheBelow(t, g.base)]
           /\ uv' = [u \in Upvals |->
                        IF Contains(ls[t].uvcache, u) /\ uv[u].index >= g.base
                        THEN [reg |-> None, index |-> 0, closed |-> TRUE,
                              value |-> rg.array[uv[u].index]]
                        ELSE uv[u]]
    /\ closure' = closure
    /\ Forget

Raise(t) ==
    /\ Running(t)
    /\ IF Pcalls(t) = {}
       THEN closeUpvalues(t, 0) /\ ls' = [ls EXCEPT ![t] = Ended(t, SetTop(@.reg, 0))]
       ELSE LET k == Catcher(t)
                g == Frames(t)[k].guard
            IN  /\ closeUpvalues(t, g.base)
                /\ ls' = [ls EXCEPT ![t].reg = IF g.resumed THEN handleProtectedError(@, g)
                                               ELSE pcallFailed(@, g),
                                    ![t].frames = SubSeq(@, 1, k - 1),
                                    ![t].uvcache = cacheBelow(t, g.base)]
    /\ closure' = closure
    /\ Forget

-----------------------------------------------------------------------------
(* States.                                                                 *)

\* The host calls a function, or a coroutine is resumed for the first time.
Start(t) ==
    /\ ls[t].status = "live" /\ Frames(t) = <<>>
    /\ Fits(ls[t].reg, NeedOf(0, 0))
    /\ LET init == initCallFrame(Set(ls[t].reg, 0, Nil), 1, 0, FALSE)
       IN  Put(t, init.reg, <<Frame(0, 1, 0, NoPcall, NewVar(t, 1, 1))>>)
    /\ UNCHANGED <<uv, closure>>
    /\ Write(NewVar(t, 1, 1), Nil)

\* Close and resetLState, also of a state with calls in progress: captured
\* variables keep their values.  A state that has grown is not pooled.
Close(t) ==
    /\ ls[t].status \in {"live", "dead"}
    /\ closeUpvalues(t, 0)
    /\ LET rg == ls[t].reg
           o == ls[t].options
           cleared == [rg EXCEPT !.top = 0,
                                 !.array = [i \in DOMAIN @ |-> IF i < rg.top THEN Nil ELSE @[i]]]
       IN  ls' = [ls EXCEPT ![t] =
                     [@ EXCEPT !.frames = <<>>, !.uvcache = <<>>,
                               !.status = IF Capacity(rg) <= o.RegistrySize + o.RegistryGrowStep
                                          THEN "pooled" ELSE "none",
                               !.reg = IF Capacity(rg) <= o.RegistrySize + o.RegistryGrowStep
                                       THEN cleared ELSE newRegistry(o)]]
    /\ closure' = closure
    /\ Forget

NewLState(thread, o, rg) ==
    [status |-> "live", thread |-> thread, options |-> o, reg |-> rg, frames |-> <<>>, uvcache |-> <<>>]

\* newLState: a pooled state, or a new one.
newLState(t, o) ==
    /\ ls[t].status \in {"none", "pooled"}
    /\ LET rg == ls[t].reg
           reused == [rg EXCEPT !.top = 0, !.maxSize = o.RegistryMaxSize,
                                !.growBy = o.RegistryGrowStep]
       IN  ls' = [ls EXCEPT ![t] =
                     NewLState(FALSE, o, IF @.status = "pooled" /\ Capacity(rg) >= o.RegistrySize
                                         THEN reused ELSE newRegistry(o))]
    /\ UNCHANGED <<uv, closure, store>>

\* newLStateWithGlobal, with the options of the state that makes the thread.
newLStateWithGlobal(t, o) ==
    /\ ls[t].status \in {"none", "pooled"}
    /\ ls' = [ls EXCEPT ![t] =
                 NewLState(TRUE, o, IF @.status = "pooled" /\ Capacity(@.reg) = o.RegistrySize
                                    THEN @.reg ELSE newRegistry(o))]
    /\ UNCHANGED <<uv, closure, store>>

-----------------------------------------------------------------------------
SomeOptions == CHOOSE o \in Options : TRUE

Init ==
    /\ ls = [t \in Threads |-> [NewLState(FALSE, SomeOptions, newRegistry(SomeOptions))
                                 EXCEPT !.status = "none"]]
    /\ uv = [u \in Upvals |-> None]
    /\ closure = [c \in Closures |-> None]
    /\ store = <<>>

Next ==
    \/ \E t \in Threads :
         \/ \E x \in Contents : DeclareLocal(t, x)
         \/ \E i \in 1 .. MaxLocals, x \in Contents : AssignLocal(t, i, x)
         \/ \E i \in 1 .. MaxLocals, c \in Closures : MakeClosure(t, i, c)
         \/ \E k \in 1 .. MaxLocals - 1 : LeaveBlock(t, k)
         \/ \E s \in CallShapes, x \in Contents :
               \/ \E protected \in BOOLEAN : Call(t, s[1], x, s[2], protected)
               \/ TailCall(t, s[1], x, s[2])
         \/ Return(t) \/ Yield(t) \/ Raise(t) \/ Start(t) \/ Close(t)
         \/ \E o \in Options : newLState(t, o) \/ newLStateWithGlobal(t, o)
    \/ \E c, d \in Closures : InheritUpvalue(c, d)
    \/ \E c \in Closures, x \in Contents : SetUpvalue(c, x)

Spec == Init /\ [][Next]_vars

-----------------------------------------------------------------------------
(* Properties.                                                             *)

\* Local variables behave as Lua promises: a call finds in its registers, and
\* a closure behind its upvalue, the last value written to the variable, by
\* whomever, however many registers were moved, grown, cleared or given to
\* another call or another state since.
VariablesKept ==
    /\ \A c \in Closures : closure[c] # None => Value(closure[c].uv) = store[closure[c].var]
    /\ \A t \in Threads : \A i \in DOMAIN Frames(t) : \A k \in DOMAIN Frames(t)[i].vars :
          ls[t].reg.array[Frames(t)[i].base + k - 1] = store[Frames(t)[i].vars[k]]

\* The open upvalues of a state are its list, in the order of their registers,
\* each once, and each on the register of the variable that was captured, below
\* the top: that is what growth copies.
OpenUpvaluesListed ==
    \A t \in Threads :
        LET cache == ls[t].uvcache IN
        /\ \A i, j \in DOMAIN cache : i < j => uv[cache[i]].index < uv[cache[j]].index
        /\ \A u \in Upvals : uv[u] # None /\ uv[u].reg = t => Contains(cache, u)
        /\ \A u \in Range(cache) :
              /\ ~uv[u].closed /\ uv[u].index < ls[t].reg.top
              /\ \E i \in DOMAIN Frames(t) : \E k \in DOMAIN Frames(t)[i].vars :
                    /\ Frames(t)[i].base + k - 1 = uv[u].index
                    /\ \A c \in Holders(u) : closure[c].var = Frames(t)[i].vars[k]

\* After an error the caller of pcall finds false and the error, nothing more.
CaughtAnswersTwo ==
    [][\A t \in Threads : Raise(t) /\ Pcalls(t) # {} =>
           ls'[t].reg.top = Frames(t)[Catcher(t)].guard.ret + 2]_vars

=============================================================================
