------------------------------ MODULE Coroutine ------------------------------
(***************************************************************************)
(* Coroutines of the go-lua runtime: threads (LState) with their call      *)
(* frames, the Go call stack the interpreter nests on, yields that unwind  *)
(* that Go stack, and the bookkeeping that lets a later resume continue    *)
(* where the Go stack was lost (frame continuations, Protected frames and  *)
(* the yieldCont slot).  Sources: coroutinelib.go, vm.go (mainLoop,        *)
(* OP_CALL, OP_TAILCALL, OP_RETURN, callGFunction, threadRun), state.go    *)
(* (Resume, callR, CallK, kill), baselib.go (pcall).                       *)
(*                                                                         *)
(* Values and registers are left out.  What a Lua program does next is a   *)
(* free choice among the constructs in Uses; what the runtime does with it *)
(* is not.  Everything runs on one goroutine, so a step is a piece of code *)
(* between two points where the program has a choice or a Go function      *)
(* returns.                                                                *)
(***************************************************************************)
EXTENDS Naturals, Sequences, FiniteSets

CONSTANTS Main,         \* the thread the host owns; it has no Parent
          HostThreads,  \* threads the host resumes with LState.Resume
          LuaThreads,   \* threads coroutine.create and coroutine.wrap make
          NoThread,     \* a nil *LState
          MaxDepth,     \* bound: frames on one thread's stack
          Uses          \* the constructs programs may use, see Constructs

(***************************************************************************)
(* "main" code the host runs on Main, "meta" a metamethod call, "nested"   *)
(* one inside another, "mixed" a metamethod and a pcall on one stack,      *)
(* "pcall", "gopcall" pcall(pcall),                                        *)
(* "tail" return yield() and the like, "tailpcall" return pcall(f), "wrap" *)
(* coroutine.wrap, "normal" resuming a thread that is waiting for its own  *)
(* child, "shared" resuming a thread that another suspended coroutine will *)
(* re-enter itself when it continues.                                      *)
(***************************************************************************)
Constructs == {"main", "meta", "nested", "mixed", "pcall", "gopcall", "tail",
               "tailpcall", "wrap", "normal", "shared"}

Threads == {Main} \cup HostThreads \cup LuaThreads

ASSUME ThreadAssumption ==
    /\ Main \notin HostThreads \cup LuaThreads
    /\ HostThreads \cap LuaThreads = {}
    /\ NoThread \notin Threads
    /\ "none" \notin Threads /\ "pcall" \notin Threads /\ "sole" \notin Threads
ASSUME DepthAssumption == MaxDepth \in Nat \ {0}
ASSUME UsesAssumption == Uses \subseteq Constructs

VARIABLES thread,         \* the LState of every thread
          CurrentThread,  \* G.CurrentThread
          go,             \* Go activations, oldest first
          sig             \* "none", or the top activation's loop "return"s or "panic"s

vars == <<thread, CurrentThread, go, sig>>

-----------------------------------------------------------------------------
(* Frames, threads and activations.                                        *)

\* A frame's function: Lua code, or one of the Go functions pcall,
\* coroutine.resume, coroutine.yield (-2) and a Go function that yields (-1).
Fns == {"lua", "pcall", "resume", "yield", "goyield"}
GoFns == Fns \ {"lua"}

\* op: "call" while the frame's opcode waits for a metamethod, "redo" once
\* that metamethod yielded and Pc was stepped back onto the opcode.
Frames == [fn : Fns, Protected : BOOLEAN, op : {"none", "call", "redo"}]
Frame(fn) == [fn |-> fn, Protected |-> FALSE, op |-> "none"]

\* callFrameExt.Continuation: pcallContinuation, resumeYieldedGoFunction, or
\* coResumeContinuation with the thread it re-resumes.
Continuations == {"none", "pcall", "sole"} \cup Threads

LStates == [stack : Seq(Frames), frameExt : [1..MaxDepth -> Continuations],
            yieldCont : 0..MaxDepth, yieldContRB : 0..MaxDepth + 1,
            yieldState : {"none", "system", "user"},
            Parent : Threads \cup {NoThread},
            Dead : BOOLEAN, wrapped : BOOLEAN, started : BOOLEAN]

newLState == [stack |-> <<>>, frameExt |-> [i \in 1..MaxDepth |-> "none"],
              yieldCont |-> 0, yieldContRB |-> 0, yieldState |-> "none",
              Parent |-> NoThread, Dead |-> FALSE, wrapped |-> FALSE,
              started |-> FALSE]

\* A Go activation.  "run" is threadRun(t) with its mainLoop(t, nil); "meta"
\* and "pcall" are callR made by the opcode or the pcall frame at `at`, with
\* mainLoop(t, frame at + 1); "call" is the host's PCall on Main; "resume" is
\* coResume of th on t's frame at.  ph is where the loop is: at its entry,
\* interpreting, or inside callGFunction for its top frame, called as mode.
Activations == [k : {"run", "meta", "pcall", "call", "resume"}, t : Threads,
                at : 0..MaxDepth, th : Threads \cup {NoThread},
                ph : {"enter", "exec", "invoke"},
                mode : {"call", "tail", "start", "ret"}]

Activation(k, t, at) == [k |-> k, t |-> t, at |-> at, th |-> NoThread,
                         ph |-> "enter", mode |-> "start"]

Depth(s) == Len(s.stack)
Last(s) == s.stack[Depth(s)]
IsG(f) == f.fn \in GoFns
LastIsG(s) == Depth(s) > 0 /\ IsG(Last(s))
HasContinuation(s) == s.frameExt[Depth(s)] # "none"
TopGo(g) == g[Len(g)]
PopGo(g) == SubSeq(g, 1, Len(g) - 1)
baseframe(a) == IF a.k = "run" THEN 0 ELSE a.at + 1

\* The loop of the top activation goes to phase ph.
Loop(g, ph) == [g EXCEPT ![Len(g)].ph = ph]
Invoke(g, mode) == [g EXCEPT ![Len(g)].ph = "invoke", ![Len(g)].mode = mode]

-----------------------------------------------------------------------------
(* Operations on one LState.                                               *)

pushFrame(s, fn) ==
    [s EXCEPT !.stack = Append(@, Frame(fn))]

\* clearFrameExt(currentFrame); stack.Pop(); currentFrame = stack.Last().
popFrame(s) ==
    [s EXCEPT !.stack = SubSeq(@, 1, Depth(s) - 1),
              !.frameExt[Depth(s)] = "none",
              !.started = Depth(s) > 1]

unwindCallFrames(s, sp) ==
    [s EXCEPT !.stack = SubSeq(@, 1, sp),
              !.frameExt = [i \in 1..MaxDepth |->
                              IF i \in sp + 1..Depth(s) THEN "none" ELSE @[i]],
              !.yieldCont = IF @ > sp THEN 0 ELSE @,
              !.yieldContRB = IF s.yieldCont > sp THEN 0 ELSE @,
              !.started = sp > 0]

\* Mutant: a dead thread keeps its frames' continuations.
killKeepsExt(s) ==
    [s EXCEPT !.yieldCont = 0, !.yieldContRB = 0, !.yieldState = "none",
              !.Dead = TRUE]

kill(s) ==
    [s EXCEPT !.yieldCont = 0, !.yieldContRB = 0, !.yieldState = "none",
              !.frameExt = [i \in 1..MaxDepth |-> "none"], !.Dead = TRUE]

\* The callee's frame and extension take the place of its caller's.
removeCallerFrame(s) ==
    LET n == Depth(s) IN
    [s EXCEPT !.stack = Append(SubSeq(@, 1, n - 2), @[n]),
              !.frameExt[n - 1] = s.frameExt[n],
              !.frameExt[n] = "none"]

\* The frame callGFunction leaves on top, removing the caller of a tail call.
afterTail(s, a) == IF a.mode = "tail" THEN removeCallerFrame(s) ELSE s

-----------------------------------------------------------------------------
(* Switching threads.                                                      *)

\* Mutant: the parent is read after the link to it was cleared.
switchToParentThreadLate(t, s, how) ==
    LET p == [popFrame(s) EXCEPT !.Parent = NoThread] IN
    /\ CurrentThread' = p.Parent
    /\ thread' = [thread EXCEPT ![t] =
                    IF how = "dies" THEN kill(p) ELSE [p EXCEPT !.yieldState = how]]
    /\ sig' = "return"

\* Thread t, in state s with a Parent, gives up its top frame and the control
\* to its parent: "dies" (it returned or failed), or yields as how says.
switchToParentThread(t, s, how) ==
    LET p == [popFrame(s) EXCEPT !.Parent = NoThread] IN
    /\ CurrentThread' = s.Parent
    /\ thread' = [thread EXCEPT ![t] =
                    IF how = "dies" THEN kill(p) ELSE [p EXCEPT !.yieldState = how]]
    /\ sig' = "return"

\* Mutant: the only frame is kept, but without a continuation.
preserveSoleGoYieldBare(t, s, how) ==
    /\ CurrentThread' = s.Parent
    /\ thread' = [thread EXCEPT ![t] =
                    [s EXCEPT !.Parent = NoThread, !.yieldState = how]]
    /\ sig' = "return"

\* A yielding Go function that is the coroutine's only frame keeps the frame:
\* its continuation returns the next resume's arguments.
preserveSoleGoYield(t, s, how) ==
    /\ CurrentThread' = s.Parent
    /\ thread' = [thread EXCEPT ![t] =
                    [s EXCEPT !.Parent = NoThread, !.yieldState = how,
                              !.frameExt[Depth(s)] = "sole"]]
    /\ sig' = "return"

\* The part of callGFunction after the Go function returned its results: the
\* sole frame of a coroutine ends the thread, any other goes back to the loop
\* that called it, which continues or returns depending on how it called.
goReturns(t, s0, g) ==
    LET a == TopGo(g)
        s == afterTail(s0, a)
        p == popFrame(s)
        exec == go' = Loop(g, "exec") /\ sig' = "none"
        leave == go' = Loop(g, "exec") /\ sig' = "return"
    IN IF s.Parent # NoThread /\ Depth(s) = 1
       THEN /\ switchToParentThread(t, s, "dies")
            /\ go' = Loop(g, "exec")
       ELSE /\ thread' = [thread EXCEPT ![t] = p]
            /\ UNCHANGED CurrentThread
            /\ \/ a.mode \in {"call", "ret"} /\ exec
               \/ /\ a.mode = "start"
                  /\ IF baseframe(a) # 0 \/ Depth(p) = 0 THEN leave
                     ELSE IF LastIsG(p)
                          THEN go' = Loop(g, "enter") /\ sig' = "none"
                          ELSE exec
               \/ /\ a.mode = "tail"
                  /\ IF Depth(p) = 0 \/ Depth(s) = baseframe(a) THEN leave
                     ELSE IF ~LastIsG(p) THEN exec
                     ELSE IF HasContinuation(p)
                          THEN go' = Invoke(g, "ret") /\ sig' = "none"
                          ELSE leave

-----------------------------------------------------------------------------
(* What the interpreter loop does with its current frame.                  *)

\* Thread t's loop is interpreting the Lua frame on top of its stack.
Executing(t) == /\ sig = "none" /\ go # <<>>
                /\ TopGo(go).t = t /\ TopGo(go).ph = "exec"

AtOpcode(t) == /\ Executing(t)
               /\ ~LastIsG(thread[t])
               /\ Last(thread[t]).op = "none"

HasFn(s, fn) == \E i \in 1..Depth(s) : s.stack[i].fn = fn
InMetamethod(s) == \E i \in 1..Depth(s) : s.stack[i].op # "none"

\* Programs the configuration admits: see Constructs.
MayPcall(s) == "pcall" \in Uses /\ ("mixed" \in Uses \/ ~InMetamethod(s))
MayMeta(s) == /\ "meta" \in Uses
              /\ "nested" \in Uses \/ ~InMetamethod(s)
              /\ "mixed" \in Uses \/ ~HasFn(s, "pcall")
\* The bound on the stack: one slot is kept for the Go functions that put no
\* frame above their own.
Room(s, fn) == Depth(s) < IF fn \in {"lua", "pcall"} THEN MaxDepth - 1 ELSE MaxDepth

\* A suspended coResume keeps th to re-enter it (coResumeContinuation).
Awaited(th) == \E t \in Threads : \E i \in 1..MaxDepth : thread[t].frameExt[i] = th
MayResume(th) == /\ "normal" \in Uses \/ thread[th].Parent = NoThread
                 /\ "shared" \in Uses \/ ~Awaited(th)
MayTail(fn) == IF fn = "pcall" THEN "tailpcall" \in Uses ELSE "tail" \in Uses

\* mainLoopWithContext before its loop.
EnterLoop ==
    /\ sig = "none" /\ go # <<>> /\ TopGo(go).ph = "enter"
    /\ LET s == thread[TopGo(go).t] IN
       \/ Depth(s) = 0 /\ sig' = "return" /\ UNCHANGED go
       \/ Depth(s) > 0 /\ LastIsG(s) /\ go' = Invoke(go, "start") /\ UNCHANGED sig
       \/ Depth(s) > 0 /\ ~LastIsG(s) /\ go' = Loop(go, "exec") /\ UNCHANGED sig
    /\ UNCHANGED <<thread, CurrentThread>>

\* OP_CALL: pushes the callee's frame; a Go function runs at once.
OpCall(t, fn) ==
    /\ AtOpcode(t)
    /\ Room(thread[t], fn)
    /\ fn = "pcall" => MayPcall(thread[t])
    /\ thread' = [thread EXCEPT ![t] = pushFrame(@, fn)]
    /\ go' = IF fn = "lua" THEN go ELSE Invoke(go, "call")
    /\ UNCHANGED <<CurrentThread, sig>>

\* OP_TAILCALL of a Go function; of a Lua function it reuses the frame.
OpTailCall(t, fn) ==
    /\ AtOpcode(t)
    /\ fn \in GoFns /\ MayTail(fn)
    /\ Room(thread[t], fn)
    /\ fn = "pcall" => MayPcall(thread[t])
    /\ thread' = [thread EXCEPT ![t] = pushFrame(@, fn)]
    /\ go' = Invoke(go, "tail")
    /\ UNCHANGED <<CurrentThread, sig>>

\* An opcode whose operand has a metamethod: callR with a nested mainLoop.
\* With op = "redo" the opcode is executed a second time.
OpMeta(t, fn) ==
    LET n == Depth(thread[t]) IN
    /\ Executing(t) /\ ~LastIsG(thread[t])
    /\ Room(thread[t], fn)
    /\ \/ Last(thread[t]).op = "none" /\ MayMeta(thread[t])
       \/ Last(thread[t]).op = "redo" /\ thread[t].yieldCont # n
    /\ thread' = [thread EXCEPT ![t] =
                    pushFrame([@ EXCEPT !.stack[n].op = "call"], fn)]
    /\ go' = Append(go, Activation("meta", t, n))
    /\ UNCHANGED <<CurrentThread, sig>>

\* The current frame owns yieldCont: only the opcode's post-call work is done.
handleYieldContinuation(t) ==
    LET n == Depth(thread[t]) IN
    /\ Executing(t) /\ ~LastIsG(thread[t])
    /\ thread[t].yieldCont = n
    /\ thread' = [thread EXCEPT ![t].yieldCont = 0, ![t].yieldContRB = 0,
                                ![t].stack[n].op = "none"]
    /\ UNCHANGED <<CurrentThread, go, sig>>

\* Mutant: a frame of a Go function is not told from one of Lua code.
OpReturnToAnyFrame(t) ==
    LET s == thread[t]
        p == popFrame(s)
    IN /\ AtOpcode(t)
       /\ \/ /\ s.Parent # NoThread /\ Depth(s) = 1
             /\ switchToParentThread(t, s, "dies")
          \/ /\ s.Parent = NoThread \/ Depth(s) # 1
             /\ thread' = [thread EXCEPT ![t] = p]
             /\ sig' = IF baseframe(TopGo(go)) = Depth(s) \/ Depth(p) = 0
                       THEN "return" ELSE sig
             /\ UNCHANGED CurrentThread
       /\ UNCHANGED go

\* OP_RETURN.
OpReturn(t) ==
    LET s == thread[t]
        p == popFrame(s)
        a == TopGo(go)
    IN /\ AtOpcode(t)
       /\ \/ /\ s.Parent # NoThread /\ Depth(s) = 1
             /\ switchToParentThread(t, s, "dies")
             /\ UNCHANGED go
          \/ /\ s.Parent = NoThread \/ Depth(s) # 1
             /\ thread' = [thread EXCEPT ![t] = p]
             /\ IF \/ baseframe(a) = Depth(s) \/ Depth(p) = 0
                   \/ LastIsG(p) /\ ~HasContinuation(p)
                THEN sig' = "return" /\ UNCHANGED go
                ELSE /\ go' = IF LastIsG(p) THEN Invoke(go, "ret") ELSE go
                     /\ UNCHANGED sig
             /\ UNCHANGED CurrentThread

\* RaiseError, a cancelled context seen by checkCtx, or a Go frame that the
\* loop takes for Lua code (cf.Fn.Proto is nil).
Throw(t) ==
    /\ \/ AtOpcode(t)
       \/ Executing(t) /\ LastIsG(thread[t])
    /\ sig' = "panic"
    /\ UNCHANGED <<thread, CurrentThread, go>>

-----------------------------------------------------------------------------
(* callGFunction: the loop of t runs the Go function on top of t's stack.  *)

Invoking(t, fn) == /\ sig = "none" /\ go # <<>>
                   /\ TopGo(go).t = t /\ TopGo(go).ph = "invoke"
                   /\ Last(thread[t]).fn = fn

\* A fresh call, not the continuation of one that yielded.
Calling(t, fn) == Invoking(t, fn) /\ ~HasContinuation(thread[t])

\* Mutant: the resumed thread is not told who resumed it.
runThreadNoParent(t, th, ts) ==
    /\ thread' = [ts EXCEPT ![th].yieldState = "none", ![th].started = TRUE]
    /\ CurrentThread' = th
    /\ go' = go \o <<[Activation("resume", t, Depth(ts[t])) EXCEPT !.th = th],
                     Activation("run", th, 0)>>
    /\ UNCHANGED sig

\* th becomes a child of t and threadRun(th) starts.
runThread(t, th, ts) ==
    /\ thread' = [ts EXCEPT ![th].Parent = t, ![th].yieldState = "none",
                            ![th].started = TRUE]
    /\ CurrentThread' = th
    /\ go' = go \o <<[Activation("resume", t, Depth(ts[t])) EXCEPT !.th = th],
                     Activation("run", th, 0)>>
    /\ UNCHANGED sig

\* basePCall: a value that cannot be called is refused, any other is called
\* through CallK on a frame marked Protected.
pcallRefuses(t) == Calling(t, "pcall") /\ goReturns(t, thread[t], go)

basePCall(t, fn) ==
    LET n == Depth(thread[t]) IN
    /\ Calling(t, "pcall")
    /\ Room(thread[t], fn)
    /\ fn = "pcall" => "gopcall" \in Uses
    /\ thread' = [thread EXCEPT ![t] =
                    pushFrame([@ EXCEPT !.stack[n].Protected = TRUE,
                                        !.frameExt[n] = "pcall"], fn)]
    /\ go' = Append(go, Activation("pcall", t, n))
    /\ UNCHANGED <<CurrentThread, sig>>

\* coYield returns -2, a yielding Go function -1 (Yield, coSpawn).
goYields(t, fn, how) ==
    LET s == afterTail(thread[t], TopGo(go)) IN
    /\ Calling(t, fn)
    /\ IF s.Parent = NoThread
       THEN /\ thread' = [thread EXCEPT ![t] = s]
            /\ sig' = "panic"
            /\ UNCHANGED CurrentThread
       ELSE IF Depth(s) = 1 THEN preserveSoleGoYield(t, s, how)
                            ELSE switchToParentThread(t, s, how)
    /\ go' = Loop(go, "exec")

coYield(t) == goYields(t, "yield", "user")
systemYield(t) == goYields(t, "goyield", "system")

\* A thread value the program can hold: it was created, or ran and asked for
\* coroutine.running.
Known(th) == th # Main /\ (Depth(thread[th]) > 0 \/ thread[th].Dead)

\* The argument of coResume is not a thread: an error.
CheckThread(t) ==
    /\ Calling(t, "resume")
    /\ sig' = "panic"
    /\ UNCHANGED <<thread, CurrentThread, go>>

\* coResume refuses a running or a dead thread; a wrapped one by an error.
coResumeRefuses(t, th) ==
    /\ Calling(t, "resume") /\ Known(th)
    /\ CurrentThread = th \/ thread[th].Dead
    /\ IF thread[th].wrapped
       THEN sig' = "panic" /\ UNCHANGED <<thread, CurrentThread, go>>
       ELSE goReturns(t, thread[t], go)

\* Mutant: a dead thread is not refused.
coResumeDead(t, th) ==
    /\ Calling(t, "resume") /\ Known(th)
    /\ CurrentThread # th
    /\ MayResume(th)
    /\ runThread(t, th, thread)

coResume(t, th) ==
    /\ Calling(t, "resume") /\ Known(th)
    /\ CurrentThread # th /\ ~thread[th].Dead
    /\ MayResume(th)
    /\ runThread(t, th, thread)

\* pcallContinuation and resumeYieldedGoFunction just return; the frame of a
\* coResume that propagated a system yield re-enters the inner thread.
continuation(t) ==
    /\ \E fn \in GoFns : Invoking(t, fn)
    /\ HasContinuation(thread[t])
    /\ LET n == Depth(thread[t])
           c == thread[t].frameExt[n]
           s == [thread[t] EXCEPT !.frameExt[n] = "none"]
       IN IF c \in Threads THEN runThread(t, c, [thread EXCEPT ![t] = s])
                           ELSE goReturns(t, s, go)

\* coCreate and coWrap, a Go call that comes back at once.
coCreate(t, th, fn, w) ==
    /\ AtOpcode(t)
    /\ th \in LuaThreads /\ ~Known(th)
    /\ w => "wrap" \in Uses
    /\ thread' = [thread EXCEPT ![th] =
                    [pushFrame(newLState, fn) EXCEPT !.wrapped = w]]
    /\ UNCHANGED <<CurrentThread, go, sig>>

-----------------------------------------------------------------------------
(* A loop returned: the code after it in the activation that started it.   *)

\* Mutant: the slot names the frame that yielded, not the opcode's own.
metaReturnsCalleeIdx ==
    /\ sig = "return" /\ TopGo(go).k = "meta"
    /\ LET a == TopGo(go) IN
       IF thread[a.t].yieldState # "none"
       THEN /\ thread' = [thread EXCEPT ![a.t].stack[a.at].op = "redo",
                                        ![a.t].yieldCont = Depth(thread[a.t]),
                                        ![a.t].yieldContRB = a.at + 1]
            /\ UNCHANGED sig
       ELSE /\ thread' = [thread EXCEPT ![a.t].stack[a.at].op = "none"]
            /\ sig' = "none"
    /\ go' = PopGo(go)
    /\ UNCHANGED CurrentThread

\* callR and the opcode: keep what is left of the opcode in the yieldCont slot
\* and step Pc back, or finish the opcode.
metaReturns ==
    /\ sig = "return" /\ TopGo(go).k = "meta"
    /\ LET a == TopGo(go) IN
       IF thread[a.t].yieldState # "none"
       THEN /\ thread' = [thread EXCEPT ![a.t].stack[a.at].op = "redo",
                                        ![a.t].yieldCont = a.at,
                                        ![a.t].yieldContRB = a.at + 1]
            /\ UNCHANGED sig
       ELSE /\ thread' = [thread EXCEPT ![a.t].stack[a.at].op = "none"]
            /\ sig' = "none"
    /\ go' = PopGo(go)
    /\ UNCHANGED CurrentThread

\* Mutant: the Protected mark and the continuation are cleared before the
\* yield is noticed.
pcallReturnsDisarms ==
    /\ sig = "return" /\ TopGo(go).k = "pcall"
    /\ LET a == TopGo(go)
           s == [thread[a.t] EXCEPT !.stack[a.at].Protected = FALSE,
                                    !.frameExt[a.at] = "none"]
       IN IF s.yieldState # "none"
          THEN /\ thread' = [thread EXCEPT ![a.t] =
                    afterTail([s EXCEPT !.yieldContRB = a.at + 1], TopGo(PopGo(go)))]
               /\ go' = PopGo(go)
               /\ UNCHANGED <<CurrentThread, sig>>
          ELSE goReturns(a.t, s, PopGo(go))

\* callR, CallK and the rest of basePCall.  A yield leaves the frame Protected
\* and its continuation in place; callGFunction still removes a tail caller.
pcallReturns ==
    /\ sig = "return" /\ TopGo(go).k = "pcall"
    /\ LET a == TopGo(go)
           s == thread[a.t]
       IN IF s.yieldState # "none"
          THEN /\ thread' = [thread EXCEPT ![a.t] =
                    afterTail([s EXCEPT !.yieldContRB = a.at + 1], TopGo(PopGo(go)))]
               /\ go' = PopGo(go)
               /\ UNCHANGED <<CurrentThread, sig>>
          ELSE goReturns(a.t, [s EXCEPT !.stack[a.at].Protected = FALSE,
                                        !.frameExt[a.at] = "none"], PopGo(go))

\* Mutant: a system yield stops at the first coroutine boundary.
resumeReturnsAlways ==
    /\ sig = "return" /\ TopGo(go).k = "run" /\ Len(go) > 1
    /\ LET r == TopGo(PopGo(go)) IN
       goReturns(r.t, thread[r.t], PopGo(PopGo(go)))

\* Mutant: coResumePropagate does not switch G.CurrentThread.
resumeReturnsStaysCurrent ==
    /\ sig = "return" /\ TopGo(go).k = "run" /\ Len(go) > 1
    /\ LET r == TopGo(PopGo(go))
           g == PopGo(PopGo(go))
           s == thread[r.t]
       IN IF thread[r.th].yieldState # "system" \/ s.Parent = NoThread
          THEN goReturns(r.t, s, g)
          ELSE /\ thread' = [thread EXCEPT ![r.t] =
                    afterTail([s EXCEPT !.Parent = NoThread,
                                        !.yieldState = "system",
                                        !.frameExt[Depth(s)] = r.th], TopGo(g))]
               /\ go' = g
               /\ UNCHANGED <<CurrentThread, sig>>

\* threadRun of a coroutine came back to coResume: a system yield goes on
\* through a thread that has a parent, anything else is coResume's result.
resumeReturns ==
    /\ sig = "return" /\ TopGo(go).k = "run" /\ Len(go) > 1
    /\ LET r == TopGo(PopGo(go))
           g == PopGo(PopGo(go))
           s == thread[r.t]
       IN IF thread[r.th].yieldState # "system" \/ s.Parent = NoThread
          THEN goReturns(r.t, s, g)
          ELSE /\ CurrentThread' = s.Parent
               /\ thread' = [thread EXCEPT ![r.t] =
                    afterTail([s EXCEPT !.Parent = NoThread,
                                        !.yieldState = "system",
                                        !.frameExt[Depth(s)] = r.th], TopGo(g))]
               /\ go' = g
               /\ UNCHANGED sig

-----------------------------------------------------------------------------
(* A panic unwinds the Go stack.                                           *)

metaPanics ==
    /\ sig = "panic" /\ TopGo(go).k = "meta"
    /\ go' = PopGo(go)
    /\ UNCHANGED <<thread, CurrentThread, sig>>

\* pcall's recover and pcallFailed.
pcallFailed ==
    /\ sig = "panic" /\ TopGo(go).k = "pcall"
    /\ LET a == TopGo(go)
           s == unwindCallFrames(thread[a.t], a.at)
       IN goReturns(a.t, [s EXCEPT !.stack[a.at].Protected = FALSE,
                                   !.frameExt[a.at] = "none"], PopGo(go))

Protecting(s) == {i \in 1..Depth(s) : s.stack[i].Protected}

\* threadRun's recover: a Protected frame that lost its pcall activation to a
\* yield catches the error and the loop starts again without it.
handleProtectedError ==
    /\ sig = "panic" /\ TopGo(go).k = "run"
    /\ LET t == TopGo(go).t
           P == Protecting(thread[t])
       IN /\ P # {}
          /\ thread' = [thread EXCEPT ![t] =
               unwindCallFrames(@, (CHOOSE i \in P : \A j \in P : j <= i) - 1)]
    /\ go' = Loop(go, "enter")
    /\ sig' = "none"
    /\ UNCHANGED CurrentThread

\* No frame catches it: the thread dies and its resumer gets the error, as a
\* panic of its own if the thread is wrapped.
threadFails ==
    /\ sig = "panic" /\ TopGo(go).k = "run"
    /\ LET t == TopGo(go).t
           s == thread[t]
       IN /\ Protecting(s) = {}
          /\ IF s.Parent # NoThread /\ ~s.wrapped
             THEN switchToParentThread(t, s, "dies") /\ UNCHANGED go
             ELSE /\ thread' = [thread EXCEPT ![t] =
                                  IF s.Parent = NoThread THEN s ELSE kill(s)]
                  /\ go' = PopGo(PopGo(go))
                  /\ sig' = IF Len(go) > 1 THEN "panic" ELSE "none"
                  /\ UNCHANGED CurrentThread

-----------------------------------------------------------------------------
(* The host: it runs when no Lua code does.                                *)

Idle == go = <<>>

\* LState.PCall on Main, and its return or recovered panic.
hostPCall ==
    /\ Idle /\ "main" \in Uses
    /\ thread' = [thread EXCEPT ![Main] = pushFrame([@ EXCEPT !.started = TRUE], "lua")]
    /\ go' = <<Activation("call", Main, 0)>>
    /\ UNCHANGED <<CurrentThread, sig>>

hostPCallReturns ==
    /\ sig # "none" /\ TopGo(go).k = "call"
    /\ thread' = [thread EXCEPT ![Main] = unwindCallFrames(@, 0)]
    /\ go' = <<>>
    /\ sig' = "none"
    /\ UNCHANGED CurrentThread

\* The frame LState.Resume and ResumeInto push on a thread that has none
\* current, before they look at whether it may be resumed.
entered(th, fn) == IF thread[th].started THEN thread[th]
                                         ELSE pushFrame(thread[th], fn)

hostResume(th, fn) ==
    /\ Idle /\ MayResume(th) /\ Depth(entered(th, fn)) <= MaxDepth
    /\ IF CurrentThread = th \/ thread[th].Dead
       THEN /\ thread' = [thread EXCEPT ![th] = entered(th, fn)]
            /\ UNCHANGED <<CurrentThread, go, sig>>
       ELSE /\ thread' = [thread EXCEPT ![th] =
                 [entered(th, fn) EXCEPT !.Parent = Main, !.yieldState = "none",
                                         !.started = TRUE]]
            /\ CurrentThread' = th
            /\ go' = <<Activation("run", th, 0)>>
            /\ UNCHANGED sig

\* abortCanceledResume: the context was cancelled before the resume.
hostResumeCanceled(th, fn) ==
    /\ Idle /\ MayResume(th) /\ Depth(entered(th, fn)) <= MaxDepth
    /\ CurrentThread # th /\ ~thread[th].Dead
    /\ thread' = [thread EXCEPT ![th] =
         kill([entered(th, fn) EXCEPT !.Parent = NoThread, !.started = TRUE])]
    /\ CurrentThread' = Main
    /\ UNCHANGED <<go, sig>>

\* What Resume answers, with abortInvalidResume for a yield that left no frame.
hostResumeReturns ==
    /\ sig = "return" /\ TopGo(go).k = "run" /\ Len(go) = 1
    /\ LET th == TopGo(go).t
           s == thread[th]
       IN IF s.yieldState # "none" /\ Depth(s) = 0
          THEN /\ thread' = [thread EXCEPT ![th] = kill([s EXCEPT !.Parent = NoThread])]
               /\ CurrentThread' = Main
          ELSE UNCHANGED <<thread, CurrentThread>>
    /\ go' = <<>>
    /\ sig' = "none"

-----------------------------------------------------------------------------

Init ==
    /\ thread = [t \in Threads |-> newLState]
    /\ CurrentThread = Main
    /\ go = <<>>
    /\ sig = "none"

Interpret ==
    \E t \in Threads :
      \/ \E fn \in Fns : OpCall(t, fn) \/ OpTailCall(t, fn)
      \/ \E fn \in {"lua", "goyield"} : OpMeta(t, fn)
      \/ handleYieldContinuation(t)
      \/ OpReturn(t)
      \/ Throw(t)
      \/ \E th \in LuaThreads, fn \in {"lua", "goyield"}, w \in BOOLEAN :
           coCreate(t, th, fn, w)

InvokeGo ==
    \E t \in Threads :
      \/ pcallRefuses(t)
      \/ \E fn \in {"lua", "goyield", "pcall"} : basePCall(t, fn)
      \/ coYield(t) \/ systemYield(t)
      \/ CheckThread(t)
      \/ \E th \in Threads : coResume(t, th) \/ coResumeRefuses(t, th)
      \/ continuation(t)

Unwind == \/ metaReturns \/ pcallReturns \/ resumeReturns
          \/ metaPanics \/ pcallFailed \/ handleProtectedError \/ threadFails
          \/ hostPCallReturns \/ hostResumeReturns

Host == \/ hostPCall
        \/ \E th \in HostThreads, fn \in {"lua", "goyield"} :
             hostResume(th, fn) \/ hostResumeCanceled(th, fn)

Next == EnterLoop \/ Interpret \/ InvokeGo \/ Unwind \/ Host

Spec == Init /\ [][Next]_vars

\* The runtime's own work goes on: entering a loop, returning and unwinding
\* are plain Go control flow, with no point where the program may stay.
FairSpec == Spec /\ WF_vars(EnterLoop) /\ WF_vars(Unwind)

-----------------------------------------------------------------------------
(* Properties.                                                             *)

\* Every variable has its type; on a stack of at most MaxDepth frames.
TypeOK ==
    /\ thread \in [Threads -> LStates]
    /\ \A t \in Threads : Depth(thread[t]) <= MaxDepth
    /\ CurrentThread \in Threads
    /\ go \in Seq(Activations)
    /\ sig \in {"none", "return", "panic"}

\* A thread is on the Go stack while some activation works for it.
OnGoStack(t) == \E j \in 1..Len(go) : go[j].t = t

\* A killed thread keeps no pending work (kill clears the continuation slot,
\* the yield state and the frame extensions) and nothing gives it work again:
\* once control is back at Lua code, no activation on the Go stack is its own.
DeadHasNoWork ==
    \A t \in Threads : thread[t].Dead =>
        /\ thread[t].yieldState = "none" /\ thread[t].yieldCont = 0
        /\ \A i \in 1..MaxDepth : thread[t].frameExt[i] = "none"
        /\ sig = "none" => ~OnGoStack(t)

\* A yielded thread can be resumed: it has left its Parent and the Go stack,
\* it has a frame, and a Go function on top of it has a continuation, so that
\* the resume finishes that call and does not make it a second time.
SuspendedCanResume ==
    sig = "none" => \A t \in Threads : thread[t].yieldState # "none" =>
        /\ thread[t].Parent = NoThread /\ ~OnGoStack(t)
        /\ Depth(thread[t]) > 0
        /\ LastIsG(thread[t]) => HasContinuation(thread[t])

\* The parent links restate the Go stack: a thread that runs in a threadRun has
\* as Parent the thread whose coResume (or host Resume) started it, and no
\* thread runs in two of them.
ParentIsResumer ==
    sig = "none" =>
      \A j \in 1..Len(go) : go[j].k = "run" =>
        /\ thread[go[j].t].Parent = IF j = 1 THEN Main ELSE go[j - 1].t
        /\ \A k \in 1..Len(go) : go[k].k = "run" /\ go[k].t = go[j].t => k = j

\* Lua code runs in G.CurrentThread: coroutine.running, coroutine.status and
\* the check against resuming a running thread all rely on it.  Violated by an
\* error in a thread of coroutine.wrap, which dies without the switch.
RunningIsCurrent == sig = "none" /\ go # <<>> => CurrentThread = TopGo(go).t

\* The interpreter never takes the frame of a Go function for Lua code.
\* Violated by pcall(pcall, f): one continuation runs, not the chain of them.
OnlyLuaInterpreted ==
    \A t \in Threads : Executing(t) => Depth(thread[t]) > 0 /\ ~LastIsG(thread[t])

\* An opcode whose metamethod yielded is finished once and never run again: its
\* frame owns the yieldCont slot until the metamethod comes back.  Violated by
\* a metamethod inside another: the outer opcode takes the slot.
OpcodeFinishedOnce ==
    sig = "none" => \A t \in Threads : \A i \in 1..Depth(thread[t]) :
        ~thread[t].Dead /\ thread[t].stack[i].op = "redo" => thread[t].yieldCont = i

\* The slot's return base is that of the metamethod's own frame, where its
\* OP_RETURN puts the result.  Violated by a pcall around the metamethod: its
\* callR replaces the base when the same yield passes it.
ResultReadWhereReturned ==
    sig = "none" => \A t \in Threads :
        thread[t].yieldCont # 0 => thread[t].yieldContRB = thread[t].yieldCont + 1

\* Every pcall still waiting for its function is answered: it has its Go
\* activation, or after a yield the Protected mark and the continuation that
\* replace it.
PcallIsArmed ==
    sig = "none" => \A t \in Threads : \A i \in 1..Depth(thread[t]) - 1 :
        thread[t].stack[i].fn = "pcall" =>
            \/ \E j \in 1..Len(go) : /\ go[j].k = "pcall"
                                     /\ go[j].t = t /\ go[j].at = i
            \/ thread[t].stack[i].Protected /\ thread[t].frameExt[i] = "pcall"
            \/ thread[t].Dead

Pcalls(s) == {i \in 1..Depth(s) : s.stack[i].fn = "pcall"}

\* A yield drops no pcall from the stack it leaves behind: the pcall must
\* still answer when its function returns or fails after the resume.  Violated
\* by return pcall(f): the frame that makes room for the tail call is pcall's.
YieldKeepsPcalls ==
    [][\A t \in Threads :
         thread[t].yieldState # "none" /\ thread'[t].yieldState # "none"
           => \E f \in [Pcalls(thread[t]) -> Pcalls(thread'[t])] :
                \A i, j \in Pcalls(thread[t]) : i # j => f[i] # f[j]]_vars

\* The threads from Main to cur that the Parent links spell out; no longer than
\* the number of threads.
Lineage(ts, cur) ==
    LET up[n \in 0..Cardinality(Threads)] ==
          [t \in Threads \cup {NoThread} |->
             IF n = 0 \/ t = NoThread THEN <<>>
             ELSE Append(up[n - 1][ts[t].Parent], t)]
    IN up[Cardinality(Threads)][cur]

\* The chain from Main to the running thread.
Ancestry == Lineage(thread, CurrentThread)

Chain == INSTANCE CoroutineChain
           WITH Coroutines <- Threads \ {Main}, chain <- Ancestry,
                dead <- {t \in Threads : thread[t].Dead}

\* The links implement the chain: resume appends one suspended thread, yield,
\* return, error and cancellation take off the last one, a system yield takes
\* them off one by one, and nothing revives a dead thread.
RefinesChain == Chain!Spec

\* A system yield (a Go function that returned -1) is for the scheduler: when
\* the outermost thread was resumed by the host, the yield passes every
\* coroutine, pcall and opcode in between and gives the host control.
SystemYieldReachesHost ==
    (/\ sig = "return" /\ go[1].k = "run"
     /\ thread[TopGo(go).t].yieldState = "system") ~> Idle

=============================================================================
