--------------------------- MODULE CoroutineProofs ---------------------------
EXTENDS Coroutine, SequenceTheorems, FiniteSetTheorems, WellFoundedInduction, TLAPS

(***************************************************************************)
(* Proofs about Coroutine, for any threads and any bound on the stacks.    *)
(*                                                                         *)
(* One inductive invariant carries all theorems.  Good relates the three   *)
(* stacks of the runtime: the frames of each thread with their extensions  *)
(* and its yieldCont slot (WF), the Go stack of nested interpreter loops   *)
(* (Shape), and the chain of Parent links.  Each loop that waits on the Go *)
(* stack still finds the frame it called from (Held), each resumed thread  *)
(* still has its resumer as Parent (Parents), the loop on top has the      *)
(* frame it is about to run (Top), G.CurrentThread follows the Go stack    *)
(* (Current), and the threads off the Go stack can be resumed (Rested),    *)
(* each by one thread only (Awaits).                                       *)
(*                                                                         *)
(* Good takes the state as four arguments, so that a step that does        *)
(* several things is a chain of lemmas about intermediate states; "panic"  *)
(* as third phase of sig is where the chains meet, since a panicking loop  *)
(* promises nothing about its top frame.                                   *)
(***************************************************************************)

\* The constructs under which the properties hold: Lua code, resume and yield,
\* pcall, metamethods, tail calls of Lua and Go functions, wrapped coroutines and
\* the host's own PCall. Of the constructs left out, nested and mixed metamethods and
\* tail-called and Go-called pcalls violate one of the properties, and nothing says
\* what resuming a thread that waits or that another one awaits should do.
Admitted == Uses \subseteq {"main", "meta", "pcall", "tail", "wrap"}

\* And without coroutine.wrap: an error in a wrapped thread leaves
\* G.CurrentThread on that thread, which is dead.
Unwrapped == "wrap" \notin Uses

-----------------------------------------------------------------------------
(* One thread.                                                             *)

\* The frames: a pcall stands on its Lua caller, only Lua and pcall frames lie
\* below the top, and a pcall below the top is armed and has its continuation.
Stacked(s) ==
    /\ \A i \in 1..Depth(s) :
         /\ s.stack[i].fn = "pcall" => i > 1 /\ s.stack[i - 1].fn = "lua"
         /\ s.stack[i].Protected => s.stack[i].fn = "pcall"
         /\ s.stack[i].op # "none" => s.stack[i].fn = "lua"
    /\ \A i \in 1..Depth(s) : i < Depth(s) => s.stack[i].fn \in {"lua", "pcall"}
    /\ \A i \in 1..Depth(s) : i < Depth(s) /\ s.stack[i].fn = "pcall" =>
         s.stack[i].Protected /\ s.frameExt[i] = "pcall"

\* The opcodes that wait for a metamethod: at most one, in a thread without
\* pcalls, and one to be finished after a yield is the one yieldCont names.
Slotted(s) ==
    /\ \A i \in 1..Depth(s) : s.stack[i].op = "redo" => s.yieldCont = i
    /\ \A i, j \in 1..Depth(s) :
         s.stack[i].op # "none" =>
            /\ s.stack[j].op # "none" => i = j
            /\ s.stack[j].fn # "pcall"
    /\ s.yieldCont # 0 => /\ s.yieldCont <= Depth(s)
                          /\ s.stack[s.yieldCont].op = "redo"
                          /\ s.yieldContRB = s.yieldCont + 1

\* The frame extensions: the continuation of a pcall, of a lone yield, or of the
\* resume on top whose coroutine made a system yield.
Extended(s) ==
    \A i \in 1..MaxDepth : s.frameExt[i] # "none" =>
        /\ i <= Depth(s)
        /\ \/ s.frameExt[i] = "pcall" /\ s.stack[i].fn = "pcall"
           \/ s.frameExt[i] = "sole" /\ i = 1 /\ Depth(s) = 1
              /\ s.stack[i].fn \in {"yield", "goyield"}
           \/ s.frameExt[i] \in Threads /\ i = Depth(s) /\ s.stack[i].fn = "resume"

\* A thread that has yielded: unlinked, alive, with frames to go on with.
Suspended(s) ==
    s.yieldState # "none" =>
        /\ s.Parent = NoThread /\ ~s.Dead /\ Depth(s) > 0
        /\ LastIsG(s) => HasContinuation(s)

\* A dead thread: nothing of it is pending.
Buried(s) ==
    s.Dead => /\ s.yieldState = "none" /\ s.yieldCont = 0
              /\ \A i \in 1..MaxDepth : s.frameExt[i] = "none"

\* What holds of each thread's state on its own.
WF(s) ==
    /\ s \in LStates /\ Depth(s) <= MaxDepth
    /\ ~s.Dead => Stacked(s) /\ Slotted(s) /\ Extended(s)
    /\ Suspended(s) /\ Buried(s)
    /\ s.started => Depth(s) > 0
    /\ s.wrapped => "wrap" \in Uses

\* The thread has given control back to its resumer.
Gone(s) == s.Parent = NoThread /\ (s.yieldState # "none" \/ s.Dead)

-----------------------------------------------------------------------------
(* The Go stack.                                                           *)

\* Two neighbours on the Go stack: a threadRun is called by a resume of its
\* thread, and every other activation by one of the same thread.
Joined(a, b) ==
    /\ b.k # "call"
    /\ b.k = "run" => a.k = "resume" /\ a.th = b.t
    /\ b.k # "run" => a.k # "resume" /\ a.t = b.t

\* The bottom is called by the host; a resume always has its threadRun above it.
Ends(g) == g # <<>> => g[1].k \in {"run", "call"} /\ g[Len(g)].k # "resume"

\* Each activation was called by the one below it.
Stepwise(g) == \A j \in 1..Len(g) : j > 1 => Joined(g[j - 1], g[j])

\* The host's PCall runs on the main thread, a threadRun on any other.
Owned(g) ==
    \A j \in 1..Len(g) : /\ g[j].k = "call" => g[j].t = Main /\ g[j].at = 0
                         /\ g[j].k = "run" => g[j].t # Main

\* An activation is of another thread than the resumes below it, and nested
\* activations of one thread own disjoint ranges of its frames.
Apart(g) ==
    \A i, j \in 1..Len(g) : i < j =>
        /\ g[i].k = "resume" => g[i].t # g[j].t
        /\ g[j].k = "run" => g[i].t # g[j].t
        /\ g[i].t = g[j].t => baseframe(g[i]) <= g[j].at

\* Each activation of a thread lies above the threadRun or PCall it came with.
Rooted(g) ==
    \A j \in 1..Len(g) : \E i \in 1..Len(g) :
        i <= j /\ g[i].t = g[j].t /\ g[i].k \in {"run", "call"}

\* The Go stack on its own.
Shape(g) ==
    g \in Seq(Activations) /\ Ends(g) /\ Stepwise(g) /\ Owned(g) /\ Apart(g) /\ Rooted(g)

\* The thread has the frame that the activation is about to work on.
Poised(a, s) ==
    LET n == Depth(s) IN
    /\ n > 0 /\ n >= baseframe(a)
    /\ a.ph = "exec" => s.stack[n].fn = "lua"
    /\ a.ph = "invoke" =>
         /\ s.stack[n].fn # "lua"
         /\ a.mode \in {"call", "tail"} =>
              n > 1 /\ n > baseframe(a) /\ s.stack[n - 1].fn = "lua"
         /\ a.mode = "tail" => s.stack[n].fn # "pcall" /\ s.stack[n - 1].op = "none"
         /\ a.mode = "ret" => s.stack[n].fn = "pcall" /\ n > baseframe(a)
    /\ a.ph = "enter" \/ (a.ph = "invoke" /\ a.mode = "start") =>
         baseframe(a) \in {0, n}
    /\ a.ph = "enter" \/ (a.ph = "invoke" /\ a.mode \in {"start", "ret"}) =>
         (s.stack[n].fn = "pcall" => s.frameExt[n] = "pcall")

\* The activation a that called b waits in the state in which it called it, and
\* b's frame is still on the thread's stack.
Holds(a, b, s) ==
    /\ b.k = "meta" => /\ a.ph = "exec" /\ b.at \in 1..Depth(s)
                       /\ s.stack[b.at].op = "call"
    /\ b.k = "pcall" => /\ a.ph = "invoke" /\ a.mode = "call"
                        /\ b.at \in 1..Depth(s) /\ b.at > 1 /\ b.at > baseframe(a)
                        /\ s.stack[b.at].fn = "pcall"
    /\ b.k = "resume" => /\ a.ph = "invoke" /\ b.at = Depth(s) /\ Poised(a, s)
                         /\ s.stack[Depth(s)].fn = "resume"
                         /\ s.frameExt[Depth(s)] = "none"

\* Every caller on the Go stack waits for its callee.
Held(ts, g) == \A j \in 1..Len(g) : j > 1 => Holds(g[j - 1], g[j], ts[g[j].t])

\* The thread that resumed the j-th activation's; the host acts as Main.
Resumer(g, j) == IF j = 1 THEN Main ELSE g[j - 1].t

\* Every threadRun's thread has its resumer as Parent, until it gives back.
Parents(ts, g, sg) ==
    \A j \in 1..Len(g) : g[j].k = "run" =>
        \/ /\ ts[g[j].t].Parent = Resumer(g, j)
           /\ ~ts[g[j].t].Dead /\ ts[g[j].t].yieldState = "none"
        \/ sg = "return" /\ g[j].t = TopGo(g).t /\ Gone(ts[g[j].t])

\* What the activation on top is about to do, or has just returned with.
Top(ts, g, sg) ==
    /\ g = <<>> => sg = "none"
    /\ g # <<>> /\ sg = "none" => Poised(TopGo(g), ts[TopGo(g).t])
    /\ g # <<>> /\ sg = "return" =>
         /\ TopGo(g).k = "run" => Gone(ts[TopGo(g).t])
         /\ TopGo(g).k \in {"meta", "pcall"} =>
              /\ ~ts[TopGo(g).t].Dead
              /\ ts[TopGo(g).t].yieldState = "none" => Depth(ts[TopGo(g).t]) = TopGo(g).at

\* G.CurrentThread was left on a thread that an error killed.
Zombie(ts, cur) == "wrap" \in Uses /\ ts[cur].Dead

\* G.CurrentThread follows the top of the Go stack, zombies aside.
Current(ts, cur, g, sg) ==
    /\ cur \in Threads
    /\ g = <<>> => cur = Main \/ Zombie(ts, cur)
    /\ g # <<>> =>
         IF sg = "return" /\ Gone(ts[TopGo(g).t])
         THEN \A j \in 1..Len(g) : g[j].k = "run" /\ g[j].t = TopGo(g).t => cur = Resumer(g, j)
         ELSE cur = TopGo(g).t \/ Zombie(ts, cur)

\* No activation is of thread t.
OffGo(g, t) == \A j \in 1..Len(g) : g[j].t # t

\* The threads off the Go stack can be resumed, Main is never one of them, and
\* a thread the host resumed has been started.
Rested(ts, g) ==
    /\ \A t \in Threads : OffGo(g, t) /\ ~ts[t].Dead /\ Depth(ts[t]) > 0 =>
         /\ t # Main
         /\ ts[t].stack[Depth(ts[t])].fn = "pcall" => ts[t].frameExt[Depth(ts[t])] = "pcall"
    /\ ts[Main].Parent = NoThread /\ ~ts[Main].Dead /\ ts[Main].yieldState = "none"
    /\ \A t \in Threads \ LuaThreads : ~ts[t].Dead /\ Depth(ts[t]) > 0 => ts[t].started

\* A coroutine whose system yield a resume passes on is off the Go stack, still
\* suspended, and awaited by that resume alone.
Awaits(ts, g) ==
    \A t \in Threads, i \in 1..MaxDepth :
      LET c == ts[t].frameExt[i] IN
      c \in Threads =>
        /\ c # Main /\ ts[c].yieldState = "system" /\ OffGo(g, c)
        /\ \A u \in Threads, j \in 1..MaxDepth : ts[u].frameExt[j] = c => u = t /\ j = i

\* The inductive invariant, of a state given by its four parts: steps that do
\* several things are proved through intermediate states.
Good(ts, cur, g, sg) ==
    /\ ts \in [Threads -> LStates] /\ \A t \in Threads : WF(ts[t])
    /\ sg \in {"none", "return", "panic"}
    /\ Shape(g) /\ Held(ts, g) /\ Parents(ts, g, sg) /\ Top(ts, g, sg)
    /\ Current(ts, cur, g, sg) /\ Rested(ts, g) /\ Awaits(ts, g)

-----------------------------------------------------------------------------
(* What the operations on one thread's state do.                           *)

\* The types of a thread's fields.
LEMMA StateIs ==
    ASSUME NEW s \in LStates
    PROVE  /\ s.stack \in Seq(Frames) /\ Depth(s) \in Nat
           /\ \A i \in 1..Depth(s) :
                /\ s.stack[i].fn \in Fns /\ s.stack[i].Protected \in BOOLEAN
                /\ s.stack[i].op \in {"none", "call", "redo"}
           /\ s.frameExt \in [1..MaxDepth -> Continuations]
           /\ s.yieldCont \in 0..MaxDepth /\ s.yieldContRB \in 0..MaxDepth + 1
           /\ s.yieldState \in {"none", "system", "user"}
           /\ s.Parent \in Threads \cup {NoThread}
           /\ s.Dead \in BOOLEAN /\ s.wrapped \in BOOLEAN /\ s.started \in BOOLEAN
  <1>1. s.stack \in Seq(Frames) /\ Depth(s) \in Nat
    BY DEF LStates, Depth
  <1>2. \A i \in 1..Depth(s) : s.stack[i] \in Frames
    BY <1>1 DEF Depth
  <1> QED
    BY <1>1, <1>2 DEF LStates, Frames

\* Two states that differ in frames, extensions and started only.
SameRest(s, s2) ==
    /\ s2.yieldCont = s.yieldCont /\ s2.yieldContRB = s.yieldContRB
    /\ s2.yieldState = s.yieldState /\ s2.Parent = s.Parent
    /\ s2.Dead = s.Dead /\ s2.wrapped = s.wrapped

\* pushFrame adds one frame and changes nothing else.
LEMMA PushIs ==
    ASSUME NEW s \in LStates, NEW fn \in Fns
    PROVE  LET p == pushFrame(s, fn) IN
           /\ p \in LStates /\ Depth(p) = Depth(s) + 1
           /\ \A i \in 1..Depth(s) : p.stack[i] = s.stack[i]
           /\ p.stack[Depth(s) + 1] = Frame(fn)
           /\ p.frameExt = s.frameExt /\ p.started = s.started /\ SameRest(s, p)
  <1> DEFINE p == pushFrame(s, fn)
             q == Append(s.stack, Frame(fn))
  <1>1. s.stack \in Seq(Frames)
    BY StateIs
  <1>2. Frame(fn) \in Frames
    BY DEF Frame, Frames
  <1>3. q \in Seq(Frames) /\ Len(q) = Len(s.stack) + 1
        /\ (\A i \in 1..Len(s.stack) : q[i] = s.stack[i]) /\ q[Len(s.stack) + 1] = Frame(fn)
    BY <1>1, <1>2
  <1>4. p = [s EXCEPT !.stack = q]
    BY DEF pushFrame
  <1> HIDE DEF q
  <1>5. p \in LStates /\ p.stack = q /\ p.frameExt = s.frameExt /\ p.started = s.started
        /\ SameRest(s, p)
    BY <1>3, <1>4 DEF LStates, SameRest
  <1> HIDE DEF p
  <1>6. Depth(p) = Depth(s) + 1
    BY <1>3, <1>5 DEF Depth
  <1> QED
    BY <1>3, <1>5, <1>6 DEF Depth, p

\* popFrame removes the top frame and its extension.
LEMMA PopIs ==
    ASSUME NEW s \in LStates, Depth(s) > 0, Depth(s) <= MaxDepth
    PROVE  LET p == popFrame(s) IN
           /\ p \in LStates /\ Depth(p) = Depth(s) - 1
           /\ \A i \in 1..Depth(p) : p.stack[i] = s.stack[i]
           /\ p.frameExt[Depth(s)] = "none"
           /\ \A i \in 1..MaxDepth : i # Depth(s) => p.frameExt[i] = s.frameExt[i]
           /\ (p.started <=> Depth(s) > 1) /\ SameRest(s, p)
  <1> DEFINE p == popFrame(s)
             n == Depth(s)
             q == SubSeq(s.stack, 1, n - 1)
             e == [s.frameExt EXCEPT ![n] = "none"]
             b == n > 1
  <1>1. s.stack \in Seq(Frames) /\ n = Len(s.stack) /\ n \in Nat /\ MaxDepth \in Nat
        /\ s.frameExt \in [1..MaxDepth -> Continuations]
    BY StateIs, DepthAssumption DEF Depth
  <1>2. n - 1 \in Nat /\ n - 1 <= Len(s.stack) /\ n > 0 /\ n <= MaxDepth
    BY <1>1
  <1>3. p = [s EXCEPT !.stack = q, !.frameExt = e, !.started = b] /\ b \in BOOLEAN
    BY DEF popFrame
  <1> HIDE DEF n
  <1>4. q \in Seq(Frames) /\ Len(q) = n - 1 /\ \A i \in 1..n - 1 : q[i] = s.stack[i]
    BY <1>1, <1>2
  <1>5. e \in [1..MaxDepth -> Continuations] /\ e[n] = "none"
        /\ \A i \in 1..MaxDepth : i # n => e[i] = s.frameExt[i]
    BY <1>1, <1>2 DEF Continuations
  <1> HIDE DEF q, e, b
  <1>6. p \in LStates /\ p.stack = q /\ p.frameExt = e /\ p.started = b /\ SameRest(s, p)
    BY <1>3, <1>4, <1>5 DEF LStates, SameRest
  <1> HIDE DEF p
  <1>7. Depth(p) = n - 1
    BY <1>4, <1>6 DEF Depth
  <1> QED
    BY <1>4, <1>5, <1>6, <1>7 DEF p, n, b

\* unwindCallFrames cuts the frames above sp, their extensions and a slot that
\* one of them owned.
LEMMA UnwindIs ==
    ASSUME NEW s \in LStates, NEW sp \in Nat, sp <= Depth(s)
    PROVE  LET u == unwindCallFrames(s, sp) IN
           /\ u \in LStates /\ Depth(u) = sp
           /\ \A i \in 1..sp : u.stack[i] = s.stack[i]
           /\ \A i \in 1..MaxDepth : u.frameExt[i] = IF i \in sp + 1..Depth(s) THEN "none"
                                                                     ELSE s.frameExt[i]
           /\ u.yieldCont = IF s.yieldCont > sp THEN 0 ELSE s.yieldCont
           /\ u.yieldContRB = IF s.yieldCont > sp THEN 0 ELSE s.yieldContRB
           /\ u.yieldState = s.yieldState /\ u.Parent = s.Parent /\ u.Dead = s.Dead
           /\ u.wrapped = s.wrapped /\ (u.started <=> sp > 0)
  <1> DEFINE u == unwindCallFrames(s, sp)
             n == Depth(s)
             q == SubSeq(s.stack, 1, sp)
             e == [i \in 1..MaxDepth |-> IF i \in sp + 1..n THEN "none" ELSE s.frameExt[i]]
             c == IF s.yieldCont > sp THEN 0 ELSE s.yieldCont
             r == IF s.yieldCont > sp THEN 0 ELSE s.yieldContRB
             b == sp > 0
  <1>1. s.stack \in Seq(Frames) /\ n = Len(s.stack) /\ n \in Nat /\ sp <= n /\ MaxDepth \in Nat
        /\ s.frameExt \in [1..MaxDepth -> Continuations]
        /\ s.yieldCont \in 0..MaxDepth /\ s.yieldContRB \in 0..MaxDepth + 1
    BY StateIs, DepthAssumption DEF Depth
  <1>3. u = [s EXCEPT !.stack = q, !.frameExt = e, !.yieldCont = c, !.yieldContRB = r,
                      !.started = b]
        /\ b \in BOOLEAN
    BY DEF unwindCallFrames
  <1> HIDE DEF n
  <1>4. q \in Seq(Frames) /\ Len(q) = sp /\ \A i \in 1..sp : q[i] = s.stack[i]
    BY <1>1
  <1>5. e \in [1..MaxDepth -> Continuations]
        /\ \A i \in 1..MaxDepth : e[i] = IF i \in sp + 1..n THEN "none" ELSE s.frameExt[i]
    BY <1>1 DEF Continuations
  <1>6. c \in 0..MaxDepth /\ r \in 0..MaxDepth + 1
    BY <1>1
  <1> HIDE DEF q, e
  <1>7. u \in LStates /\ u.stack = q /\ u.frameExt = e /\ u.started = b
        /\ u.yieldCont = c /\ u.yieldContRB = r
        /\ u.yieldState = s.yieldState /\ u.Parent = s.Parent /\ u.Dead = s.Dead
        /\ u.wrapped = s.wrapped
    <2> HIDE DEF c, r, b
    <2> QED
      BY <1>3, <1>4, <1>5, <1>6 DEF LStates
  <1> HIDE DEF u
  <1>8. Depth(u) = sp
    BY <1>4, <1>7 DEF Depth
  <1> QED
    BY <1>4, <1>5, <1>7, <1>8 DEF u, n, b

\* removeCallerFrame moves the top frame, with its extension, onto its caller.
LEMMA RemoveIs ==
    ASSUME NEW s \in LStates, Depth(s) > 1, Depth(s) <= MaxDepth
    PROVE  LET r == removeCallerFrame(s)
               n == Depth(s)
           IN /\ r \in LStates /\ Depth(r) = n - 1
              /\ \A i \in 1..n - 2 : r.stack[i] = s.stack[i]
              /\ r.stack[n - 1] = s.stack[n]
              /\ r.frameExt[n - 1] = s.frameExt[n] /\ r.frameExt[n] = "none"
              /\ \A i \in 1..MaxDepth : i # n /\ i # n - 1 => r.frameExt[i] = s.frameExt[i]
              /\ r.started = s.started /\ SameRest(s, r)
  <1> DEFINE r == removeCallerFrame(s)
             n == Depth(s)
             q == Append(SubSeq(s.stack, 1, n - 2), s.stack[n])
             d == [s.frameExt EXCEPT ![n - 1] = s.frameExt[n]]
             e == [d EXCEPT ![n] = "none"]
  <1>1. s.stack \in Seq(Frames) /\ n = Len(s.stack) /\ n \in Nat /\ MaxDepth \in Nat
        /\ s.frameExt \in [1..MaxDepth -> Continuations]
    BY StateIs, DepthAssumption DEF Depth
  <1>2. n - 2 \in Nat /\ n - 2 <= Len(s.stack) /\ n > 1 /\ n <= MaxDepth
    BY <1>1
  <1>3. r = [s EXCEPT !.stack = q, !.frameExt = e]
    BY DEF removeCallerFrame
  <1> HIDE DEF n
  <1>4. q \in Seq(Frames) /\ Len(q) = n - 1 /\ (\A i \in 1..n - 2 : q[i] = s.stack[i])
        /\ q[n - 1] = s.stack[n]
    <2> DEFINE f == SubSeq(s.stack, 1, n - 2)
               x == s.stack[n]
    <2>1. f \in Seq(Frames) /\ Len(f) = n - 2 /\ \A i \in 1..n - 2 : f[i] = s.stack[i]
      BY <1>1, <1>2
    <2>2. x \in Frames
      BY <1>1, <1>2
    <2>3. q = Append(f, x)
      OBVIOUS
    <2> HIDE DEF f, x
    <2>4. Append(f, x) \in Seq(Frames) /\ Len(Append(f, x)) = Len(f) + 1
          /\ (\A i \in 1..Len(f) : Append(f, x)[i] = f[i]) /\ Append(f, x)[Len(f) + 1] = x
      BY <2>1, <2>2
    <2> HIDE DEF q
    <2> QED
      BY <2>1, <2>2, <2>3, <2>4, <1>1, <1>2 DEF x
  <1>5. e \in [1..MaxDepth -> Continuations] /\ e[n] = "none" /\ e[n - 1] = s.frameExt[n]
        /\ \A i \in 1..MaxDepth : i # n /\ i # n - 1 => e[i] = s.frameExt[i]
    <2>1. d \in [1..MaxDepth -> Continuations] /\ d[n - 1] = s.frameExt[n]
          /\ \A i \in 1..MaxDepth : i # n - 1 => d[i] = s.frameExt[i]
      BY <1>1, <1>2
    <2> HIDE DEF d
    <2> QED
      BY <2>1, <1>1, <1>2 DEF Continuations
  <1> HIDE DEF q, e
  <1>6. r \in LStates /\ r.stack = q /\ r.frameExt = e /\ r.started = s.started /\ SameRest(s, r)
    BY <1>3, <1>4, <1>5 DEF LStates, SameRest
  <1> HIDE DEF r
  <1>7. Depth(r) = n - 1
    BY <1>4, <1>6 DEF Depth
  <1> QED
    BY <1>4, <1>5, <1>6, <1>7 DEF r, n

\* kill clears all pending work and keeps the frames.
LEMMA KillIs ==
    ASSUME NEW s \in LStates
    PROVE  LET k == kill(s) IN
           /\ k \in LStates /\ k.stack = s.stack /\ Depth(k) = Depth(s)
           /\ k.yieldCont = 0 /\ k.yieldContRB = 0 /\ k.yieldState = "none" /\ k.Dead
           /\ \A i \in 1..MaxDepth : k.frameExt[i] = "none"
           /\ k.Parent = s.Parent /\ k.wrapped = s.wrapped /\ k.started = s.started
  <1> DEFINE e == [i \in 1..MaxDepth |-> "none"]
             k == kill(s)
  <1>1. e \in [1..MaxDepth -> Continuations] /\ \A i \in 1..MaxDepth : e[i] = "none"
    BY DEF Continuations
  <1>2. k = [s EXCEPT !.yieldCont = 0, !.yieldContRB = 0, !.yieldState = "none",
                      !.frameExt = e, !.Dead = TRUE]
    BY DEF kill
  <1>3. 0 \in 0..MaxDepth /\ 0 \in 0..MaxDepth + 1
    BY DepthAssumption
  <1> HIDE DEF e
  <1>4. k \in LStates /\ k.stack = s.stack /\ k.frameExt = e
           /\ k.yieldCont = 0 /\ k.yieldContRB = 0 /\ k.yieldState = "none" /\ k.Dead
           /\ k.Parent = s.Parent /\ k.wrapped = s.wrapped /\ k.started = s.started
    BY <1>1, <1>2, <1>3 DEF LStates
  <1> QED
    BY <1>1, <1>4 DEF Depth

-----------------------------------------------------------------------------
(* They keep a thread's state consistent.                                  *)

\* The bounds of a well-formed thread's depth.
LEMMA WFIs ==
    ASSUME NEW s, WF(s)
    PROVE  s \in LStates /\ Depth(s) \in Nat /\ Depth(s) <= MaxDepth /\ MaxDepth \in Nat
  BY StateIs, DepthAssumption DEF WF

\* A frame is pushed on Lua code or on a pcall that is armed.
LEMMA WFPush ==
    ASSUME NEW s, WF(s), ~s.Dead, s.yieldState = "none", Depth(s) < MaxDepth,
           NEW fn \in Fns,
           Depth(s) > 0 => s.stack[Depth(s)].fn \in {"lua", "pcall"},
           Depth(s) > 0 /\ s.stack[Depth(s)].fn = "pcall" =>
               s.stack[Depth(s)].Protected /\ s.frameExt[Depth(s)] = "pcall",
           fn = "pcall" => /\ Depth(s) > 0 /\ s.stack[Depth(s)].fn = "lua"
                           /\ \A i \in 1..Depth(s) : s.stack[i].op = "none"
    PROVE  WF(pushFrame(s, fn))
  <1> DEFINE p == pushFrame(s, fn)
             n == Depth(s)
  <1>1. s \in LStates /\ n \in Nat /\ n < MaxDepth /\ MaxDepth \in Nat
    BY WFIs
  <1>2. Stacked(s) /\ Slotted(s) /\ Extended(s) /\ (s.wrapped => "wrap" \in Uses)
        /\ (s.started => n > 0)
    BY DEF WF
  <1>3. /\ p \in LStates /\ Depth(p) = n + 1
        /\ \A i \in 1..n : p.stack[i] = s.stack[i]
        /\ p.stack[n + 1] = Frame(fn)
        /\ p.frameExt = s.frameExt /\ p.started = s.started /\ SameRest(s, p)
    BY <1>1, PushIs
  <1>4. Frame(fn).fn = fn /\ Frame(fn).Protected = FALSE /\ Frame(fn).op = "none"
    BY DEF Frame
  <1>5. n > 0 => s.stack[n].fn \in {"lua", "pcall"}
    OBVIOUS
  <1>6. n > 0 /\ s.stack[n].fn = "pcall" => s.stack[n].Protected /\ s.frameExt[n] = "pcall"
    OBVIOUS
  <1>7. fn = "pcall" => n > 0 /\ s.stack[n].fn = "lua" /\ \A i \in 1..n : s.stack[i].op = "none"
    OBVIOUS
  <1> HIDE DEF p, n
  <1>8. Stacked(p)
    <2>1. \A i \in 1..n + 1 :
            /\ p.stack[i].fn = "pcall" => i > 1 /\ p.stack[i - 1].fn = "lua"
            /\ p.stack[i].Protected => p.stack[i].fn = "pcall"
            /\ p.stack[i].op # "none" => p.stack[i].fn = "lua"
      <3> SUFFICES ASSUME NEW i \in 1..n + 1
                   PROVE  /\ p.stack[i].fn = "pcall" => i > 1 /\ p.stack[i - 1].fn = "lua"
                          /\ p.stack[i].Protected => p.stack[i].fn = "pcall"
                          /\ p.stack[i].op # "none" => p.stack[i].fn = "lua"
        OBVIOUS
      <3>1. CASE i = n + 1
        BY <3>1, <1>1, <1>3, <1>4, <1>7
      <3>2. CASE i \in 1..n
        BY <3>2, <1>1, <1>2, <1>3 DEF Stacked, n
      <3> QED
        BY <3>1, <3>2, <1>1
    <2>2. \A i \in 1..n + 1 : i < n + 1 => p.stack[i].fn \in {"lua", "pcall"}
      BY <1>1, <1>2, <1>3, <1>5 DEF Stacked, n
    <2>3. \A i \in 1..n + 1 : i < n + 1 /\ p.stack[i].fn = "pcall" =>
            p.stack[i].Protected /\ p.frameExt[i] = "pcall"
      BY <1>1, <1>2, <1>3, <1>6 DEF Stacked, n
    <2> QED
      BY <2>1, <2>2, <2>3, <1>3 DEF Stacked
  <1>9. Slotted(p)
    <2>1. \A i \in 1..n + 1 : p.stack[i].op # "none" => i \in 1..n
      BY <1>1, <1>3, <1>4
    <2>2. \A i \in 1..n + 1 : p.stack[i].op = "redo" => p.yieldCont = i
      BY <2>1, <1>2, <1>3 DEF Slotted, SameRest, n
    <2>3. \A i, j \in 1..n + 1 : p.stack[i].op # "none" =>
            (p.stack[j].op # "none" => i = j) /\ p.stack[j].fn # "pcall"
      BY <2>1, <1>1, <1>2, <1>3, <1>4, <1>7 DEF Slotted, n
    <2>4. p.yieldCont # 0 => /\ p.yieldCont <= n + 1 /\ p.stack[p.yieldCont].op = "redo"
                             /\ p.yieldContRB = p.yieldCont + 1
      <3> SUFFICES ASSUME p.yieldCont # 0
                   PROVE  /\ p.yieldCont <= n + 1 /\ p.stack[p.yieldCont].op = "redo"
                          /\ p.yieldContRB = p.yieldCont + 1
        OBVIOUS
      <3>1. s.yieldCont \in 1..n /\ s.stack[s.yieldCont].op = "redo"
            /\ s.yieldContRB = s.yieldCont + 1
        BY <1>1, <1>2, <1>3, StateIs DEF Slotted, SameRest, n
      <3> QED
        BY <3>1, <1>1, <1>3 DEF SameRest
    <2> QED
      BY <2>2, <2>3, <2>4, <1>3 DEF Slotted
  <1>10. Extended(p)
    <2> SUFFICES ASSUME NEW i \in 1..MaxDepth, p.frameExt[i] # "none"
                 PROVE  /\ i <= n + 1
                        /\ p.frameExt[i] = "pcall" /\ p.stack[i].fn = "pcall"
      BY <1>3 DEF Extended
    <2>1. s.frameExt[i] # "none" /\ i <= n
          /\ \/ s.frameExt[i] = "pcall" /\ s.stack[i].fn = "pcall"
             \/ s.frameExt[i] = "sole" /\ i = 1 /\ n = 1
                /\ s.stack[i].fn \in {"yield", "goyield"}
             \/ s.frameExt[i] \in Threads /\ i = n /\ s.stack[i].fn = "resume"
      BY <1>2, <1>3 DEF Extended, n
    <2> QED
      BY <2>1, <1>1, <1>3, <1>5
  <1>11. p.Dead = s.Dead /\ p.yieldState = "none" /\ p.wrapped = s.wrapped
    BY <1>3 DEF SameRest
  <1> HIDE DEF p
  <1>12. Depth(p) <= MaxDepth /\ Depth(p) > 0
    BY <1>1, <1>3
  <1> QED
    BY <1>2, <1>3, <1>8, <1>9, <1>10, <1>11, <1>12 DEF WF, Suspended, Buried, p

\* The top frame can be popped unless it owns the yieldCont slot.
LEMMA WFPop ==
    ASSUME NEW s, WF(s), ~s.Dead, s.yieldState = "none", Depth(s) > 0,
           s.stack[Depth(s)].op = "none"
    PROVE  WF(popFrame(s))
  <1> DEFINE p == popFrame(s)
             n == Depth(s)
  <1>1. s \in LStates /\ n \in Nat /\ n > 0 /\ n <= MaxDepth /\ MaxDepth \in Nat
    BY WFIs
  <1>2. Stacked(s) /\ Slotted(s) /\ Extended(s) /\ (s.wrapped => "wrap" \in Uses)
    BY DEF WF
  <1>3. /\ p \in LStates /\ Depth(p) = n - 1
        /\ \A i \in 1..n - 1 : p.stack[i] = s.stack[i]
        /\ p.frameExt[n] = "none"
        /\ \A i \in 1..MaxDepth : i # n => p.frameExt[i] = s.frameExt[i]
        /\ (p.started <=> n > 1) /\ SameRest(s, p)
    BY <1>1, PopIs
  <1>4. s.stack[n].op = "none"
    OBVIOUS
  <1> HIDE DEF p, n
  <1>5. Stacked(p)
    <2>1. \A i \in 1..n - 1 :
            /\ p.stack[i].fn = "pcall" => i > 1 /\ p.stack[i - 1].fn = "lua"
            /\ p.stack[i].Protected => p.stack[i].fn = "pcall"
            /\ p.stack[i].op # "none" => p.stack[i].fn = "lua"
      BY <1>1, <1>2, <1>3 DEF Stacked, n
    <2>2. \A i \in 1..n - 1 : p.stack[i].fn \in {"lua", "pcall"}
      BY <1>1, <1>2, <1>3 DEF Stacked, n
    <2>3. \A i \in 1..n - 1 : p.stack[i].fn = "pcall" =>
            p.stack[i].Protected /\ p.frameExt[i] = "pcall"
      BY <1>1, <1>2, <1>3 DEF Stacked, n
    <2> QED
      BY <2>1, <2>2, <2>3, <1>3 DEF Stacked
  <1>6. Slotted(p)
    <2>1. \A i \in 1..n - 1 : i \in 1..n /\ p.stack[i] = s.stack[i]
      BY <1>1, <1>3
    <2>2. \A i \in 1..n - 1 : p.stack[i].op = "redo" => p.yieldCont = i
      BY <2>1, <1>2, <1>3 DEF Slotted, SameRest, n
    <2>3. \A i, j \in 1..n - 1 : p.stack[i].op # "none" =>
            (p.stack[j].op # "none" => i = j) /\ p.stack[j].fn # "pcall"
      BY <2>1, <1>2 DEF Slotted, n
    <2>4. p.yieldCont # 0 => /\ p.yieldCont <= n - 1 /\ p.stack[p.yieldCont].op = "redo"
                             /\ p.yieldContRB = p.yieldCont + 1
      <3> SUFFICES ASSUME p.yieldCont # 0
                   PROVE  /\ p.yieldCont <= n - 1 /\ p.stack[p.yieldCont].op = "redo"
                          /\ p.yieldContRB = p.yieldCont + 1
        OBVIOUS
      <3>1. s.yieldCont \in 1..n /\ s.stack[s.yieldCont].op = "redo"
            /\ s.yieldContRB = s.yieldCont + 1
        BY <1>1, <1>2, <1>3, StateIs DEF Slotted, SameRest, n
      <3> QED
        BY <3>1, <1>1, <1>3, <1>4 DEF SameRest
    <2> QED
      BY <2>2, <2>3, <2>4, <1>3 DEF Slotted
  <1>7. Extended(p)
    <2> SUFFICES ASSUME NEW i \in 1..MaxDepth, p.frameExt[i] # "none"
                 PROVE  /\ i <= n - 1
                        /\ p.frameExt[i] = "pcall" /\ p.stack[i].fn = "pcall"
      BY <1>3 DEF Extended
    <2>1. s.frameExt[i] # "none" /\ i <= n /\ i # n
          /\ \/ s.frameExt[i] = "pcall" /\ s.stack[i].fn = "pcall"
             \/ s.frameExt[i] = "sole" /\ i = 1 /\ n = 1
                /\ s.stack[i].fn \in {"yield", "goyield"}
             \/ s.frameExt[i] \in Threads /\ i = n /\ s.stack[i].fn = "resume"
      BY <1>2, <1>3 DEF Extended, n
    <2> QED
      BY <2>1, <1>1, <1>3
  <1>8. p.Dead = s.Dead /\ p.yieldState = "none" /\ p.wrapped = s.wrapped
    BY <1>3 DEF SameRest
  <1>9. Depth(p) <= MaxDepth /\ (p.started => Depth(p) > 0)
    BY <1>1, <1>3
  <1>10. WF(p)
    BY <1>2, <1>3, <1>5, <1>6, <1>7, <1>8, <1>9 DEF WF, Suspended, Buried
  <1> QED
    BY <1>10 DEF p

\* A running thread may be unwound to any height.
LEMMA WFUnwind ==
    ASSUME NEW s, WF(s), ~s.Dead, s.yieldState = "none", NEW sp \in Nat, sp <= Depth(s)
    PROVE  WF(unwindCallFrames(s, sp))
  <1> DEFINE p == unwindCallFrames(s, sp)
             n == Depth(s)
  <1>1. s \in LStates /\ n \in Nat /\ n <= MaxDepth /\ MaxDepth \in Nat /\ sp <= n
    BY WFIs
  <1>2. Stacked(s) /\ Slotted(s) /\ Extended(s) /\ (s.wrapped => "wrap" \in Uses)
    BY DEF WF
  <1>3. /\ p \in LStates /\ Depth(p) = sp
        /\ \A i \in 1..sp : p.stack[i] = s.stack[i]
        /\ \A i \in 1..MaxDepth : p.frameExt[i] = IF i \in sp + 1..n THEN "none"
                                                                  ELSE s.frameExt[i]
        /\ p.yieldCont = IF s.yieldCont > sp THEN 0 ELSE s.yieldCont
        /\ p.yieldContRB = IF s.yieldCont > sp THEN 0 ELSE s.yieldContRB
        /\ p.yieldState = s.yieldState /\ p.Parent = s.Parent /\ p.Dead = s.Dead
        /\ p.wrapped = s.wrapped /\ (p.started <=> sp > 0)
    BY <1>1, UnwindIs
  <1> HIDE DEF p, n
  <1>4. \A i \in 1..sp : i \in 1..n /\ i \in 1..MaxDepth /\ p.stack[i] = s.stack[i]
                         /\ p.frameExt[i] = s.frameExt[i]
    BY <1>1, <1>3
  <1>5. Stacked(p)
    <2>1. \A i \in 1..sp :
            /\ p.stack[i].fn = "pcall" => i > 1 /\ p.stack[i - 1].fn = "lua"
            /\ p.stack[i].Protected => p.stack[i].fn = "pcall"
            /\ p.stack[i].op # "none" => p.stack[i].fn = "lua"
      BY <1>1, <1>2, <1>4 DEF Stacked, n
    <2>2. \A i \in 1..sp : i < sp => p.stack[i].fn \in {"lua", "pcall"}
      BY <1>1, <1>2, <1>4 DEF Stacked, n
    <2>3. \A i \in 1..sp : i < sp /\ p.stack[i].fn = "pcall" =>
            p.stack[i].Protected /\ p.frameExt[i] = "pcall"
      BY <1>1, <1>2, <1>4 DEF Stacked, n
    <2> QED
      BY <2>1, <2>2, <2>3, <1>3 DEF Stacked
  <1>6. Slotted(p)
    <2>2. \A i \in 1..sp : p.stack[i].op = "redo" => p.yieldCont = i
      BY <1>1, <1>4, <1>2, <1>3 DEF Slotted, n
    <2>3. \A i, j \in 1..sp : p.stack[i].op # "none" =>
            (p.stack[j].op # "none" => i = j) /\ p.stack[j].fn # "pcall"
      BY <1>4, <1>2 DEF Slotted, n
    <2>4. p.yieldCont # 0 => /\ p.yieldCont <= sp /\ p.stack[p.yieldCont].op = "redo"
                             /\ p.yieldContRB = p.yieldCont + 1
      <3> SUFFICES ASSUME p.yieldCont # 0
                   PROVE  /\ p.yieldCont <= sp /\ p.stack[p.yieldCont].op = "redo"
                          /\ p.yieldContRB = p.yieldCont + 1
        OBVIOUS
      <3>1. s.yieldCont \in 1..n /\ s.stack[s.yieldCont].op = "redo"
            /\ s.yieldContRB = s.yieldCont + 1 /\ ~(s.yieldCont > sp)
        BY <1>1, <1>2, <1>3, StateIs DEF Slotted, n
      <3> QED
        BY <3>1, <1>1, <1>3, <1>4
    <2> QED
      BY <2>2, <2>3, <2>4, <1>3 DEF Slotted
  <1>7. Extended(p)
    <2> SUFFICES ASSUME NEW i \in 1..MaxDepth, p.frameExt[i] # "none"
                 PROVE  /\ i <= sp
                        /\ \/ p.frameExt[i] = "pcall" /\ p.stack[i].fn = "pcall"
                           \/ p.frameExt[i] = "sole" /\ i = 1 /\ sp = 1
                              /\ p.stack[i].fn \in {"yield", "goyield"}
                           \/ p.frameExt[i] \in Threads /\ i = sp /\ p.stack[i].fn = "resume"
      BY <1>3 DEF Extended
    <2>1. s.frameExt[i] # "none" /\ p.frameExt[i] = s.frameExt[i] /\ i <= n /\ i <= sp
      BY <1>1, <1>2, <1>3 DEF Extended, n
    <2>2. \/ s.frameExt[i] = "pcall" /\ s.stack[i].fn = "pcall"
          \/ s.frameExt[i] = "sole" /\ i = 1 /\ n = 1
                /\ s.stack[i].fn \in {"yield", "goyield"}
          \/ s.frameExt[i] \in Threads /\ i = n /\ s.stack[i].fn = "resume"
      BY <2>1, <1>2 DEF Extended, n
    <2>3. p.stack[i] = s.stack[i]
      BY <2>1, <1>4
    <2> QED
      BY <2>1, <2>2, <2>3, <1>1
  <1>9. Depth(p) <= MaxDepth /\ (p.started => Depth(p) > 0)
    BY <1>1, <1>3
  <1>10. WF(p)
    BY <1>2, <1>3, <1>5, <1>6, <1>7, <1>9 DEF WF, Suspended, Buried
  <1> QED
    BY <1>10 DEF p

\* A thread may be killed in any state.
LEMMA WFKill ==
    ASSUME NEW s, WF(s)
    PROVE  WF(kill(s))
  <1> DEFINE k == kill(s)
  <1>1. /\ k \in LStates /\ k.stack = s.stack /\ Depth(k) = Depth(s)
        /\ k.yieldCont = 0 /\ k.yieldContRB = 0 /\ k.yieldState = "none" /\ k.Dead
        /\ \A i \in 1..MaxDepth : k.frameExt[i] = "none"
        /\ k.Parent = s.Parent /\ k.wrapped = s.wrapped /\ k.started = s.started
    BY KillIs DEF WF
  <1> HIDE DEF k
  <1> QED
    BY <1>1 DEF WF, Suspended, Buried, k

\* A tail call's Go frame takes the place of the Lua frame that made the call.
LEMMA WFRemove ==
    ASSUME NEW s, WF(s), ~s.Dead, Depth(s) > 1, s.stack[Depth(s) - 1].fn = "lua",
           s.stack[Depth(s) - 1].op = "none", s.stack[Depth(s)].fn \notin {"lua", "pcall"}
    PROVE  WF(removeCallerFrame(s))
  <1> DEFINE r == removeCallerFrame(s)
             n == Depth(s)
             m == n - 1
  <1>1. s \in LStates /\ n \in Nat /\ n > 1 /\ n <= MaxDepth /\ MaxDepth \in Nat
    BY WFIs
  <1>2. Stacked(s) /\ Slotted(s) /\ Extended(s) /\ Suspended(s)
        /\ (s.wrapped => "wrap" \in Uses)
    BY DEF WF
  <1>3. /\ r \in LStates /\ Depth(r) = n - 1
        /\ \A i \in 1..n - 2 : r.stack[i] = s.stack[i]
        /\ r.stack[n - 1] = s.stack[n]
        /\ r.frameExt[n - 1] = s.frameExt[n] /\ r.frameExt[n] = "none"
        /\ \A i \in 1..MaxDepth : i # n /\ i # n - 1 => r.frameExt[i] = s.frameExt[i]
        /\ r.started = s.started /\ SameRest(s, r)
    BY <1>1, RemoveIs
  <1>4. s.stack[n - 1].fn = "lua" /\ s.stack[n - 1].op = "none"
        /\ s.stack[n].fn \notin {"lua", "pcall"}
    OBVIOUS
  <1> HIDE DEF r, n
  <1>5. m \in Nat /\ m > 0 /\ m < n /\ n = m + 1
    BY <1>1
  <1>6. /\ Depth(r) = m /\ r.stack[m] = s.stack[n]
        /\ \A i \in 1..m : i < m => r.stack[i] = s.stack[i] /\ r.frameExt[i] = s.frameExt[i]
        /\ r.frameExt[m] = s.frameExt[n]
        /\ \A i \in 1..MaxDepth : i > m => r.frameExt[i] = "none"
    <2>1. \A i \in 1..MaxDepth : i > n => s.frameExt[i] = "none"
      BY <1>1, <1>2 DEF Extended, n
    <2>2. \A i \in 1..m : i < m => i \in 1..n - 2 /\ i \in 1..MaxDepth /\ i # n /\ i # n - 1
      BY <1>1
    <2>3. \A i \in 1..MaxDepth : i > m => i = n \/ (i > n /\ i # n /\ i # n - 1)
      BY <1>1
    <2> QED
      BY <2>1, <2>2, <2>3, <1>3
  <1>7. s.stack[m].fn = "lua" /\ s.stack[m].op = "none"
    BY <1>4
  <1> HIDE DEF m
  <1>8. s.stack[n].Protected = FALSE /\ s.stack[n].op = "none"
    BY <1>1, <1>2, <1>4, StateIs DEF Stacked, n
  <1>9. Stacked(r)
    <2>1. ASSUME NEW i \in 1..m
          PROVE  /\ r.stack[i].fn = "pcall" => i > 1 /\ r.stack[i - 1].fn = "lua"
                 /\ r.stack[i].Protected => r.stack[i].fn = "pcall"
                 /\ r.stack[i].op # "none" => r.stack[i].fn = "lua"
      <3>1. CASE i = m
        BY <3>1, <1>4, <1>6, <1>8
      <3>2. CASE i < m
        <4>1. r.stack[i] = s.stack[i] /\ i \in 1..n
          BY <3>2, <1>5, <1>6
        <4>2. i > 1 => r.stack[i - 1] = s.stack[i - 1]
          BY <3>2, <1>5, <1>6
        <4> QED
          BY <4>1, <4>2, <1>2 DEF Stacked, n
      <3> QED
        BY <3>1, <3>2, <1>5
    <2>2. \A i \in 1..m : i < m => r.stack[i].fn \in {"lua", "pcall"}
      BY <1>2, <1>5, <1>6 DEF Stacked, n
    <2>3. \A i \in 1..m : i < m /\ r.stack[i].fn = "pcall" =>
            r.stack[i].Protected /\ r.frameExt[i] = "pcall"
      BY <1>2, <1>5, <1>6 DEF Stacked, n
    <2> QED
      BY <2>1, <2>2, <2>3, <1>6 DEF Stacked
  <1>10. Slotted(r)
    <2>1. \A i \in 1..m : r.stack[i].op # "none" => i < m /\ i \in 1..n /\ r.stack[i] = s.stack[i]
      BY <1>5, <1>6, <1>8
    <2>2. \A i \in 1..m : r.stack[i].op = "redo" => r.yieldCont = i
      BY <2>1, <1>2, <1>3 DEF Slotted, SameRest, n
    <2>3. \A i, j \in 1..m : r.stack[i].op # "none" =>
            (r.stack[j].op # "none" => i = j) /\ r.stack[j].fn # "pcall"
      <3>1. \A j \in 1..m : r.stack[j].fn = "pcall" => j \in 1..n /\ s.stack[j].fn = "pcall"
        BY <1>4, <1>5, <1>6
      <3> QED
        BY <2>1, <3>1, <1>2 DEF Slotted, n
    <2>4. r.yieldCont # 0 => /\ r.yieldCont <= m /\ r.stack[r.yieldCont].op = "redo"
                             /\ r.yieldContRB = r.yieldCont + 1
      <3> SUFFICES ASSUME r.yieldCont # 0
                   PROVE  /\ r.yieldCont <= m /\ r.stack[r.yieldCont].op = "redo"
                          /\ r.yieldContRB = r.yieldCont + 1
        OBVIOUS
      <3>1. s.yieldCont \in 1..n /\ s.stack[s.yieldCont].op = "redo"
            /\ s.yieldContRB = s.yieldCont + 1
        BY <1>1, <1>2, <1>3, StateIs DEF Slotted, SameRest, n
      <3>2. s.yieldCont < m /\ s.yieldCont \in 1..m
        BY <3>1, <1>5, <1>7, <1>8
      <3> QED
        BY <3>1, <3>2, <1>3, <1>6 DEF SameRest
    <2> QED
      BY <2>2, <2>3, <2>4, <1>6 DEF Slotted
  <1>11. Extended(r)
    <2> SUFFICES ASSUME NEW i \in 1..MaxDepth, r.frameExt[i] # "none"
                 PROVE  /\ i <= m
                        /\ \/ r.frameExt[i] = "pcall" /\ r.stack[i].fn = "pcall"
                           \/ r.frameExt[i] \in Threads /\ i = m /\ r.stack[i].fn = "resume"
      BY <1>6 DEF Extended
    <2>1. i <= m /\ i \in 1..m
      BY <1>5, <1>6
    <2>2. CASE i = m
      <3>1. n \in 1..MaxDepth /\ n # 1 /\ s.frameExt[n] # "none"
        BY <2>2, <1>1, <1>6
      <3>2. \/ s.frameExt[n] = "pcall" /\ s.stack[n].fn = "pcall"
            \/ s.frameExt[n] = "sole" /\ n = 1
            \/ s.frameExt[n] \in Threads /\ s.stack[n].fn = "resume"
        BY <3>1, <1>2 DEF Extended
      <3> QED
        BY <2>2, <3>1, <3>2, <1>4, <1>6
    <2>3. CASE i < m
      <3>1. s.frameExt[i] = r.frameExt[i] /\ s.stack[i] = r.stack[i] /\ i # n /\ n # 1
        BY <2>1, <2>3, <1>5, <1>6
      <3>2. \/ s.frameExt[i] = "pcall" /\ s.stack[i].fn = "pcall"
            \/ s.frameExt[i] = "sole" /\ n = 1
            \/ s.frameExt[i] \in Threads /\ i = n
        BY <3>1, <1>2 DEF Extended, n
      <3> QED
        BY <2>1, <3>1, <3>2
    <2> QED
      BY <2>1, <2>2, <2>3, <1>5
  <1>12. Suspended(r)
    <2> SUFFICES ASSUME s.yieldState # "none"
                 PROVE  s.Parent = NoThread /\ ~s.Dead /\ m > 0 /\ r.frameExt[m] # "none"
      BY <1>3, <1>6 DEF Suspended, SameRest, HasContinuation
    <2>1. LastIsG(s)
      BY <1>1, <1>4, StateIs DEF LastIsG, IsG, Last, GoFns, n
    <2> QED
      BY <2>1, <1>2, <1>5, <1>6 DEF Suspended, HasContinuation, n
  <1>13. r.Dead = FALSE /\ r.wrapped = s.wrapped /\ Depth(r) > 0 /\ Depth(r) <= MaxDepth
    BY <1>1, <1>3, <1>5, <1>6, StateIs DEF SameRest
  <1>14. WF(r)
    BY <1>2, <1>3, <1>9, <1>10, <1>11, <1>12, <1>13 DEF WF, Buried
  <1> QED
    BY <1>14 DEF r

\* Nothing but the links changes.
LEMMA WFRelink ==
    ASSUME NEW s, WF(s), NEW s2 \in LStates, s2.stack = s.stack, s2.frameExt = s.frameExt,
           s2.yieldCont = s.yieldCont, s2.yieldContRB = s.yieldContRB, s2.Dead = s.Dead,
           s2.wrapped => "wrap" \in Uses, s2.started => Depth(s) > 0,
           s.Dead => s2.yieldState = "none", Suspended(s2)
    PROVE  WF(s2)
  <1>1. Depth(s2) = Depth(s)
    BY DEF Depth
  <1>2. Stacked(s) => Stacked(s2)
    BY <1>1 DEF Stacked
  <1>3. Slotted(s) => Slotted(s2)
    BY <1>1 DEF Slotted
  <1>4. Extended(s) => Extended(s2)
    BY <1>1 DEF Extended
  <1>5. Buried(s) => Buried(s2)
    BY DEF Buried
  <1> QED
    BY <1>1, <1>2, <1>3, <1>4, <1>5 DEF WF

\* The continuation of the top frame changes, and perhaps the links.
LEMMA WFContinue ==
    ASSUME NEW s, WF(s), ~s.Dead, Depth(s) > 0, NEW s2 \in LStates, s2.stack = s.stack,
           \A i \in 1..MaxDepth : i # Depth(s) => s2.frameExt[i] = s.frameExt[i],
           s2.yieldCont = s.yieldCont, s2.yieldContRB = s.yieldContRB, s2.Dead = s.Dead,
           s2.wrapped => "wrap" \in Uses, s2.started = s.started, Suspended(s2),
           \/ s2.frameExt[Depth(s)] = "none"
           \/ s2.frameExt[Depth(s)] = "sole" /\ Depth(s) = 1
              /\ s.stack[Depth(s)].fn \in {"yield", "goyield"}
           \/ s2.frameExt[Depth(s)] \in Threads /\ s.stack[Depth(s)].fn = "resume"
    PROVE  WF(s2)
  <1>1. Depth(s2) = Depth(s) /\ Depth(s) \in Nat /\ Depth(s) <= MaxDepth /\ MaxDepth \in Nat
    BY WFIs DEF Depth
  <1>2. Stacked(s) => Stacked(s2)
    <2>1. \A i \in 1..Depth(s) : i < Depth(s) => s2.frameExt[i] = s.frameExt[i]
      BY <1>1
    <2> QED
      BY <2>1, <1>1 DEF Stacked
  <1>3. Slotted(s) => Slotted(s2)
    BY <1>1 DEF Slotted
  <1>4. Extended(s) => Extended(s2)
    <2> SUFFICES ASSUME Extended(s), NEW i \in 1..MaxDepth, s2.frameExt[i] # "none"
                 PROVE  /\ i <= Depth(s)
                        /\ \/ s2.frameExt[i] = "pcall" /\ s.stack[i].fn = "pcall"
                           \/ s2.frameExt[i] = "sole" /\ i = 1 /\ Depth(s) = 1
                              /\ s.stack[i].fn \in {"yield", "goyield"}
                           \/ s2.frameExt[i] \in Threads /\ i = Depth(s) /\ s.stack[i].fn = "resume"
      BY <1>1 DEF Extended
    <2>1. CASE i = Depth(s)
      BY <2>1, <1>1
    <2>2. CASE i # Depth(s)
      BY <2>2 DEF Extended
    <2> QED
      BY <2>1, <2>2
  <1>5. Buried(s2)
    BY DEF Buried
  <1> QED
    BY <1>1, <1>2, <1>3, <1>4, <1>5 DEF WF

\* The opcode of frame n changes its state, and with it the yieldCont slot.
Marked(s, n, x, y, z) ==
    [s EXCEPT !.stack[n].op = x, !.yieldCont = y, !.yieldContRB = z]

\* m is s with frame n's opcode in state x and the slot set to y and z.
IsMarked(s, m, n, x, y, z) ==
    /\ m \in LStates /\ Depth(m) = Depth(s)
    /\ \A i \in 1..Depth(s) : i # n => m.stack[i] = s.stack[i]
    /\ m.stack[n].fn = s.stack[n].fn /\ m.stack[n].Protected = s.stack[n].Protected
    /\ m.stack[n].op = x
    /\ m.frameExt = s.frameExt /\ m.started = s.started
    /\ m.yieldCont = y /\ m.yieldContRB = z
    /\ m.yieldState = s.yieldState /\ m.Parent = s.Parent
    /\ m.Dead = s.Dead /\ m.wrapped = s.wrapped

\* Marked does what it says, and nothing else.
LEMMA MarkedIs ==
    ASSUME NEW s \in LStates, NEW n \in 1..Depth(s), NEW x \in {"none", "call", "redo"},
           NEW y \in 0..MaxDepth, NEW z \in 0..MaxDepth + 1
    PROVE  IsMarked(s, Marked(s, n, x, y, z), n, x, y, z)
  <1> DEFINE f == [s.stack[n] EXCEPT !.op = x]
             q == [s.stack EXCEPT ![n] = f]
             m == Marked(s, n, x, y, z)
  <1>1. s.stack \in Seq(Frames) /\ n \in 1..Len(s.stack)
    BY StateIs DEF Depth
  <1>2. f \in Frames /\ f.fn = s.stack[n].fn /\ f.Protected = s.stack[n].Protected /\ f.op = x
    <2>1. s.stack[n] \in Frames
      BY <1>1
    <2> QED
      BY <2>1 DEF Frames
  <1>3. m = [s EXCEPT !.stack = q, !.yieldCont = y, !.yieldContRB = z]
    BY DEF Marked
  <1> HIDE DEF f
  <1>4. q \in Seq(Frames) /\ Len(q) = Len(s.stack) /\ q[n] = f
        /\ \A i \in 1..Len(s.stack) : i # n => q[i] = s.stack[i]
    BY <1>1, <1>2
  <1> HIDE DEF q
  <1>5. m \in LStates /\ m.stack = q /\ m.frameExt = s.frameExt /\ m.started = s.started
           /\ m.yieldCont = y /\ m.yieldContRB = z
           /\ m.yieldState = s.yieldState /\ m.Parent = s.Parent
           /\ m.Dead = s.Dead /\ m.wrapped = s.wrapped
    BY <1>3, <1>4 DEF LStates
  <1> HIDE DEF m
  <1>6. Depth(m) = Depth(s)
    BY <1>4, <1>5 DEF Depth
  <1>7. IsMarked(s, m, n, x, y, z)
    BY <1>2, <1>4, <1>5, <1>6 DEF Depth, IsMarked
  <1> QED
    BY <1>7 DEF m

\* Frame n may begin, suspend or finish its opcode if no other has one.
LEMMA WFMarked ==
    ASSUME NEW s, WF(s), ~s.Dead, NEW n \in 1..Depth(s), NEW x \in {"none", "call", "redo"},
           NEW y \in 0..MaxDepth, NEW z \in 0..MaxDepth + 1,
           s.stack[n].fn = "lua",
           \A i \in 1..Depth(s) : i # n => s.stack[i].op = "none",
           x # "none" => \A i \in 1..Depth(s) : s.stack[i].fn # "pcall",
           \/ x = "redo" /\ y = n /\ z = n + 1
           \/ x # "redo" /\ y = 0
    PROVE  WF(Marked(s, n, x, y, z))
  <1> DEFINE m == Marked(s, n, x, y, z)
             d == Depth(s)
  <1>1. s \in LStates /\ d \in Nat /\ n \in 1..d /\ d <= MaxDepth /\ MaxDepth \in Nat
    BY WFIs
  <1>2. Stacked(s) /\ Extended(s) /\ Suspended(s) /\ (s.wrapped => "wrap" \in Uses)
        /\ (s.started => Depth(s) > 0)
    BY DEF WF
  <1>3. /\ m \in LStates /\ Depth(m) = d
        /\ \A i \in 1..d : i # n => m.stack[i] = s.stack[i]
        /\ m.stack[n].fn = s.stack[n].fn /\ m.stack[n].Protected = s.stack[n].Protected
        /\ m.stack[n].op = x
        /\ m.frameExt = s.frameExt /\ m.started = s.started
        /\ m.yieldCont = y /\ m.yieldContRB = z
        /\ m.yieldState = s.yieldState /\ m.Parent = s.Parent
        /\ m.Dead = s.Dead /\ m.wrapped = s.wrapped
    <2>1. IsMarked(s, m, n, x, y, z)
      BY <1>1, MarkedIs
    <2> QED
      BY <2>1 DEF IsMarked
  <1> HIDE DEF m
  <1>4. \A i \in 1..d : m.stack[i].fn = s.stack[i].fn /\ m.stack[i].Protected = s.stack[i].Protected
                        /\ (m.stack[i].op # "none" => i = n)
    BY <1>3
  <1>5. Stacked(m)
    <2>1. \A i \in 1..d : i > 1 => i - 1 \in 1..d
      BY <1>1
    <2> QED
      BY <2>1, <1>2, <1>3, <1>4 DEF Stacked
  <1>6. Slotted(m)
    <2>1. \A i \in 1..d : m.stack[i].op = "redo" => m.yieldCont = i
      BY <1>3, <1>4
    <2>2. \A i, j \in 1..d : m.stack[i].op # "none" =>
            (m.stack[j].op # "none" => i = j) /\ m.stack[j].fn # "pcall"
      BY <1>3, <1>4
    <2>3. m.yieldCont # 0 => /\ m.yieldCont <= d /\ m.stack[m.yieldCont].op = "redo"
                             /\ m.yieldContRB = m.yieldCont + 1
      BY <1>1, <1>3
    <2> QED
      BY <2>1, <2>2, <2>3, <1>3 DEF Slotted
  <1>7. Extended(m)
    <2>1. \A i \in 1..MaxDepth : i <= d => i \in 1..d
      BY <1>1
    <2> QED
      BY <2>1, <1>2, <1>3, <1>4 DEF Extended
  <1>8. Suspended(m)
    <2> SUFFICES ASSUME s.yieldState # "none"
                 PROVE  s.Parent = NoThread /\ ~s.Dead /\ d > 0
                        /\ (LastIsG(m) => s.frameExt[d] # "none")
      BY <1>3 DEF Suspended, HasContinuation
    <2>1. d > 0 /\ m.stack[d].fn = s.stack[d].fn
      BY <1>1, <1>4
    <2>2. LastIsG(m) => LastIsG(s)
      BY <2>1, <1>3 DEF LastIsG, IsG, Last
    <2> QED
      BY <2>1, <2>2, <1>2 DEF Suspended, HasContinuation
  <1>9. WF(m)
    BY <1>1, <1>2, <1>3, <1>5, <1>6, <1>7, <1>8 DEF WF, Buried
  <1> QED
    BY <1>9 DEF m

\* pcall's frame n is armed before the call and disarmed after it.
Armed(s, n, b, e) == [s EXCEPT !.stack[n].Protected = b, !.frameExt[n] = e]

\* m is s with pcall's frame n armed (b) and extended (e).
IsArmed(s, m, n, b, e) ==
    /\ m \in LStates /\ Depth(m) = Depth(s)
    /\ \A i \in 1..Depth(s) : i # n => m.stack[i] = s.stack[i]
    /\ m.stack[n].fn = s.stack[n].fn /\ m.stack[n].op = s.stack[n].op
    /\ m.stack[n].Protected = b /\ m.frameExt[n] = e
    /\ \A i \in 1..MaxDepth : i # n => m.frameExt[i] = s.frameExt[i]
    /\ m.started = s.started /\ SameRest(s, m)

\* Armed does what it says, and nothing else.
LEMMA ArmedIs ==
    ASSUME NEW s \in LStates, NEW n \in 1..Depth(s), n <= MaxDepth, NEW b \in BOOLEAN,
           NEW e \in {"none", "pcall"}
    PROVE  IsArmed(s, Armed(s, n, b, e), n, b, e)
  <1> DEFINE f == [s.stack[n] EXCEPT !.Protected = b]
             q == [s.stack EXCEPT ![n] = f]
             x == [s.frameExt EXCEPT ![n] = e]
             m == Armed(s, n, b, e)
  <1>1. s.stack \in Seq(Frames) /\ n \in 1..Len(s.stack) /\ n \in 1..MaxDepth
        /\ s.frameExt \in [1..MaxDepth -> Continuations]
    <2>1. s.stack \in Seq(Frames) /\ Depth(s) \in Nat /\ MaxDepth \in Nat
          /\ s.frameExt \in [1..MaxDepth -> Continuations]
      BY StateIs, DepthAssumption
    <2> QED
      BY <2>1 DEF Depth
  <1>2. f \in Frames /\ f.fn = s.stack[n].fn /\ f.op = s.stack[n].op /\ f.Protected = b
    <2>1. s.stack[n] \in Frames
      BY <1>1
    <2> QED
      BY <2>1 DEF Frames
  <1>3. m = [s EXCEPT !.stack = q, !.frameExt = x]
    BY DEF Armed
  <1> HIDE DEF f
  <1>4. q \in Seq(Frames) /\ Len(q) = Len(s.stack) /\ q[n] = f
        /\ \A i \in 1..Len(s.stack) : i # n => q[i] = s.stack[i]
    BY <1>1, <1>2
  <1>5. x \in [1..MaxDepth -> Continuations] /\ x[n] = e
        /\ \A i \in 1..MaxDepth : i # n => x[i] = s.frameExt[i]
    BY <1>1 DEF Continuations
  <1> HIDE DEF q, x
  <1>6. m \in LStates /\ m.stack = q /\ m.frameExt = x /\ m.started = s.started
           /\ SameRest(s, m)
    BY <1>3, <1>4, <1>5 DEF LStates, SameRest
  <1> HIDE DEF m
  <1>7. Depth(m) = Depth(s)
    BY <1>4, <1>6 DEF Depth
  <1>8. IsArmed(s, m, n, b, e)
    BY <1>2, <1>4, <1>5, <1>6, <1>7 DEF Depth, IsArmed
  <1> QED
    BY <1>8 DEF m

\* The pcall on top may be armed and disarmed.
LEMMA WFArmed ==
    ASSUME NEW s, WF(s), ~s.Dead, s.yieldState = "none", Depth(s) > 0,
           s.stack[Depth(s)].fn = "pcall", NEW b \in BOOLEAN, NEW e \in {"none", "pcall"}
    PROVE  WF(Armed(s, Depth(s), b, e))
  <1> DEFINE d == Depth(s)
             m == Armed(s, d, b, e)
  <1>1. s \in LStates /\ d \in Nat /\ d \in 1..d /\ d <= MaxDepth /\ MaxDepth \in Nat
        /\ d \in 1..MaxDepth
    BY WFIs
  <1>2. Stacked(s) /\ Slotted(s) /\ Extended(s) /\ (s.wrapped => "wrap" \in Uses)
        /\ (s.started => Depth(s) > 0) /\ s.stack[d].fn = "pcall"
    BY DEF WF
  <1>3. /\ m \in LStates /\ Depth(m) = d
        /\ \A i \in 1..d : i # d => m.stack[i] = s.stack[i]
        /\ m.stack[d].fn = s.stack[d].fn /\ m.stack[d].op = s.stack[d].op
        /\ m.stack[d].Protected = b /\ m.frameExt[d] = e
        /\ \A i \in 1..MaxDepth : i # d => m.frameExt[i] = s.frameExt[i]
        /\ m.started = s.started /\ SameRest(s, m)
    <2>1. IsArmed(s, m, d, b, e)
      BY <1>1, ArmedIs
    <2> QED
      BY <2>1 DEF IsArmed
  <1> HIDE DEF m
  <1>4. \A i \in 1..d : m.stack[i].fn = s.stack[i].fn /\ m.stack[i].op = s.stack[i].op
    BY <1>3
  <1>5. Stacked(m)
    <2> HIDE DEF d
    <2>1. \A i \in 1..d : i > 1 => i - 1 \in 1..d
      BY <1>1
    <2>2. \A i \in 1..d : m.stack[i].Protected => m.stack[i].fn = "pcall"
      BY <1>2, <1>3 DEF Stacked, d
    <2>3. \A i \in 1..d : i < d => i \in 1..MaxDepth /\ i # d /\ m.stack[i] = s.stack[i]
                                   /\ m.frameExt[i] = s.frameExt[i]
      BY <1>1, <1>3
    <2> QED
      BY <2>1, <2>2, <2>3, <1>2, <1>3, <1>4 DEF Stacked, d
  <1>6. Slotted(m)
    <2>1. \A i \in 1..d : m.stack[i].op = "redo" => m.yieldCont = i
      BY <1>2, <1>3, <1>4 DEF Slotted, SameRest
    <2>2. \A i, j \in 1..d : m.stack[i].op # "none" =>
            (m.stack[j].op # "none" => i = j) /\ m.stack[j].fn # "pcall"
      BY <1>2, <1>3, <1>4 DEF Slotted
    <2>3. m.yieldCont # 0 => /\ m.yieldCont <= d /\ m.stack[m.yieldCont].op = "redo"
                             /\ m.yieldContRB = m.yieldCont + 1
      <3>1. m.yieldCont # 0 => m.yieldCont \in 1..d
        BY <1>1, <1>2, <1>3, StateIs DEF Slotted, SameRest
      <3> QED
        BY <3>1, <1>2, <1>3, <1>4 DEF Slotted, SameRest
    <2> QED
      BY <2>1, <2>2, <2>3, <1>3 DEF Slotted
  <1>7. Extended(m)
    <2> SUFFICES ASSUME NEW i \in 1..MaxDepth, m.frameExt[i] # "none"
                 PROVE  /\ i <= d
                        /\ m.frameExt[i] = "pcall" /\ m.stack[i].fn = "pcall"
      BY <1>3 DEF Extended
    <2>1. CASE i = d
      BY <2>1, <1>1, <1>2, <1>3
    <2>2. CASE i # d
      <3>1. s.frameExt[i] # "none" /\ i <= d /\ m.frameExt[i] = s.frameExt[i] /\ i \in 1..d
        BY <2>2, <1>1, <1>2, <1>3 DEF Extended
      <3>2. \/ s.frameExt[i] = "pcall" /\ s.stack[i].fn = "pcall"
            \/ s.frameExt[i] = "sole" /\ i = 1 /\ d = 1
            \/ s.frameExt[i] \in Threads /\ i = d
        BY <3>1, <1>2 DEF Extended
      <3> QED
        BY <2>2, <3>1, <3>2, <1>4
    <2> QED
      BY <2>1, <2>2
  <1>8. m.Dead = FALSE /\ m.yieldState = "none" /\ m.wrapped = s.wrapped
    BY <1>1, <1>3, StateIs DEF SameRest
  <1>9. WF(m)
    BY <1>1, <1>2, <1>3, <1>5, <1>6, <1>7, <1>8 DEF WF, Suspended, Buried
  <1> QED
    BY <1>9 DEF m

-----------------------------------------------------------------------------
(* The Go stack under a step of its top activation.                        *)

\* Two Go stacks that differ in the phase of their top activation only.
Alike(g, g2) ==
    /\ g2 \in Seq(Activations) /\ Len(g2) = Len(g)
    /\ \A j \in 1..Len(g) :
         /\ j < Len(g) => g2[j] = g[j]
         /\ g2[j].k = g[j].k /\ g2[j].t = g[j].t /\ g2[j].at = g[j].at /\ g2[j].th = g[j].th

\* The types of an activation's fields.
LEMMA ActivationIs ==
    ASSUME NEW a \in Activations
    PROVE  /\ a.k \in {"run", "meta", "pcall", "call", "resume"} /\ a.t \in Threads
           /\ a.at \in 0..MaxDepth /\ a.at \in Nat
           /\ a.ph \in {"enter", "exec", "invoke"}
           /\ a.mode \in {"call", "tail", "start", "ret"} /\ a.th \in Threads \cup {NoThread}
           /\ baseframe(a) \in Nat
           /\ a.k = "run" => baseframe(a) = 0
           /\ a.k # "run" => baseframe(a) = a.at + 1
  BY DepthAssumption DEF Activations, baseframe

\* The top of a Go stack is one of its activations.
LEMMA TopIs ==
    ASSUME NEW g \in Seq(Activations), g # <<>>
    PROVE  /\ Len(g) \in Nat /\ Len(g) > 0 /\ Len(g) \in 1..Len(g) /\ TopGo(g) = g[Len(g)]
           /\ TopGo(g) \in Activations /\ TopGo(g).t \in Threads
           /\ \A j \in 1..Len(g) : g[j] \in Activations
  <1>1. Len(g) \in Nat /\ Len(g) > 0 /\ \A j \in 1..Len(g) : g[j] \in Activations
    OBVIOUS
  <1> QED
    BY <1>1, ActivationIs DEF TopGo

\* Loop and Invoke change the phase of the top activation only.
LEMMA PhaseAlike ==
    ASSUME NEW g \in Seq(Activations), g # <<>>, NEW ph \in {"enter", "exec", "invoke"},
           NEW md \in {"call", "tail", "start", "ret"}
    PROVE  /\ Alike(g, Loop(g, ph)) /\ TopGo(Loop(g, ph)).ph = ph
           /\ TopGo(Loop(g, ph)).mode = TopGo(g).mode
           /\ Alike(g, Invoke(g, md)) /\ TopGo(Invoke(g, md)).ph = "invoke"
           /\ TopGo(Invoke(g, md)).mode = md
           /\ Loop(g, ph) # <<>> /\ Invoke(g, md) # <<>>
  <1> DEFINE n == Len(g)
             a == [g[n] EXCEPT !.ph = ph]
             c == [g[n] EXCEPT !.ph = "invoke"]
             b == [c EXCEPT !.mode = md]
  <1>1. n \in Nat /\ n > 0 /\ n \in 1..n /\ g[n] \in Activations /\ TopGo(g) = g[n]
    BY TopIs
  <1>2. /\ a \in Activations /\ a.ph = ph /\ a.mode = g[n].mode
        /\ a.k = g[n].k /\ a.t = g[n].t /\ a.at = g[n].at /\ a.th = g[n].th
    BY <1>1 DEF Activations
  <1>3. c \in Activations /\ c.k = g[n].k /\ c.t = g[n].t /\ c.at = g[n].at /\ c.th = g[n].th
        /\ c.ph = "invoke"
    BY <1>1 DEF Activations
  <1>4. /\ b \in Activations /\ b.ph = "invoke" /\ b.mode = md
        /\ b.k = g[n].k /\ b.t = g[n].t /\ b.at = g[n].at /\ b.th = g[n].th
    <2> HIDE DEF c
    <2> QED
      BY <1>3 DEF Activations
  <1>5. Loop(g, ph) = [g EXCEPT ![n] = a]
    BY DEF Loop
  <1>6. Invoke(g, md) = [g EXCEPT ![n] = b]
    <2> DEFINE h == [g EXCEPT ![n] = c]
    <2>1. h \in Seq(Activations) /\ Len(h) = n /\ h[n] = c
          /\ \A j \in 1..n : j # n => h[j] = g[j]
      BY <1>1, <1>3
    <2>2. Invoke(g, md) = [h EXCEPT ![n] = [h[n] EXCEPT !.mode = md]]
      BY DEF Invoke
    <2>3. Invoke(g, md) = [h EXCEPT ![n] = b]
      BY <2>1, <2>2
    <2>4. [h EXCEPT ![n] = b] = [g EXCEPT ![n] = b]
      BY DEF h
    <2> QED
      BY <2>3, <2>4
  <1> HIDE DEF a, b, c, n
  <1>7. ASSUME NEW x \in Activations
        PROVE  /\ [g EXCEPT ![n] = x] \in Seq(Activations) /\ Len([g EXCEPT ![n] = x]) = n
               /\ [g EXCEPT ![n] = x][n] = x
               /\ \A j \in 1..n : j < n => [g EXCEPT ![n] = x][j] = g[j]
    BY <1>1 DEF n
  <1>8. ASSUME NEW x \in Activations, x.k = g[n].k, x.t = g[n].t, x.at = g[n].at, x.th = g[n].th
        PROVE  Alike(g, [g EXCEPT ![n] = x]) /\ TopGo([g EXCEPT ![n] = x]) = x
               /\ [g EXCEPT ![n] = x] # <<>>
    <2> DEFINE h == [g EXCEPT ![n] = x]
    <2>1. h \in Seq(Activations) /\ Len(h) = n /\ h[n] = x /\ \A j \in 1..n : j < n => h[j] = g[j]
      BY <1>7
    <2> HIDE DEF h
    <2>2. Alike(g, h)
      BY <1>1, <1>8, <2>1 DEF Alike, n
    <2>3. TopGo(h) = x /\ h # <<>>
      BY <1>1, <2>1 DEF TopGo
    <2> QED
      BY <2>2, <2>3 DEF h
  <1> QED
    BY <1>1, <1>2, <1>4, <1>5, <1>6, <1>8

\* The shape of a Go stack does not depend on phases.
LEMMA AlikeShape ==
    ASSUME NEW g, NEW g2, Shape(g), Alike(g, g2)
    PROVE  Shape(g2)
  <1>1. g \in Seq(Activations) /\ g2 \in Seq(Activations) /\ Len(g2) = Len(g) /\ Len(g) \in Nat
    BY DEF Shape, Alike
  <1>2. \A j \in 1..Len(g) :
            /\ g2[j].k = g[j].k /\ g2[j].t = g[j].t /\ g2[j].at = g[j].at /\ g2[j].th = g[j].th
            /\ baseframe(g2[j]) = baseframe(g[j])
    BY DEF Alike, baseframe
  <1>3. Ends(g2)
    BY <1>1, <1>2 DEF Shape, Ends
  <1>4. Stepwise(g2)
    <2> SUFFICES ASSUME NEW j \in 1..Len(g), j > 1
                 PROVE  Joined(g2[j - 1], g2[j])
      BY <1>1 DEF Stepwise
    <2>1. j - 1 \in 1..Len(g)
      BY <1>1
    <2>2. Joined(g[j - 1], g[j])
      BY DEF Shape, Stepwise
    <2> QED
      BY <1>2, <2>1, <2>2 DEF Joined
  <1>5. Apart(g2)
    <2> SUFFICES ASSUME NEW i \in 1..Len(g), NEW j \in 1..Len(g), i < j
                 PROVE  /\ g2[i].k = "resume" => g2[i].t # g2[j].t
                        /\ g2[j].k = "run" => g2[i].t # g2[j].t
                        /\ g2[i].t = g2[j].t => baseframe(g2[i]) <= g2[j].at
      BY <1>1 DEF Apart
    <2>1. /\ g[i].k = "resume" => g[i].t # g[j].t
          /\ g[j].k = "run" => g[i].t # g[j].t
          /\ g[i].t = g[j].t => baseframe(g[i]) <= g[j].at
      BY DEF Shape, Apart
    <2> QED
      BY <2>1, <1>2
  <1>6. Rooted(g2)
    <2> SUFFICES ASSUME NEW j \in 1..Len(g)
                 PROVE  \E i \in 1..Len(g) :
                           i <= j /\ g2[i].t = g2[j].t /\ g2[i].k \in {"run", "call"}
      BY <1>1 DEF Rooted
    <2>1. PICK i \in 1..Len(g) : i <= j /\ g[i].t = g[j].t /\ g[i].k \in {"run", "call"}
      BY DEF Shape, Rooted
    <2> QED
      BY <2>1, <1>2
  <1>7. Owned(g2)
    BY <1>1, <1>2 DEF Shape, Owned
  <1> QED
    BY <1>1, <1>3, <1>4, <1>5, <1>6, <1>7 DEF Shape

\* The frames below the top activation's own are kept.
Keeps(s, s2, a) ==
    a.k \in {"meta", "pcall"} =>
        /\ a.at <= Depth(s2)
        /\ \A i \in 1..a.at : s2.stack[i].fn = s.stack[i].fn /\ s2.stack[i].op = s.stack[i].op

\* A step of the running thread above baseframe leaves every caller waiting as
\* it was.
LEMMA LocalHeld ==
    ASSUME NEW ts, NEW g, NEW g2, NEW s2, Shape(g), g # <<>>, Held(ts, g), Alike(g, g2),
           ts \in [Threads -> LStates], WF(s2),
           Keeps(ts[TopGo(g).t], s2, TopGo(g))
    PROVE  Held([ts EXCEPT ![TopGo(g).t] = s2], g2)
  <1> DEFINE n == Len(g)
             a == TopGo(g)
             t == a.t
             tt == [ts EXCEPT ![t] = s2]
  <1>1. g \in Seq(Activations) /\ n \in Nat /\ n > 0 /\ n \in 1..n /\ a = g[n] /\ a \in Activations
        /\ t \in Threads
        /\ \A j \in 1..n : g[j] \in Activations
    BY TopIs DEF Shape
  <1>2. Len(g2) = n /\ \A j \in 1..n :
           (j < n => g2[j] = g[j]) /\ g2[j].k = g[j].k /\ g2[j].t = g[j].t /\ g2[j].at = g[j].at
    BY DEF Alike
  <1>3. tt[t] = s2 /\ \A u \in Threads : u # t => tt[u] = ts[u]
    BY <1>1
  <1>4. Depth(s2) \in Nat /\ Keeps(ts[t], s2, a)
    BY WFIs
  <1> SUFFICES ASSUME NEW j \in 1..n, j > 1
               PROVE  Holds(g2[j - 1], g2[j], tt[g2[j].t])
    BY <1>2 DEF Held
  <1> HIDE DEF tt, n
  <1>5. Holds(g[j - 1], g[j], ts[g[j].t]) /\ Joined(g[j - 1], g[j])
    BY DEF Held, Shape, Stepwise, n
  <1>6. g2[j - 1] = g[j - 1] /\ g2[j].k = g[j].k /\ g2[j].t = g[j].t /\ g2[j].at = g[j].at
        /\ g[j] \in Activations /\ g[j].t \in Threads
    BY <1>1, <1>2, ActivationIs
  <1>7. CASE g[j].t # t
    BY <1>3, <1>5, <1>6, <1>7 DEF Holds
  <1>8. CASE g[j].t = t
    <2>1. j < n => baseframe(g[j]) <= a.at /\ g[j].k # "resume" /\ a.k # "run"
      BY <1>1, <1>8 DEF Shape, Apart, n
    <2>2. j = n => g[j] = a /\ a.k # "resume"
      BY <1>1 DEF Shape, Ends, n
    <2>3. a.k # "call"
      <3>1. Joined(g[n - 1], g[n])
        BY <1>1 DEF Shape, Stepwise, n
      <3> QED
        BY <3>1, <1>1 DEF Joined
    <2>4. CASE g[j].k = "run"
      BY <2>4, <1>6 DEF Holds
    <2>5. CASE g[j].k # "run"
      <3>1. g[j].k \in {"meta", "pcall"} /\ a.k \in {"meta", "pcall"} /\ g[j].at \in 1..a.at
        <4>1. g[j].k # "resume" /\ g[j].k # "call"
          BY <2>1, <2>2, <1>1, <1>5 DEF Joined
        <4>2. g[j].k \in {"meta", "pcall"} /\ baseframe(g[j]) = g[j].at + 1 /\ g[j].at \in Nat
          BY <4>1, <2>5, <1>6, ActivationIs
        <4>3. a.k \in {"meta", "pcall"} /\ a.at \in Nat
          <5>1. a.k # "run" /\ a.k # "resume" /\ a.k # "call"
            BY <4>2, <2>1, <2>2, <2>3, <2>5, <1>1 DEF Shape, Ends, n
          <5> QED
            BY <5>1, <1>1, ActivationIs
        <4>4. g[j].at >= 1
          BY <4>2, <1>5 DEF Holds
        <4> QED
          BY <4>2, <4>3, <4>4, <2>1, <2>2, <1>1
      <3>2. a.at <= Depth(s2) /\ a.at \in Nat
            /\ s2.stack[g[j].at].fn = ts[t].stack[g[j].at].fn
            /\ s2.stack[g[j].at].op = ts[t].stack[g[j].at].op
        BY <3>1, <1>1, <1>4, ActivationIs DEF Keeps
      <3>3. g[j].at \in 1..Depth(s2)
        BY <3>1, <3>2, <1>4
      <3> QED
        BY <3>1, <3>2, <3>3, <1>3, <1>5, <1>6, <1>8 DEF Holds
    <2> QED
      BY <2>4, <2>5
  <1> QED
    BY <1>7, <1>8

\* A thread that awaits c after the step did so before, or c has just yielded.
Fresh(ts, g, c) ==
    /\ c # Main /\ ts[c].yieldState = "system" /\ OffGo(g, c)
    /\ \A u \in Threads, j \in 1..MaxDepth : ts[u].frameExt[j] # c

\* Every thread that s2 awaits was awaited by s, or by no thread.
Carries(ts, g, s, s2) ==
    \A i \in 1..MaxDepth : s2.frameExt[i] \in Threads =>
        \/ \E k \in 1..MaxDepth : s.frameExt[k] = s2.frameExt[i]
        \/ Fresh(ts, g, s2.frameExt[i])

\* A thread awaits another with its top frame only.
LEMMA AwaitsOnce ==
    ASSUME NEW s, WF(s), NEW i \in 1..MaxDepth, NEW j \in 1..MaxDepth,
           s.frameExt[i] \in Threads, s.frameExt[j] \in Threads
    PROVE  i = j
  <1>1. s.frameExt[i] # "none" /\ s.frameExt[i] # "pcall" /\ s.frameExt[i] # "sole"
        /\ s.frameExt[j] # "none" /\ s.frameExt[j] # "pcall" /\ s.frameExt[j] # "sole"
    BY ThreadAssumption
  <1>2. ~s.Dead
    BY <1>1 DEF WF, Buried
  <1> QED
    BY <1>1, <1>2 DEF WF, Extended

\* Thread t changes from s to s2, and neither is awaited.
LEMMA LocalAwaits ==
    ASSUME NEW ts \in [Threads -> LStates], NEW t \in Threads, NEW s2, NEW g, NEW h,
           Awaits(ts, g), WF(s2), Carries(ts, h, ts[t], s2),
           \A c \in Threads : OffGo(g, c) => OffGo(h, c),
           \A u \in Threads, i \in 1..MaxDepth : ts[u].frameExt[i] # t,
           ~ Fresh(ts, h, t)
    PROVE  Awaits([ts EXCEPT ![t] = s2], h)
  <1> DEFINE tt == [ts EXCEPT ![t] = s2]
  <1>1. tt[t] = s2 /\ \A u \in Threads : u # t => tt[u] = ts[u]
    OBVIOUS
  <1> SUFFICES ASSUME NEW u \in Threads, NEW i \in 1..MaxDepth, tt[u].frameExt[i] \in Threads
               PROVE  LET c == tt[u].frameExt[i] IN
                      /\ c # Main /\ tt[c].yieldState = "system" /\ OffGo(h, c)
                      /\ \A v \in Threads, j \in 1..MaxDepth :
                           tt[v].frameExt[j] = c => v = u /\ j = i
    BY DEF Awaits
  <1> HIDE DEF tt
  <1> DEFINE c == tt[u].frameExt[i]
  <1>2. c \in Threads
    OBVIOUS
  <1>3. \/ \E k \in 1..MaxDepth : ts[u].frameExt[k] = c
        \/ u = t /\ Fresh(ts, h, c)
    <2>1. CASE u = t
      BY <2>1, <1>1 DEF Carries
    <2>2. CASE u # t
      BY <2>2, <1>1
    <2> QED
      BY <2>1, <2>2
  <1> HIDE DEF c
  <1>4. c # t
    BY <1>3
  <1>5. tt[c] = ts[c]
    BY <1>1, <1>2, <1>4
  <1>6. \A j \in 1..MaxDepth : tt[u].frameExt[j] = c => j = i
    <2>1. CASE u = t
      BY <2>1, <1>1, <1>2, AwaitsOnce DEF c
    <2>2. CASE u # t
      BY <2>2, <1>1, <1>2 DEF Awaits, c
    <2> QED
      BY <2>1, <2>2
  <1>7. CASE \E k \in 1..MaxDepth : ts[u].frameExt[k] = c
    <2>1. PICK k \in 1..MaxDepth : ts[u].frameExt[k] = c
      BY <1>7
    <2>2. /\ c # Main /\ ts[c].yieldState = "system" /\ OffGo(g, c)
          /\ \A v \in Threads, j \in 1..MaxDepth : ts[v].frameExt[j] = c => v = u
      BY <2>1, <1>2 DEF Awaits
    <2>3. ~ Fresh(ts, h, c)
      BY <2>1 DEF Fresh
    <2>4. ASSUME NEW v \in Threads, NEW j \in 1..MaxDepth, tt[v].frameExt[j] = c
          PROVE  v = u
      <3>1. CASE v # t
        BY <3>1, <2>2, <2>4, <1>1
      <3>2. CASE v = t
        <4>1. s2.frameExt[j] = c
          BY <3>2, <2>4, <1>1
        <4>2. \E m \in 1..MaxDepth : ts[t].frameExt[m] = c
          BY <4>1, <2>3, <1>2 DEF Carries
        <4> QED
          BY <4>2, <3>2, <2>2
      <3> QED
        BY <3>1, <3>2
    <2> QED
      BY <2>2, <2>4, <1>2, <1>5, <1>6 DEF c
  <1>8. CASE u = t /\ Fresh(ts, h, c)
    <2>1. /\ c # Main /\ ts[c].yieldState = "system" /\ OffGo(h, c)
          /\ \A v \in Threads, j \in 1..MaxDepth : ts[v].frameExt[j] # c
      BY <1>8 DEF Fresh
    <2>2. \A v \in Threads, j \in 1..MaxDepth : tt[v].frameExt[j] = c => v = t
      BY <2>1, <1>1
    <2> QED
      BY <2>1, <2>2, <1>5, <1>6, <1>8 DEF c
  <1> QED
    BY <1>3, <1>7, <1>8

\* While the top activation's thread runs, it is alive and linked to its resumer.
LEMMA Running ==
    ASSUME NEW ts, NEW cur, NEW g, NEW sg, Good(ts, cur, g, sg), g # <<>>, sg # "return"
    PROVE  LET t == TopGo(g).t IN
           /\ t \in Threads /\ ~ts[t].Dead /\ ts[t].yieldState = "none" /\ ~Gone(ts[t])
           /\ WF(ts[t]) /\ ts[t].Parent \in Threads \cup {NoThread}
           /\ t = Main <=> ts[t].Parent = NoThread
           /\ \A j \in 1..Len(g) : g[j].k = "run" /\ g[j].t = t => ts[t].Parent = Resumer(g, j)
           /\ TopGo(g).k = "run" => ts[t].Parent # NoThread
           /\ TopGo(g).k = "call" => t = Main
           /\ \A u \in Threads, i \in 1..MaxDepth : ts[u].frameExt[i] # t
           /\ cur = t \/ Zombie(ts, cur)
  <1> DEFINE n == Len(g)
             a == TopGo(g)
             t == a.t
  <1>1. g \in Seq(Activations) /\ n \in Nat /\ n > 0 /\ n \in 1..n /\ a = g[n] /\ a \in Activations
        /\ t \in Threads /\ \A j \in 1..n : g[j] \in Activations
    BY TopIs DEF Good, Shape
  <1>2. \A j \in 1..n : g[j].k = "run" =>
           ts[g[j].t].Parent = Resumer(g, j) /\ ~ts[g[j].t].Dead /\ ts[g[j].t].yieldState = "none"
    BY DEF Good, Parents
  <1>3. WF(ts[t]) /\ ts[t] \in LStates /\ ts[t].Parent \in Threads \cup {NoThread}
    <2>1. WF(ts[t])
      BY <1>1 DEF Good
    <2> QED
      BY <2>1, WFIs, StateIs
  <1>4. \A j \in 1..n : g[j].k = "run" => Resumer(g, j) \in Threads /\ g[j].t # Main
    <2>1. \A j \in 1..n : g[j].k = "run" => g[j].t # Main
      BY DEF Good, Shape, Owned
    <2>2. \A j \in 1..n : j # 1 => j - 1 \in 1..n
      BY <1>1
    <2>3. \A j \in 1..n : Resumer(g, j) \in Threads
      BY <2>2, <1>1, ActivationIs DEF Resumer, Threads
    <2> QED
      BY <2>1, <2>3
  <1>5. PICK i \in 1..n : g[i].t = t /\ g[i].k \in {"run", "call"}
    BY <1>1 DEF Good, Shape, Rooted
  <1>6. g[i].k = "call" => t = Main
    BY <1>5 DEF Good, Shape, Owned
  <1>7. t = Main => ts[t].Parent = NoThread /\ ~ts[t].Dead /\ ts[t].yieldState = "none"
    BY DEF Good, Rested
  <1>8. NoThread \notin Threads
    BY ThreadAssumption
  <1>9. ~ts[t].Dead /\ ts[t].yieldState = "none" /\ (t = Main <=> ts[t].Parent = NoThread)
    BY <1>2, <1>4, <1>5, <1>6, <1>7, <1>8
  <1>10. \A j \in 1..n : g[j].k = "run" /\ g[j].t = t => ts[t].Parent = Resumer(g, j)
    BY <1>2
  <1>11. /\ a.k = "run" => ts[t].Parent # NoThread
         /\ a.k = "call" => t = Main
    <2>1. a.k = "call" => t = Main
      BY <1>1 DEF Good, Shape, Owned
    <2> QED
      BY <2>1, <1>1, <1>4, <1>9
  <1>12. \A u \in Threads, k \in 1..MaxDepth : ts[u].frameExt[k] # t
    <2>1. ~ OffGo(g, t)
      BY <1>1 DEF OffGo
    <2> QED
      BY <2>1, <1>1 DEF Good, Awaits
  <1>13. cur = t \/ Zombie(ts, cur)
    BY DEF Good, Current
  <1> QED
    BY <1>1, <1>3, <1>9, <1>10, <1>11, <1>12, <1>13 DEF Gone

\* The running thread keeps its links, or leaves its resumer's child.
Stays(s, s2) == s2.Parent = s.Parent /\ s2.Dead = s.Dead /\ s2.yieldState = s.yieldState

\* A thread that the host resumed has been started.
Begun(t, s2) == t \in LuaThreads \/ s2.Dead \/ Depth(s2) = 0 \/ s2.started

\* The running thread goes on, or gives control back to its parent.
Moves(s, s2, cur, cur2, sg2) ==
    \/ Stays(s, s2) /\ cur2 = cur
    \/ sg2 = "return" /\ Gone(s2) /\ s.Parent # NoThread /\ cur2 = s.Parent

\* A step of the running thread that keeps the Go stack but for a phase.
LEMMA Local ==
    ASSUME NEW ts, NEW cur, NEW g, NEW sg, Good(ts, cur, g, sg), g # <<>>, sg # "return",
           NEW t, t = TopGo(g).t, NEW s2, WF(s2), NEW g2, Alike(g, g2),
           Keeps(ts[t], s2, TopGo(g)), Carries(ts, g, ts[t], s2), Begun(t, s2),
           NEW cur2, NEW sg2 \in {"none", "return", "panic"},
           Top([ts EXCEPT ![t] = s2], g2, sg2),
           Moves(ts[t], s2, cur, cur2, sg2)
    PROVE  Good([ts EXCEPT ![t] = s2], cur2, g2, sg2)
  <1> DEFINE n == Len(g)
             a == TopGo(g)
             tt == [ts EXCEPT ![t] = s2]
  <1>0. \/ Stays(ts[t], s2) /\ cur2 = cur
        \/ sg2 = "return" /\ Gone(s2) /\ ts[t].Parent # NoThread /\ cur2 = ts[t].Parent
    BY DEF Moves
  <1>1. g \in Seq(Activations) /\ n \in Nat /\ n > 0 /\ n \in 1..n /\ a = g[n] /\ a \in Activations
        /\ t \in Threads /\ \A j \in 1..n : g[j] \in Activations
    BY TopIs DEF Good, Shape
  <1>2. /\ t \in Threads /\ ~ts[t].Dead /\ ts[t].yieldState = "none" /\ ~Gone(ts[t])
        /\ WF(ts[t]) /\ ts[t].Parent \in Threads \cup {NoThread}
        /\ t = Main <=> ts[t].Parent = NoThread
        /\ \A j \in 1..Len(g) : g[j].k = "run" /\ g[j].t = t => ts[t].Parent = Resumer(g, j)
        /\ TopGo(g).k = "run" => ts[t].Parent # NoThread
        /\ \A u \in Threads, i \in 1..MaxDepth : ts[u].frameExt[i] # t
        /\ cur = t \/ Zombie(ts, cur)
    BY Running
  <1>3. Len(g2) = n /\ g2 \in Seq(Activations) /\ g2 # <<>> /\ TopGo(g2) = g2[n]
        /\ \A j \in 1..n : /\ g2[j].k = g[j].k /\ g2[j].t = g[j].t
                           /\ (j < n => g2[j] = g[j])
    <2>1. Len(g2) = n /\ g2 \in Seq(Activations)
          /\ \A j \in 1..n : /\ g2[j].k = g[j].k /\ g2[j].t = g[j].t
                           /\ (j < n => g2[j] = g[j])
      BY DEF Alike
    <2> QED
      BY <2>1, <1>1 DEF TopGo
  <1>4. ts \in [Threads -> LStates] /\ s2 \in LStates
    BY WFIs DEF Good
  <1>5. tt \in [Threads -> LStates] /\ tt[t] = s2 /\ \A u \in Threads : u # t => tt[u] = ts[u]
    BY <1>1, <1>4
  <1>6. \A c \in Threads : OffGo(g2, c) <=> OffGo(g, c)
    BY <1>3 DEF OffGo
  <1>7. TopGo(g2).t = t /\ g2 # <<>>
    BY <1>1, <1>3
  <1> HIDE DEF n, a, tt
  <1>8. \A u \in Threads : WF(tt[u])
    BY <1>5 DEF Good
  <1>9. Shape(g2)
    BY AlikeShape DEF Good
  <1>10. Held(tt, g2)
    BY <1>4, LocalHeld DEF Good, tt
  <1>11. Resumer(g2, n) = Resumer(g, n) /\ \A j \in 1..n : Resumer(g2, j) = Resumer(g, j)
    <2>1. \A j \in 1..n : j # 1 => j - 1 \in 1..n /\ j - 1 < n
      BY <1>1
    <2> QED
      BY <2>1, <1>1, <1>3 DEF Resumer
  <1>12. Parents(tt, g2, sg2)
    <2> SUFFICES ASSUME NEW j \in 1..n, g[j].k = "run"
                 PROVE  \/ /\ tt[g[j].t].Parent = Resumer(g, j)
                           /\ ~tt[g[j].t].Dead /\ tt[g[j].t].yieldState = "none"
                        \/ sg2 = "return" /\ g[j].t = t /\ Gone(tt[g[j].t])
      BY <1>3, <1>7, <1>11 DEF Parents
    <2>1. CASE g[j].t = t
      <3>1. ts[t].Parent = Resumer(g, j)
        BY <2>1, <1>2 DEF n
      <3>2. CASE Stays(ts[t], s2)
        BY <2>1, <3>1, <3>2, <1>2, <1>5 DEF Stays
      <3>3. CASE sg2 = "return" /\ Gone(s2)
        BY <2>1, <3>3, <1>5
      <3> QED
        BY <3>2, <3>3, <1>0
    <2>2. CASE g[j].t # t
      <3>1. g[j].t \in Threads
        BY <1>1, ActivationIs
      <3>2. /\ ts[g[j].t].Parent = Resumer(g, j)
            /\ ~ts[g[j].t].Dead /\ ts[g[j].t].yieldState = "none"
        BY DEF Good, Parents, n
      <3> QED
        BY <2>2, <3>1, <3>2, <1>5
    <2> QED
      BY <2>1, <2>2
  <1>13. Current(tt, cur2, g2, sg2)
    <2>1. CASE Stays(ts[t], s2) /\ cur2 = cur
      <3>1. ~Gone(s2)
        BY <2>1, <1>2 DEF Gone, Stays
      <3>2. cur \in Threads
        BY DEF Good, Current
      <3>3. Zombie(ts, cur) => Zombie(tt, cur)
        BY <2>1, <3>2, <1>5 DEF Zombie, Stays
      <3> QED
        BY <2>1, <3>1, <3>2, <3>3, <1>2, <1>3, <1>5, <1>7 DEF Current
    <2>2. CASE sg2 = "return" /\ Gone(s2) /\ ts[t].Parent # NoThread /\ cur2 = ts[t].Parent
      <3>1. cur2 \in Threads
        BY <2>2, <1>2
      <3>2. \A j \in 1..n : g2[j].k = "run" /\ g2[j].t = t => cur2 = Resumer(g2, j)
        BY <2>2, <1>2, <1>3, <1>11 DEF n
      <3> QED
        BY <2>2, <3>1, <3>2, <1>3, <1>5, <1>7 DEF Current
    <2> QED
      BY <2>1, <2>2, <1>0
  <1>14. Rested(tt, g2)
    <2>1. ~OffGo(g2, t)
      BY <1>1, <1>3, <1>7 DEF OffGo
    <2>2. ASSUME NEW u \in Threads, OffGo(g2, u), ~tt[u].Dead, Depth(tt[u]) > 0
          PROVE  /\ u # Main
                 /\ tt[u].stack[Depth(tt[u])].fn = "pcall" => tt[u].frameExt[Depth(tt[u])] = "pcall"
      <3>1. u # t /\ OffGo(g, u) /\ tt[u] = ts[u]
        BY <2>1, <2>2, <1>5, <1>6
      <3> QED
        BY <2>2, <3>1 DEF Good, Rested
    <2>3. tt[Main].Parent = NoThread /\ ~tt[Main].Dead /\ tt[Main].yieldState = "none"
      <3>1. Main \in Threads
        BY DEF Threads
      <3>2. ts[Main].Parent = NoThread /\ ~ts[Main].Dead /\ ts[Main].yieldState = "none"
        BY DEF Good, Rested
      <3> QED
        BY <3>1, <3>2, <1>0, <1>2, <1>5 DEF Stays
    <2>4. ASSUME NEW u \in Threads \ LuaThreads, ~tt[u].Dead, Depth(tt[u]) > 0
          PROVE  tt[u].started
      <3>1. CASE u = t
        BY <3>1, <2>4, <1>5 DEF Begun
      <3>2. CASE u # t
        BY <3>2, <2>4, <1>5 DEF Good, Rested
      <3> QED
        BY <3>1, <3>2
    <2> QED
      BY <2>2, <2>3, <2>4 DEF Rested
  <1>15. Awaits(tt, g2)
    <2>1. ~Fresh(ts, g2, t)
      BY <1>1, <1>3, <1>7 DEF Fresh, OffGo
    <2>2. Carries(ts, g2, ts[t], s2)
      BY <1>6 DEF Carries, Fresh
    <2>3. Awaits(ts, g) /\ \A c \in Threads : OffGo(g, c) => OffGo(g2, c)
      BY <1>6 DEF Good
    <2> QED
      BY <2>1, <2>2, <2>3, <1>1, <1>2, <1>4, LocalAwaits DEF tt
  <1> QED
    BY <1>5, <1>8, <1>9, <1>10, <1>12, <1>13, <1>14, <1>15 DEF Good, tt

\* The two ways, one at a time.
LEMMA Stay ==
    ASSUME NEW ts, NEW cur, NEW g, NEW sg, Good(ts, cur, g, sg), g # <<>>, sg # "return",
           NEW t, t = TopGo(g).t, NEW s2, WF(s2), NEW g2, Alike(g, g2),
           Keeps(ts[t], s2, TopGo(g)), Carries(ts, g, ts[t], s2), Begun(t, s2),
           NEW sg2 \in {"none", "return", "panic"},
           Top([ts EXCEPT ![t] = s2], g2, sg2), Stays(ts[t], s2)
    PROVE  Good([ts EXCEPT ![t] = s2], cur, g2, sg2)
  <1>1. Moves(ts[t], s2, cur, cur, sg2)
    BY DEF Moves
  <1> QED
    BY <1>1, Local

\* The running thread gives control back to its parent.
LEMMA Leave ==
    ASSUME NEW ts, NEW cur, NEW g, NEW sg, Good(ts, cur, g, sg), g # <<>>, sg # "return",
           NEW t, t = TopGo(g).t, NEW s2, WF(s2), NEW g2, Alike(g, g2),
           Keeps(ts[t], s2, TopGo(g)), Carries(ts, g, ts[t], s2), Begun(t, s2),
           Top([ts EXCEPT ![t] = s2], g2, "return"), Gone(s2), ts[t].Parent # NoThread
    PROVE  Good([ts EXCEPT ![t] = s2], ts[t].Parent, g2, "return")
  <1>1. Moves(ts[t], s2, cur, ts[t].Parent, "return")
    BY DEF Moves
  <1>2. "return" \in {"none", "return", "panic"}
    OBVIOUS
  <1> QED
    BY <1>1, <1>2, Local

-----------------------------------------------------------------------------
(* A Go function returns, or a thread leaves its resumer.                  *)

\* Alike Go stacks have alike tops.
LEMMA TopAlike ==
    ASSUME NEW g, NEW g2, g \in Seq(Activations), g # <<>>, Alike(g, g2)
    PROVE  /\ g2 # <<>> /\ TopGo(g2).k = TopGo(g).k /\ TopGo(g2).t = TopGo(g).t
           /\ TopGo(g2).at = TopGo(g).at /\ baseframe(TopGo(g2)) = baseframe(TopGo(g))
  <1>1. Len(g) \in 1..Len(g) /\ TopGo(g) = g[Len(g)]
    BY TopIs
  <1>2. Len(g2) = Len(g) /\ g2 # <<>> /\ TopGo(g2) = g2[Len(g)]
    BY <1>1 DEF Alike, TopGo
  <1> QED
    BY <1>1, <1>2 DEF Alike, baseframe

\* What the top activation's own call left on its thread's stack.
LEMMA TopHeld ==
    ASSUME NEW ts, NEW cur, NEW g, NEW sg, Good(ts, cur, g, sg), g # <<>>
    PROVE  LET a == TopGo(g)
               s == ts[a.t]
           IN /\ a \in Activations /\ a.k \in {"run", "call", "meta", "pcall"}
              /\ a.k \in {"meta", "pcall"} =>
                   /\ Len(g) > 1 /\ a.at \in 1..Depth(s) /\ baseframe(a) = a.at + 1
                   /\ a.k = "meta" => s.stack[a.at].op = "call"
                   /\ a.k = "pcall" => s.stack[a.at].fn = "pcall"
              /\ a.k = "run" => baseframe(a) = 0
  <1> DEFINE n == Len(g)
             a == TopGo(g)
  <1>1. g \in Seq(Activations) /\ n \in Nat /\ n > 0 /\ n \in 1..n /\ a = g[n] /\ a \in Activations
    BY TopIs DEF Good, Shape
  <1>2. a.k \in {"run", "call", "meta", "pcall"}
    <2>1. a.k # "resume"
      BY <1>1 DEF Good, Shape, Ends
    <2> QED
      BY <2>1, <1>1, ActivationIs
  <1>3. a.k \in {"meta", "pcall"} => n > 1
    <2>1. g[1].k \in {"run", "call"}
      BY DEF Good, Shape, Ends
    <2> QED
      BY <2>1, <1>1
  <1>4. n > 1 => Holds(g[n - 1], a, ts[a.t])
    BY <1>1 DEF Good, Held
  <1> QED
    BY <1>1, <1>2, <1>3, <1>4, ActivationIs DEF Holds

\* The frame a nested loop was entered for is not a pcall's.
LEMMA BaseIsNoPcall ==
    ASSUME NEW ts, NEW cur, NEW g, NEW sg, Good(ts, cur, g, sg), g # <<>>,
           NEW s, s = ts[TopGo(g).t], ~s.Dead,
           NEW i \in 1..Depth(s), s.stack[i].fn = "pcall"
    PROVE  i # baseframe(TopGo(g))
  <1> DEFINE a == TopGo(g)
  <1>1. WF(s)
    <2>1. a.t \in Threads
      BY TopIs DEF Good, Shape
    <2> QED
      BY <2>1 DEF Good
  <1>2. Stacked(s) /\ Slotted(s) /\ Depth(s) \in Nat
    BY <1>1, WFIs DEF WF
  <1>3. i > 1 /\ s.stack[i - 1].fn = "lua"
    BY <1>2 DEF Stacked
  <1>4. /\ a \in Activations /\ a.k \in {"run", "call", "meta", "pcall"}
        /\ a.k \in {"meta", "pcall"} =>
             /\ a.at \in 1..Depth(s) /\ baseframe(a) = a.at + 1
             /\ a.k = "meta" => s.stack[a.at].op = "call"
             /\ a.k = "pcall" => s.stack[a.at].fn = "pcall"
        /\ a.k = "run" => baseframe(a) = 0
    BY TopHeld
  <1> HIDE DEF a
  <1>5. a.k = "call" => baseframe(a) = 1
    <2>1. Len(g) \in 1..Len(g) /\ a = g[Len(g)]
      BY TopIs DEF Good, Shape, a
    <2>2. a.k = "call" => a.at = 0
      BY <2>1 DEF Good, Shape, Owned
    <2> QED
      BY <2>2, <1>4, ActivationIs
  <1> QED
    BY <1>2, <1>3, <1>4, <1>5 DEF Slotted, a

\* The states switchToParentThread leaves a thread in.
Died(s) == kill([popFrame(s) EXCEPT !.Parent = NoThread])
\* The state in which a yield leaves its thread.
Yielded(s, how) == [[popFrame(s) EXCEPT !.Parent = NoThread] EXCEPT !.yieldState = how]

\* Returning from the last frame kills the thread cleanly.
LEMMA WFDied ==
    ASSUME NEW s, WF(s), ~s.Dead, s.yieldState = "none", Depth(s) > 0,
           s.stack[Depth(s)].op = "none"
    PROVE  /\ WF(Died(s)) /\ Gone(Died(s)) /\ Died(s).Dead
           /\ \A i \in 1..MaxDepth : Died(s).frameExt[i] = "none"
  <1> DEFINE q == popFrame(s)
             p == [q EXCEPT !.Parent = NoThread]
  <1>1. WF(q) /\ q \in LStates
    BY WFPop, WFIs
  <1>2. q.yieldState = "none"
    BY PopIs, WFIs DEF SameRest
  <1> HIDE DEF q
  <1>3. /\ p \in LStates /\ p.stack = q.stack /\ p.frameExt = q.frameExt
        /\ p.yieldCont = q.yieldCont /\ p.yieldContRB = q.yieldContRB /\ p.Dead = q.Dead
        /\ p.wrapped = q.wrapped /\ p.started = q.started /\ p.yieldState = q.yieldState
        /\ p.Parent = NoThread
    BY <1>1 DEF LStates
  <1> HIDE DEF p
  <1>4. Suspended(p)
    BY <1>2, <1>3 DEF Suspended
  <1>5. p.wrapped => "wrap" \in Uses
    BY <1>1, <1>3 DEF WF
  <1>6. p.started => Depth(q) > 0
    BY <1>1, <1>3 DEF WF
  <1>7. WF(p)
    BY <1>1, <1>2, <1>3, <1>4, <1>5, <1>6, WFRelink
  <1>8. /\ WF(kill(p)) /\ kill(p).Dead /\ kill(p).Parent = NoThread
        /\ \A i \in 1..MaxDepth : kill(p).frameExt[i] = "none"
    BY <1>3, <1>7, WFKill, KillIs
  <1>9. Died(s) = kill(p)
    BY DEF Died, p, q
  <1> QED
    BY <1>8, <1>9 DEF Gone

\* A yield above another frame leaves a thread that can be resumed.
LEMMA WFYielded ==
    ASSUME NEW s, WF(s), ~s.Dead, s.yieldState = "none", Depth(s) > 1,
           s.stack[Depth(s)].op = "none", NEW how \in {"user", "system"}
    PROVE  LET d == Yielded(s, how) IN
           /\ WF(d) /\ Gone(d) /\ d.yieldState = how /\ ~d.Dead /\ d.started
           /\ Depth(d) = Depth(s) - 1
           /\ \A i \in 1..Depth(s) - 1 : d.stack[i] = s.stack[i]
           /\ \A i \in 1..MaxDepth : i # Depth(s) => d.frameExt[i] = s.frameExt[i]
           /\ d.frameExt[Depth(s)] = "none"
  <1> DEFINE q == popFrame(s)
             p == [q EXCEPT !.Parent = NoThread]
             d == [p EXCEPT !.yieldState = how]
             n == Depth(s)
  <1>1. WF(q) /\ q \in LStates /\ s \in LStates /\ n \in Nat /\ n > 1 /\ n <= MaxDepth
        /\ MaxDepth \in Nat
    BY WFPop, WFIs
  <1>2. /\ Depth(q) = n - 1 /\ (\A i \in 1..n - 1 : q.stack[i] = s.stack[i])
        /\ q.frameExt[n] = "none" /\ (\A i \in 1..MaxDepth : i # n => q.frameExt[i] = s.frameExt[i])
        /\ (q.started <=> n > 1) /\ q.Dead = s.Dead
    BY <1>1, PopIs DEF SameRest
  <1> HIDE DEF q
  <1>3. /\ p \in LStates /\ p.stack = q.stack /\ p.frameExt = q.frameExt
        /\ p.yieldCont = q.yieldCont /\ p.yieldContRB = q.yieldContRB /\ p.Dead = q.Dead
        /\ p.wrapped = q.wrapped /\ p.started = q.started
        /\ p.Parent = NoThread
    BY <1>1 DEF LStates
  <1> HIDE DEF p
  <1>4. /\ d \in LStates /\ d.stack = q.stack /\ d.frameExt = q.frameExt
        /\ d.yieldCont = q.yieldCont /\ d.yieldContRB = q.yieldContRB /\ d.Dead = q.Dead
        /\ d.wrapped = q.wrapped /\ d.started = q.started
        /\ d.Parent = NoThread /\ d.yieldState = how
    BY <1>3 DEF LStates
  <1> HIDE DEF d, n
  <1>5. n - 1 \in 1..n /\ n - 1 \in 1..n - 1 /\ n - 1 < n /\ n - 1 > 0 /\ n - 1 \in 1..MaxDepth
        /\ n - 1 # n
    BY <1>1
  <1>6. Depth(d) = n - 1
    BY <1>2, <1>4 DEF Depth
  <1>7. Suspended(d)
    <2> SUFFICES ASSUME LastIsG(d)
                 PROVE  d.frameExt[n - 1] # "none"
      BY <1>2, <1>4, <1>5, <1>6 DEF Suspended, HasContinuation
    <2>1. s.stack[n - 1].fn # "lua"
      BY <1>2, <1>4, <1>5, <1>6 DEF LastIsG, Last, IsG, GoFns
    <2>2. s.stack[n - 1].fn \in {"lua", "pcall"}
          /\ (s.stack[n - 1].fn = "pcall" => s.frameExt[n - 1] = "pcall")
      BY <1>5 DEF WF, Stacked, n
    <2> QED
      BY <2>1, <2>2, <1>2, <1>4, <1>5
  <1>8. d.wrapped => "wrap" \in Uses
    BY <1>1, <1>4 DEF WF
  <1>9. d.started => Depth(q) > 0
    BY <1>1, <1>4 DEF WF
  <1>10. WF(d)
    BY <1>1, <1>2, <1>4, <1>7, <1>8, <1>9, WFRelink
  <1>11. Yielded(s, how) = d
    BY DEF Yielded, p, q, d
  <1> QED
    BY <1>1, <1>2, <1>4, <1>6, <1>10, <1>11 DEF Gone, n

\* The frame of the Go function that callGFunction leaves on top.
IsTail(s, r, a) ==
    /\ WF(r) /\ Depth(r) > 0 /\ r.started = s.started /\ SameRest(s, r)
    /\ a.mode # "tail" => r = s
    /\ a.mode = "tail" => Depth(r) = Depth(s) - 1
    /\ r.stack[Depth(r)] = s.stack[Depth(s)]
    /\ r.frameExt[Depth(r)] = s.frameExt[Depth(s)]
    /\ \A i \in 1..Depth(r) : i < Depth(r) =>
         r.stack[i] = s.stack[i] /\ r.frameExt[i] = s.frameExt[i]
    /\ \A i \in 1..MaxDepth : i > Depth(r) => r.frameExt[i] = "none"

\* afterTail drops the caller of a tail-called Go function and keeps the rest.
LEMMA TailIs ==
    ASSUME NEW a, NEW s, WF(s), ~s.Dead, Depth(s) > 0, s.stack[Depth(s)].fn # "lua",
           a.mode = "tail" => /\ Depth(s) > 1 /\ s.stack[Depth(s) - 1].fn = "lua"
                              /\ s.stack[Depth(s) - 1].op = "none"
                              /\ s.stack[Depth(s)].fn # "pcall"
    PROVE  IsTail(s, afterTail(s, a), a)
  <1> DEFINE n == Depth(s)
             r == removeCallerFrame(s)
  <1>1. s \in LStates /\ n \in Nat /\ n > 0 /\ n <= MaxDepth /\ MaxDepth \in Nat
    BY WFIs
  <1>2. CASE a.mode # "tail"
    <2>1. afterTail(s, a) = s
      BY <1>2 DEF afterTail
    <2>2. \A i \in 1..MaxDepth : i > n => s.frameExt[i] = "none"
      BY <1>1 DEF WF, Extended
    <2> QED
      BY <2>1, <2>2, <1>1, <1>2 DEF IsTail, SameRest
  <1>3. CASE a.mode = "tail"
    <2>1. afterTail(s, a) = r
      BY <1>3 DEF afterTail
    <2>2. WF(r)
      BY <1>3, WFRemove
    <2>3. /\ r \in LStates /\ Depth(r) = n - 1
          /\ \A i \in 1..n - 2 : r.stack[i] = s.stack[i]
          /\ r.stack[n - 1] = s.stack[n]
          /\ r.frameExt[n - 1] = s.frameExt[n] /\ r.frameExt[n] = "none"
          /\ \A i \in 1..MaxDepth : i # n /\ i # n - 1 => r.frameExt[i] = s.frameExt[i]
          /\ r.started = s.started /\ SameRest(s, r)
      BY <1>1, <1>3, RemoveIs
    <2>4. r.Dead = s.Dead
      BY <2>3 DEF SameRest
    <2> HIDE DEF r
    <2>5. \A i \in 1..MaxDepth : i > n - 1 => r.frameExt[i] = "none"
      BY <2>2, <2>3, <2>4, <1>1 DEF WF, Extended
    <2>6. n > 1
      BY <1>3
    <2> HIDE DEF n
    <2>7. \A i \in 1..n - 1 : i < n - 1 => i \in 1..n - 2 /\ i \in 1..MaxDepth /\ i # n /\ i # n - 1
      BY <1>1, <2>6
    <2>8. IsTail(s, r, a)
      BY <2>2, <2>3, <2>5, <2>6, <2>7, <1>1, <1>3 DEF IsTail, n
    <2> QED
      BY <2>1, <2>8
  <1> QED
    BY <1>2, <1>3

\* The thread's state when its Go function returns: the frame's own extension
\* and Protected mark may have been cleared.
Returned(s, s0) ==
    /\ WF(s0) /\ Depth(s0) = Depth(s) /\ s0.started = s.started /\ SameRest(s, s0)
    /\ \A i \in 1..Depth(s) :
         s0.stack[i].fn = s.stack[i].fn /\ s0.stack[i].op = s.stack[i].op
    /\ \A i \in 1..MaxDepth : s0.frameExt[i] \in Threads => s0.frameExt[i] = s.frameExt[i]

\* The frame the Go function leaves, r, and the stack below it, p.
Below(s, a, r, p) ==
    /\ WF(r) /\ WF(p) /\ Depth(r) > 0 /\ Depth(r) <= MaxDepth /\ Depth(r) \in Nat
    /\ Depth(p) = Depth(r) - 1
    /\ Depth(r) >= baseframe(a) /\ baseframe(a) \in Nat
    /\ Stays(s, r) /\ Stays(s, p) /\ ~r.Dead /\ r.yieldState = "none"
    /\ r.stack[Depth(r)].op = "none"
    /\ a.mode # "tail" => Depth(r) = Depth(s)
    /\ (p.started <=> Depth(p) > 0)
    /\ \A i \in 1..Depth(p) : /\ i \in 1..Depth(s)
                              /\ p.stack[i].fn = s.stack[i].fn /\ p.stack[i].op = s.stack[i].op
                              /\ p.stack[i].fn \in {"lua", "pcall"}
                              /\ p.stack[i].fn = "pcall" => p.frameExt[i] = "pcall"
    /\ \A i \in 1..MaxDepth : p.frameExt[i] \in Threads =>
         \E k \in 1..MaxDepth : s.frameExt[k] = p.frameExt[i]

\* Once a Go function has returned, Lua code or pcall is on top, or nothing is.
LEMMA BelowIs ==
    ASSUME NEW a \in Activations, NEW s, WF(s), ~s.Dead, s.yieldState = "none",
           a.ph = "invoke", Poised(a, s), NEW s0, Returned(s, s0)
    PROVE  Below(s, a, afterTail(s0, a), popFrame(afterTail(s0, a)))
  <1> DEFINE n == Depth(s)
             r == afterTail(s0, a)
             m == Depth(r)
             p == popFrame(r)
             b == baseframe(a)
  <1>1. /\ n \in Nat /\ n <= MaxDepth /\ MaxDepth \in Nat /\ b \in Nat
        /\ WF(s0) /\ Depth(s0) = n /\ s0.started = s.started /\ SameRest(s, s0)
        /\ \A i \in 1..n : s0.stack[i].fn = s.stack[i].fn /\ s0.stack[i].op = s.stack[i].op
        /\ \A i \in 1..MaxDepth : s0.frameExt[i] \in Threads => s0.frameExt[i] = s.frameExt[i]
    BY WFIs, ActivationIs DEF Returned
  <1>2. /\ n > 0 /\ n >= b /\ s.stack[n].fn # "lua"
        /\ a.mode = "tail" => /\ n > 1 /\ n > b /\ s.stack[n - 1].fn = "lua"
                              /\ s.stack[n].fn # "pcall" /\ s.stack[n - 1].op = "none"
    BY DEF Poised
  <1>3. ~s0.Dead /\ s0.yieldState = "none"
    BY <1>1 DEF SameRest
  <1> HIDE DEF n, b
  <1>4. n \in 1..n /\ (n > 1 => n - 1 \in 1..n)
    BY <1>1, <1>2
  <1>5. IsTail(s0, r, a)
    <2> HIDE DEF r
    <2> QED
      BY <1>1, <1>2, <1>3, <1>4, TailIs DEF r
  <1> HIDE DEF r
  <1>6. /\ WF(r) /\ m > 0 /\ r.started = s0.started /\ SameRest(s0, r)
        /\ a.mode # "tail" => r = s0
        /\ a.mode = "tail" => m = n - 1
        /\ r.stack[m] = s0.stack[n] /\ r.frameExt[m] = s0.frameExt[n]
        /\ \A i \in 1..m : i < m => r.stack[i] = s0.stack[i] /\ r.frameExt[i] = s0.frameExt[i]
        /\ \A i \in 1..MaxDepth : i > m => r.frameExt[i] = "none"
    BY <1>1, <1>5 DEF IsTail
  <1>7. m \in Nat /\ m <= MaxDepth /\ m <= n /\ m >= b /\ (a.mode # "tail" => m = n)
    BY <1>1, <1>2, <1>6, WFIs
  <1>8. ~r.Dead /\ r.yieldState = "none" /\ Stays(s, r)
    BY <1>1, <1>3, <1>6 DEF SameRest, Stays
  <1>9. r.stack[m].op = "none"
    <2>1. Stacked(r) /\ m \in 1..m
      BY <1>6, <1>7, <1>8 DEF WF
    <2> QED
      BY <2>1, <1>1, <1>2, <1>4, <1>6 DEF Stacked
  <1>10. WF(p)
    BY <1>6, <1>8, <1>9, WFPop
  <1>11. /\ Depth(p) = m - 1
         /\ \A i \in 1..m - 1 : p.stack[i] = r.stack[i]
         /\ p.frameExt[m] = "none"
         /\ \A i \in 1..MaxDepth : i # m => p.frameExt[i] = r.frameExt[i]
         /\ (p.started <=> m > 1) /\ SameRest(r, p)
    BY <1>6, <1>7, PopIs, WFIs
  <1> HIDE DEF p, m
  <1>12. Stays(s, p)
    BY <1>8, <1>11 DEF SameRest, Stays
  <1>13. p.started <=> Depth(p) > 0
    BY <1>7, <1>11
  <1>14. ASSUME NEW i \in 1..Depth(p)
         PROVE  /\ i \in 1..n
                /\ p.stack[i].fn = s.stack[i].fn /\ p.stack[i].op = s.stack[i].op
                /\ p.stack[i].fn \in {"lua", "pcall"}
                /\ p.stack[i].fn = "pcall" => p.frameExt[i] = "pcall"
    <2>1. i \in 1..m - 1 /\ i \in 1..m /\ i < m /\ i # m /\ i \in 1..n /\ i \in 1..MaxDepth
      BY <1>1, <1>7, <1>11
    <2>2. r.stack[i] = s0.stack[i] /\ p.stack[i] = r.stack[i] /\ p.frameExt[i] = r.frameExt[i]
      BY <2>1, <1>6, <1>11
    <2>3. /\ r.stack[i].fn \in {"lua", "pcall"}
          /\ r.stack[i].fn = "pcall" => r.frameExt[i] = "pcall"
      <3>1. Stacked(r)
        BY <1>6, <1>8 DEF WF
      <3> QED
        BY <3>1, <2>1 DEF Stacked, m
    <2> QED
      BY <2>1, <2>2, <2>3, <1>1
  <1>15. ASSUME NEW i \in 1..MaxDepth, p.frameExt[i] \in Threads
         PROVE  \E k \in 1..MaxDepth : s.frameExt[k] = p.frameExt[i]
    <2>1. p.frameExt[i] # "none"
      BY <1>15, ThreadAssumption
    <2>2. i # m /\ p.frameExt[i] = r.frameExt[i]
      BY <2>1, <1>11
    <2>3. i <= m
      BY <2>1, <2>2, <1>6, <1>7
    <2>4. i \in 1..m /\ i < m
      BY <2>2, <2>3, <1>7
    <2> QED
      BY <2>2, <2>4, <1>1, <1>6, <1>15
  <1>16. /\ Depth(r) = m /\ baseframe(a) = b /\ Depth(s) = n
    BY DEF m, b, n
  <1> QED
    BY <1>6, <1>7, <1>8, <1>9, <1>10, <1>11, <1>12, <1>13, <1>14, <1>15, <1>16, <1>1
       DEF Below, p, r

\* The Go function's frame is popped and its loop goes on or returns.
LEMMA GoPops ==
    ASSUME NEW ts, NEW cur, NEW g, Good(ts, cur, g, "none"), g # <<>>,
           NEW t, t = TopGo(g).t, NEW r, NEW p, Below(ts[t], TopGo(g), r, p),
           NEW g2, Alike(g, g2), NEW sg2 \in {"none", "return"},
           \/ sg2 = "none" /\ Poised(TopGo(g2), p)
           \/ /\ sg2 = "return" /\ TopGo(g).k # "run"
              /\ TopGo(g).k \in {"meta", "pcall"} => Depth(p) = TopGo(g).at
    PROVE  Good([ts EXCEPT ![t] = p], cur, g2, sg2)
  <1> DEFINE a == TopGo(g)
             s == ts[t]
             tt == [ts EXCEPT ![t] = p]
  <1>1. /\ t \in Threads /\ ~s.Dead /\ s.yieldState = "none" /\ WF(s) /\ WF(p) /\ WF(r)
        /\ ts \in [Threads -> LStates] /\ g \in Seq(Activations)
    BY Running DEF Good, Shape, Below
  <1>2. tt[t] = p
    BY <1>1
  <1>3. /\ g2 # <<>> /\ TopGo(g2).k = a.k /\ TopGo(g2).t = t /\ TopGo(g2).at = a.at
        /\ baseframe(TopGo(g2)) = baseframe(a)
    BY <1>1, TopAlike
  <1>4. Stays(s, p) /\ ~p.Dead
    BY <1>1 DEF Below, Stays
  <1>5. Begun(t, p)
    BY <1>1, WFIs DEF Below, Begun
  <1>6. Keeps(s, p, a)
    <2> SUFFICES ASSUME a.k \in {"meta", "pcall"}
                 PROVE  a.at <= Depth(p) /\ \A i \in 1..a.at : i \in 1..Depth(p)
      BY DEF Below, Keeps
    <2>1. a.at \in Nat /\ baseframe(a) = a.at + 1
      BY <1>1, TopIs, ActivationIs
    <2>2. Depth(p) = Depth(r) - 1 /\ Depth(r) >= a.at + 1 /\ Depth(r) \in Nat
      BY <2>1 DEF Below
    <2> QED
      BY <2>1, <2>2
  <1>7. Carries(ts, g, s, p)
    BY DEF Carries, Below
  <1>8. Top(tt, g2, sg2)
    BY <1>2, <1>3, <1>4 DEF Top
  <1>9. sg2 \in {"none", "return", "panic"} /\ "none" # "return"
    OBVIOUS
  <1>10. WF(p)
    BY <1>1
  <1> QED
    BY <1>4, <1>5, <1>6, <1>7, <1>8, <1>9, <1>10, Stay

\* A Go function of the running thread returns.
LEMMA GoReturns ==
    ASSUME NEW ts, NEW g, Good(ts, CurrentThread, g, "none"), g # <<>>,
           NEW t, t = TopGo(g).t, TopGo(g).ph = "invoke",
           \A x : [thread EXCEPT ![t] = x] = [ts EXCEPT ![t] = x],
           NEW s0, Returned(ts[t], s0), goReturns(t, s0, g)
    PROVE  Good(thread', CurrentThread', go', sig')
  <1> DEFINE a == TopGo(g)
             s == ts[t]
             r == afterTail(s0, a)
             p == popFrame(r)
             n == Depth(s)
             m == Depth(r)
             b == baseframe(a)
  <1>1. /\ t \in Threads /\ ~s.Dead /\ s.yieldState = "none" /\ WF(s)
        /\ ts \in [Threads -> LStates] /\ g \in Seq(Activations) /\ a \in Activations
        /\ (a.k = "run" => s.Parent # NoThread)
    BY Running, TopIs DEF Good, Shape
  <1>2. Poised(a, s)
    BY DEF Good, Top
  <1>3. Below(s, a, r, p)
    BY <1>1, <1>2, BelowIs
  <1>4. /\ a.k \in {"run", "call", "meta", "pcall"}
        /\ a.k \in {"meta", "pcall"} => a.at \in Nat /\ a.at >= 1 /\ b = a.at + 1
        /\ a.k = "run" => b = 0
    BY <1>1, TopHeld, ActivationIs
  <1>5. Alike(g, Loop(g, "exec")) /\ Alike(g, Loop(g, "enter")) /\ Alike(g, Invoke(g, "ret"))
        /\ TopGo(Loop(g, "exec")).ph = "exec" /\ TopGo(Loop(g, "enter")).ph = "enter"
        /\ TopGo(Invoke(g, "ret")).ph = "invoke" /\ TopGo(Invoke(g, "ret")).mode = "ret"
    BY <1>1, PhaseAlike
  <1>6. \A h : Alike(g, h) => baseframe(TopGo(h)) = b /\ TopGo(h).k = a.k /\ h # <<>>
                              /\ TopGo(h).t = t /\ TopGo(h).at = a.at
    BY <1>1, TopAlike
  <1>7. CASE r.Parent # NoThread /\ m = 1
    <2>1. /\ CurrentThread' = r.Parent /\ thread' = [thread EXCEPT ![t] = Died(r)]
          /\ sig' = "return" /\ go' = Loop(g, "exec")
      BY <1>7 DEF goReturns, switchToParentThread, Died
    <2>2. thread' = [ts EXCEPT ![t] = Died(r)] /\ CurrentThread' = s.Parent
          /\ s.Parent # NoThread
      BY <2>1, <1>3, <1>7 DEF Below, Stays
    <2>3. /\ WF(Died(r)) /\ Gone(Died(r)) /\ Died(r).Dead
          /\ \A i \in 1..MaxDepth : Died(r).frameExt[i] = "none"
      BY <1>3, WFDied DEF Below
    <2>4. a.k \notin {"meta", "pcall"}
      BY <1>3, <1>4, <1>7 DEF Below
    <2>5. Keeps(s, Died(r), a) /\ Begun(t, Died(r))
      BY <2>3, <2>4 DEF Keeps, Begun
    <2>6. Carries(ts, g, s, Died(r))
      BY <2>3, ThreadAssumption DEF Carries
    <2> DEFINE d == Died(r)
               tt == [ts EXCEPT ![t] = d]
    <2> HIDE DEF d
    <2>7. tt[t] = d
      BY <1>1
    <2>8. Top(tt, Loop(g, "exec"), "return")
      BY <2>3, <2>4, <2>7, <1>5, <1>6 DEF Top, d
    <2>9. "return" \in {"none", "return", "panic"} /\ "none" # "return"
      OBVIOUS
    <2>10. WF(d) /\ Gone(d) /\ Alike(g, Loop(g, "exec"))
      BY <2>3, <1>5 DEF d
    <2>11. Keeps(s, d, a) /\ Begun(t, d) /\ Carries(ts, g, s, d)
      BY <2>5, <2>6 DEF d
    <2>12. Good(tt, s.Parent, Loop(g, "exec"), "return")
      BY <2>2, <2>8, <2>9, <2>10, <2>11, Leave
    <2> QED
      BY <2>1, <2>2, <2>12 DEF d
  <1>8. CASE ~(r.Parent # NoThread /\ m = 1)
    <2>1. thread' = [ts EXCEPT ![t] = p] /\ CurrentThread' = CurrentThread
      BY <1>8 DEF goReturns
    <2>2. \/ a.mode \in {"call", "ret"} /\ go' = Loop(g, "exec") /\ sig' = "none"
          \/ /\ a.mode = "start"
             /\ IF b # 0 \/ Depth(p) = 0 THEN go' = Loop(g, "exec") /\ sig' = "return"
                ELSE IF LastIsG(p) THEN go' = Loop(g, "enter") /\ sig' = "none"
                ELSE go' = Loop(g, "exec") /\ sig' = "none"
          \/ /\ a.mode = "tail"
             /\ IF Depth(p) = 0 \/ m = b THEN go' = Loop(g, "exec") /\ sig' = "return"
                ELSE IF ~LastIsG(p) THEN go' = Loop(g, "exec") /\ sig' = "none"
                ELSE IF HasContinuation(p) THEN go' = Invoke(g, "ret") /\ sig' = "none"
                ELSE go' = Loop(g, "exec") /\ sig' = "return"
      BY <1>8 DEF goReturns
    <2> HIDE DEF p, r, n, m, b
    <2>3. /\ m \in Nat /\ m > 0 /\ Depth(p) = m - 1 /\ m >= b /\ b \in Nat
          /\ (a.mode # "tail" => m = n) /\ r.Parent = s.Parent
          /\ \A i \in 1..m - 1 :
               /\ i \in 1..n /\ p.stack[i].fn = s.stack[i].fn /\ p.stack[i].fn \in {"lua", "pcall"}
               /\ p.stack[i].fn = "pcall" => p.frameExt[i] = "pcall"
      BY <1>3 DEF Below, m, n, b, Stays
    <2>4. a.k = "run" => m # 1
      BY <2>3, <1>1, <1>8
    <2>5. LastIsG(p) <=> m > 1 /\ p.stack[m - 1].fn # "lua"
      <3>1. m > 1 => m - 1 \in 1..m - 1
        BY <2>3
      <3> QED
        BY <2>3, <3>1 DEF LastIsG, Last, IsG, GoFns, Fns
    <2>6. HasContinuation(p) <=> p.frameExt[m - 1] # "none"
      BY <2>3 DEF HasContinuation
    <2>7. ASSUME go' = Loop(g, "exec"), sig' = "none", m > 1, m > b, p.stack[m - 1].fn = "lua"
          PROVE  Good(thread', CurrentThread', go', sig')
      <3>1. Poised(TopGo(Loop(g, "exec")), p)
        BY <2>3, <2>7, <1>5, <1>6 DEF Poised
      <3> QED
        BY <3>1, <2>1, <2>7, <1>1, <1>3, <1>5, GoPops
    <2>8. ASSUME go' = Loop(g, "exec"), sig' = "return", a.k # "run",
                 a.k \in {"meta", "pcall"} => m = b
          PROVE  Good(thread', CurrentThread', go', sig')
      <3>1. a.k \in {"meta", "pcall"} => Depth(p) = a.at
        BY <2>3, <2>8, <1>4
      <3> QED
        BY <3>1, <2>1, <2>8, <1>1, <1>3, <1>5, GoPops
    <2>9. CASE a.mode \in {"call", "ret"} /\ go' = Loop(g, "exec") /\ sig' = "none"
      <3>1. n > 1 /\ n > b /\ s.stack[n - 1].fn = "lua"
        <4>1. Stacked(s) /\ n \in Nat
          BY <1>1, WFIs DEF WF, n
        <4>2. a.mode = "call" => n > 1 /\ n > b /\ s.stack[n - 1].fn = "lua"
          BY <1>2 DEF Poised, n, b
        <4>3. a.mode = "ret" => s.stack[n].fn = "pcall" /\ n > b /\ n > 0
          BY <1>2 DEF Poised, n, b
        <4>4. a.mode = "ret" => n > 1 /\ s.stack[n - 1].fn = "lua"
          BY <4>1, <4>3 DEF Stacked, n
        <4> QED
          BY <4>2, <4>3, <4>4, <2>9
      <3>2. m > 1 /\ m > b /\ m - 1 \in 1..m - 1 /\ m = n
        BY <3>1, <2>3, <2>9
      <3>3. p.stack[m - 1].fn = "lua"
        BY <3>1, <3>2, <2>3
      <3> QED
        BY <3>2, <3>3, <2>7, <2>9
    <2>10. CASE /\ a.mode = "start"
                /\ IF b # 0 \/ Depth(p) = 0 THEN go' = Loop(g, "exec") /\ sig' = "return"
                   ELSE IF LastIsG(p) THEN go' = Loop(g, "enter") /\ sig' = "none"
                   ELSE go' = Loop(g, "exec") /\ sig' = "none"
      <3>1. b \in {0, n} /\ m = n
        BY <1>2, <2>3, <2>10 DEF Poised, n, b
      <3>2. CASE b # 0 \/ m = 1
        <4>1. go' = Loop(g, "exec") /\ sig' = "return"
          BY <3>2, <2>3, <2>10
        <4> QED
          BY <4>1, <3>1, <3>2, <2>3, <2>4, <2>8, <1>4
      <3>3. CASE b = 0 /\ m # 1 /\ LastIsG(p)
        <4>1. go' = Loop(g, "enter") /\ sig' = "none"
          BY <3>3, <2>3, <2>10
        <4>2. m > 1 /\ m - 1 \in 1..m - 1
          BY <3>3, <2>3
        <4>3. Poised(TopGo(Loop(g, "enter")), p)
          BY <4>2, <3>3, <2>3, <1>5, <1>6 DEF Poised
        <4> QED
          BY <4>1, <4>3, <2>1, <1>1, <1>3, <1>5, GoPops
      <3>4. CASE b = 0 /\ m # 1 /\ ~LastIsG(p)
        <4>1. go' = Loop(g, "exec") /\ sig' = "none"
          BY <3>4, <2>3, <2>10
        <4>2. m > 1 /\ p.stack[m - 1].fn = "lua" /\ m > b
          BY <3>4, <2>3, <2>5
        <4> QED
          BY <4>1, <4>2, <2>7
      <3> QED
        BY <3>2, <3>3, <3>4
    <2>11. CASE /\ a.mode = "tail"
                /\ IF Depth(p) = 0 \/ m = b THEN go' = Loop(g, "exec") /\ sig' = "return"
                   ELSE IF ~LastIsG(p) THEN go' = Loop(g, "exec") /\ sig' = "none"
                   ELSE IF HasContinuation(p) THEN go' = Invoke(g, "ret") /\ sig' = "none"
                   ELSE go' = Loop(g, "exec") /\ sig' = "return"
      <3>1. CASE m = 1 \/ m = b
        <4>1. go' = Loop(g, "exec") /\ sig' = "return"
          BY <3>1, <2>3, <2>11
        <4>2. a.k # "run" /\ (a.k \in {"meta", "pcall"} => m = b)
          BY <3>1, <2>3, <2>4, <1>4
        <4> QED
          BY <4>1, <4>2, <2>8
      <3>2. CASE m # 1 /\ m # b /\ ~LastIsG(p)
        <4>1. go' = Loop(g, "exec") /\ sig' = "none"
          BY <3>2, <2>3, <2>11
        <4>2. m > 1 /\ p.stack[m - 1].fn = "lua" /\ m > b
          BY <3>2, <2>3, <2>5
        <4> QED
          BY <4>1, <4>2, <2>7
      <3>3. CASE m # 1 /\ m # b /\ LastIsG(p)
        <4>1. m > 1 /\ m - 1 \in 1..m - 1 /\ m > b /\ m - 1 >= b
          BY <3>3, <2>3
        <4>2. /\ m - 1 \in 1..n /\ p.stack[m - 1].fn = "pcall" /\ p.frameExt[m - 1] = "pcall"
              /\ s.stack[m - 1].fn = "pcall"
          BY <4>1, <3>3, <2>3, <2>5
        <4>3. m - 1 # b
          BY <4>2, <1>1, BaseIsNoPcall DEF n, b
        <4>4. go' = Invoke(g, "ret") /\ sig' = "none"
          BY <4>1, <4>2, <3>3, <2>3, <2>6, <2>11
        <4>5. m - 1 > b
          BY <4>1, <4>3, <2>3
        <4>6. Poised(TopGo(Invoke(g, "ret")), p)
          BY <4>1, <4>2, <4>5, <2>3, <1>5, <1>6 DEF Poised
        <4> QED
          BY <4>4, <4>6, <2>1, <1>1, <1>3, <1>5, GoPops
      <3> QED
        BY <3>1, <3>2, <3>3
    <2> QED
      BY <2>2, <2>9, <2>10, <2>11
  <1> QED
    BY <1>7, <1>8

-----------------------------------------------------------------------------
(* Steps of the running thread.                                            *)

\* Threads of the host with frames have been started.
LEMMA BegunIs ==
    ASSUME NEW ts, NEW cur, NEW g, NEW sg, Good(ts, cur, g, sg), NEW t \in Threads
    PROVE  Begun(t, ts[t]) /\ (~ts[t].Dead /\ Depth(ts[t]) > 0 => t \in LuaThreads \/ ts[t].started)
  <1>1. WF(ts[t]) /\ Depth(ts[t]) \in Nat
    BY WFIs DEF Good
  <1>2. \A u \in Threads \ LuaThreads : ~ts[u].Dead /\ Depth(ts[u]) > 0 => ts[u].started
    BY DEF Good, Rested
  <1> QED
    BY <1>1, <1>2 DEF Begun

\* The loop of the running thread moves on, or panics.
LEMMA Rephase ==
    ASSUME NEW ts, NEW cur, NEW g, NEW sg, Good(ts, cur, g, sg), g # <<>>, sg # "return",
           NEW g2, Alike(g, g2), NEW sg2 \in {"none", "panic"},
           sg2 = "none" => Poised(TopGo(g2), ts[TopGo(g).t])
    PROVE  Good(ts, cur, g2, sg2)
  <1> DEFINE t == TopGo(g).t
             s == ts[t]
             a == TopGo(g)
  <1>1. /\ t \in Threads /\ WF(s) /\ ts \in [Threads -> LStates] /\ g \in Seq(Activations)
        /\ a \in Activations
    BY Running, TopIs DEF Good, Shape
  <1>2. a.k \in {"meta", "pcall"} => a.at \in 1..Depth(s)
    BY TopHeld
  <1>3. Keeps(s, s, a)
    BY <1>1, <1>2, WFIs DEF Keeps
  <1>4. Carries(ts, g, s, s) /\ Stays(s, s)
    BY DEF Carries, Stays
  <1>5. Begun(t, s)
    BY <1>1, BegunIs
  <1>6. [ts EXCEPT ![t] = s] = ts
    BY <1>1
  <1>7. g2 # <<>> /\ TopGo(g2).t = t
    BY <1>1, TopAlike
  <1>8. Top(ts, g2, sg2)
    BY <1>7 DEF Top
  <1>9. Top([ts EXCEPT ![t] = s], g2, sg2) /\ sg2 \in {"none", "return", "panic"}
    BY <1>6, <1>8
  <1>10. Good([ts EXCEPT ![t] = s], cur, g2, sg2)
    <2>1. WF(s) /\ Keeps(ts[t], s, TopGo(g)) /\ Carries(ts, g, ts[t], s) /\ Stays(ts[t], s)
          /\ Begun(t, s) /\ t = TopGo(g).t
      BY <1>1, <1>3, <1>4, <1>5
    <2> HIDE DEF t, s
    <2> QED
      BY <2>1, <1>9, Stay
  <1> QED
    BY <1>6, <1>10

\* A Go stack is like itself.
LEMMA AlikeSelf ==
    ASSUME NEW g \in Seq(Activations)
    PROVE  Alike(g, g)
  BY DEF Alike

\* The invariant of the specification.
IInv == Good(thread, CurrentThread, go, sig)

\* What holds while the top activation's thread runs.
LEMMA Now ==
    ASSUME IInv, go # <<>>, sig = "none"
    PROVE  LET a == TopGo(go)
               t == a.t
               s == thread[t]
           IN /\ t \in Threads /\ ~s.Dead /\ s.yieldState = "none" /\ WF(s) /\ Poised(a, s)
              /\ s \in LStates /\ Depth(s) \in Nat /\ Depth(s) > 0 /\ Depth(s) <= MaxDepth
              /\ MaxDepth \in Nat /\ Depth(s) >= baseframe(a) /\ baseframe(a) \in Nat
              /\ thread \in [Threads -> LStates] /\ go \in Seq(Activations) /\ a \in Activations
              /\ Alike(go, go) /\ Stacked(s) /\ Slotted(s) /\ Extended(s)
              /\ (a.k = "run" => s.Parent # NoThread)
              /\ s.Parent \in Threads \cup {NoThread}
              /\ a.k \in {"run", "call", "meta", "pcall"}
              /\ (a.k \in {"meta", "pcall"} =>
                    a.at \in Nat /\ a.at >= 1 /\ baseframe(a) = a.at + 1 /\ a.at < Depth(s))
              /\ (a.k = "run" => baseframe(a) = 0)
              /\ (t \in LuaThreads \/ s.started)
              /\ Good(thread, CurrentThread, go, "none")
  <1> DEFINE a == TopGo(go)
             t == a.t
             s == thread[t]
  <1>1. /\ t \in Threads /\ ~s.Dead /\ s.yieldState = "none" /\ WF(s)
        /\ (a.k = "run" => s.Parent # NoThread) /\ s.Parent \in Threads \cup {NoThread}
    BY Running DEF IInv
  <1>2. /\ s \in LStates /\ Depth(s) \in Nat /\ Depth(s) <= MaxDepth /\ MaxDepth \in Nat
        /\ Stacked(s) /\ Slotted(s) /\ Extended(s)
    BY <1>1, WFIs DEF WF
  <1>3. thread \in [Threads -> LStates] /\ go \in Seq(Activations) /\ a \in Activations
    BY TopIs DEF IInv, Good, Shape
  <1>4. Poised(a, s)
    BY DEF IInv, Good, Top
  <1>5. Depth(s) > 0 /\ Depth(s) >= baseframe(a) /\ baseframe(a) \in Nat
    BY <1>3, <1>4, ActivationIs DEF Poised
  <1>6. /\ a.k \in {"run", "call", "meta", "pcall"}
        /\ (a.k \in {"meta", "pcall"} =>
                    a.at \in Nat /\ a.at >= 1 /\ baseframe(a) = a.at + 1)
        /\ (a.k = "run" => baseframe(a) = 0)
    BY <1>3, TopHeld, ActivationIs DEF IInv
  <1>7. t \in LuaThreads \/ s.started
    BY <1>1, <1>5, BegunIs DEF IInv
  <1>8. Good(thread, CurrentThread, go, "none")
    BY DEF IInv
  <1>9. Alike(go, go)
    BY <1>3, AlikeSelf
  <1> HIDE DEF a, t, s
  <1>10. a.k \in {"meta", "pcall"} => a.at < Depth(s)
    BY <1>2, <1>5, <1>6
  <1> QED
    BY <1>1, <1>2, <1>3, <1>4, <1>5, <1>6, <1>7, <1>8, <1>9, <1>10 DEF a, t, s

\* EnterLoop keeps the invariant.
LEMMA EnterLoopGood ==
    ASSUME IInv, EnterLoop
    PROVE  IInv'
  <1> DEFINE a == TopGo(go)
             s == thread[a.t]
             n == Depth(s)
  <1>1. go # <<>> /\ sig = "none" /\ a.ph = "enter" /\ thread' = thread
        /\ CurrentThread' = CurrentThread
    BY DEF EnterLoop
  <1>2. /\ go \in Seq(Activations) /\ s \in LStates /\ n \in Nat /\ n > 0 /\ Poised(a, s)
        /\ Good(thread, CurrentThread, go, "none")
    BY <1>1, Now
  <1>3. /\ n > 0 /\ n >= baseframe(a) /\ baseframe(a) \in {0, n}
        /\ (s.stack[n].fn = "pcall" => s.frameExt[n] = "pcall")
    BY <1>1, <1>2 DEF Poised
  <1>4. LastIsG(s) <=> s.stack[n].fn # "lua"
    <2>1. s.stack[n].fn \in Fns
      BY <1>2, StateIs
    <2> QED
      BY <2>1, <1>2 DEF LastIsG, Last, IsG, GoFns
  <1>5. CASE LastIsG(s) /\ go' = Invoke(go, "start") /\ sig' = sig
    <2>1. Alike(go, go') /\ TopGo(go').ph = "invoke" /\ TopGo(go').mode = "start"
      BY <1>1, <1>2, <1>5, PhaseAlike
    <2>2. baseframe(TopGo(go')) = baseframe(a)
      BY <2>1, <1>1, <1>2, TopAlike
    <2>3. Poised(TopGo(go'), s)
      BY <2>1, <2>2, <1>3, <1>4, <1>5 DEF Poised
    <2>4. Good(thread, CurrentThread, go', "none")
      BY <2>1, <2>3, <1>1, <1>2, Rephase
    <2> QED
      BY <2>4, <1>1, <1>5 DEF IInv
  <1>6. CASE ~LastIsG(s) /\ go' = Loop(go, "exec") /\ sig' = sig
    <2>1. Alike(go, go') /\ TopGo(go').ph = "exec"
      BY <1>1, <1>2, <1>6, PhaseAlike
    <2>2. baseframe(TopGo(go')) = baseframe(a)
      BY <2>1, <1>1, <1>2, TopAlike
    <2>3. Poised(TopGo(go'), s)
      BY <2>1, <2>2, <1>3, <1>4, <1>6 DEF Poised
    <2>4. Good(thread, CurrentThread, go', "none")
      BY <2>1, <2>3, <1>1, <1>2, Rephase
    <2> QED
      BY <2>4, <1>1, <1>6 DEF IInv
  <1> QED
    BY <1>2, <1>5, <1>6 DEF EnterLoop

\* OP_CALL and OP_TAILCALL push the callee's frame on Lua code.
LEMMA PushGood ==
    ASSUME IInv, go # <<>>, sig = "none", TopGo(go).ph = "exec",
           NEW t, t = TopGo(go).t, NEW fn \in Fns, Depth(thread[t]) < MaxDepth,
           fn = "pcall" => \A i \in 1..Depth(thread[t]) : thread[t].stack[i].op = "none",
           NEW g2, Alike(go, g2),
           LET n == Depth(thread[t])
               a == TopGo(g2)
           IN \/ a.ph = "exec" /\ fn = "lua"
              \/ a.ph = "invoke" /\ a.mode = "call" /\ fn # "lua"
              \/ /\ a.ph = "invoke" /\ a.mode = "tail" /\ fn \notin {"lua", "pcall"}
                 /\ thread[t].stack[n].op = "none"
    PROVE  Good([thread EXCEPT ![t] = pushFrame(thread[t], fn)], CurrentThread, g2, "none")
  <1> DEFINE a == TopGo(go)
             s == thread[t]
             n == Depth(s)
             p == pushFrame(s, fn)
             b == baseframe(a)
             tt == [thread EXCEPT ![t] = p]
  <1>1. /\ t \in Threads /\ ~s.Dead /\ s.yieldState = "none" /\ WF(s) /\ Poised(a, s)
        /\ s \in LStates /\ n \in Nat /\ n > 0 /\ n < MaxDepth /\ n >= b /\ b \in Nat
        /\ thread \in [Threads -> LStates] /\ go \in Seq(Activations)
        /\ a.k \in {"run", "call", "meta", "pcall"}
        /\ (a.k \in {"meta", "pcall"} => a.at \in Nat /\ a.at < n)
        /\ (t \in LuaThreads \/ s.started)
        /\ Good(thread, CurrentThread, go, "none")
    BY Now
  <1>2. s.stack[n].fn = "lua"
    BY <1>1 DEF Poised
  <1>3. WF(p)
    BY <1>1, <1>2, WFPush
  <1>4. /\ Depth(p) = n + 1 /\ (\A i \in 1..n : p.stack[i] = s.stack[i])
        /\ p.stack[n + 1] = Frame(fn) /\ p.frameExt = s.frameExt /\ p.started = s.started
        /\ SameRest(s, p)
    BY <1>1, PushIs
  <1>5. p.stack[n + 1].fn = fn
    BY <1>4 DEF Frame
  <1>6. /\ TopGo(g2).t = t /\ g2 # <<>> /\ baseframe(TopGo(g2)) = b /\ tt[t] = p
        /\ n \in 1..n
    BY <1>1, TopAlike
  <1>7. \/ TopGo(g2).ph = "exec" /\ fn = "lua"
        \/ TopGo(g2).ph = "invoke" /\ TopGo(g2).mode = "call" /\ fn # "lua"
        \/ /\ TopGo(g2).ph = "invoke" /\ TopGo(g2).mode = "tail" /\ fn \notin {"lua", "pcall"}
           /\ s.stack[n].op = "none"
    OBVIOUS
  <1> HIDE DEF p, n, b, tt
  <1>8. Poised(TopGo(g2), p)
    <2>1. n + 1 > 0 /\ n + 1 >= b /\ n + 1 > b /\ n + 1 > 1 /\ (n + 1) - 1 = n
      BY <1>1
    <2> QED
      BY <2>1, <1>2, <1>4, <1>5, <1>6, <1>7 DEF Poised
  <1>9. Top(tt, g2, "none")
    BY <1>6, <1>8 DEF Top
  <1>10. Keeps(s, p, a)
    BY <1>1, <1>4 DEF Keeps
  <1>11. Carries(thread, go, s, p) /\ Stays(s, p) /\ Begun(t, p)
    BY <1>1, <1>4 DEF Carries, Stays, Begun, SameRest
  <1>12. Top([thread EXCEPT ![t] = p], g2, "none") /\ "none" \in {"none", "return", "panic"}
         /\ "none" # "return"
    BY <1>9 DEF tt
  <1>13. Good([thread EXCEPT ![t] = p], CurrentThread, g2, "none")
    BY <1>1, <1>3, <1>10, <1>11, <1>12, Stay
  <1> QED
    BY <1>13 DEF p

\* The programs the hypothesis admits mix no pcall with a metamethod.
LEMMA Unmixed ==
    ASSUME Admitted
    PROVE  /\ \A s : MayPcall(s) => \A i \in 1..Depth(s) : s.stack[i].op = "none"
           /\ \A s : MayMeta(s) => \A i \in 1..Depth(s) :
                                      s.stack[i].op = "none" /\ s.stack[i].fn # "pcall"
           /\ ~MayTail("pcall") /\ "gopcall" \notin Uses
  <1>1. "mixed" \notin Uses /\ "nested" \notin Uses /\ "tailpcall" \notin Uses
        /\ "gopcall" \notin Uses
    BY DEF Admitted
  <1> QED
    BY <1>1 DEF MayPcall, MayMeta, MayTail, InMetamethod, HasFn

\* The top frame of a thread that executes an opcode is Lua code.
LEMMA AtOpcodeIs ==
    ASSUME IInv, NEW t \in Threads, AtOpcode(t)
    PROVE  /\ go # <<>> /\ sig = "none" /\ TopGo(go).t = t /\ TopGo(go).ph = "exec"
           /\ thread[t].stack[Depth(thread[t])].fn = "lua"
           /\ thread[t].stack[Depth(thread[t])].op = "none"
  <1>1. go # <<>> /\ sig = "none" /\ TopGo(go).t = t /\ TopGo(go).ph = "exec"
    BY DEF AtOpcode, Executing
  <1>2. Poised(TopGo(go), thread[t])
    BY <1>1, Now
  <1> QED
    BY <1>1, <1>2 DEF Poised, AtOpcode, Last

\* OP_CALL keeps the invariant.
LEMMA OpCallGood ==
    ASSUME Admitted, IInv, NEW t \in Threads, NEW fn \in Fns, OpCall(t, fn)
    PROVE  IInv'
  <1> DEFINE s == thread[t]
  <1>1. go # <<>> /\ sig = "none" /\ TopGo(go).t = t /\ TopGo(go).ph = "exec"
    BY AtOpcodeIs DEF OpCall
  <1>2. /\ thread' = [thread EXCEPT ![t] = pushFrame(s, fn)] /\ CurrentThread' = CurrentThread
        /\ sig' = "none" /\ go' = (IF fn = "lua" THEN go ELSE Invoke(go, "call"))
        /\ Room(s, fn) /\ (fn = "pcall" => MayPcall(s))
    BY <1>1 DEF OpCall
  <1>3. fn = "pcall" => \A i \in 1..Depth(s) : s.stack[i].op = "none"
    BY <1>2, Unmixed
  <1>4. /\ Depth(s) \in Nat /\ MaxDepth \in Nat /\ Alike(go, go) /\ go \in Seq(Activations)
    BY <1>1, Now
  <1>5. Depth(s) < MaxDepth
    BY <1>2, <1>4 DEF Room
  <1>6. Alike(go, go') /\ (IF fn = "lua" THEN TopGo(go').ph = "exec"
                           ELSE TopGo(go').ph = "invoke" /\ TopGo(go').mode = "call")
    BY <1>1, <1>2, <1>4, PhaseAlike
  <1>7. Good([thread EXCEPT ![t] = pushFrame(s, fn)], CurrentThread, go', "none")
    BY <1>1, <1>3, <1>5, <1>6, PushGood
  <1> QED
    BY <1>2, <1>7 DEF IInv

\* OP_TAILCALL keeps the invariant.
LEMMA OpTailCallGood ==
    ASSUME Admitted, IInv, NEW t \in Threads, NEW fn \in Fns, OpTailCall(t, fn)
    PROVE  IInv'
  <1> DEFINE s == thread[t]
  <1>1. /\ go # <<>> /\ sig = "none" /\ TopGo(go).t = t /\ TopGo(go).ph = "exec"
        /\ s.stack[Depth(s)].op = "none"
    BY AtOpcodeIs DEF OpTailCall
  <1>2. /\ thread' = [thread EXCEPT ![t] = pushFrame(s, fn)] /\ CurrentThread' = CurrentThread
        /\ sig' = "none" /\ go' = Invoke(go, "tail")
        /\ Room(s, fn) /\ fn \in GoFns /\ MayTail(fn)
    BY <1>1 DEF OpTailCall
  <1>3. fn \notin {"lua", "pcall"}
    BY <1>2, Unmixed DEF GoFns
  <1>4. /\ Depth(s) \in Nat /\ MaxDepth \in Nat /\ go \in Seq(Activations)
    BY <1>1, Now
  <1>5. Depth(s) < MaxDepth
    BY <1>2, <1>4 DEF Room
  <1>6. Alike(go, go') /\ TopGo(go').ph = "invoke" /\ TopGo(go').mode = "tail"
    BY <1>1, <1>2, <1>4, PhaseAlike
  <1>7. Good([thread EXCEPT ![t] = pushFrame(s, fn)], CurrentThread, go', "none")
    BY <1>1, <1>3, <1>5, <1>6, PushGood
  <1> QED
    BY <1>2, <1>7 DEF IInv

\* Finishing the suspended opcode keeps the invariant.
LEMMA HandleYieldContinuationGood ==
    ASSUME IInv, NEW t \in Threads, handleYieldContinuation(t)
    PROVE  IInv'
  <1> DEFINE a == TopGo(go)
             s == thread[t]
             n == Depth(s)
             m == Marked(s, n, "none", 0, 0)
             tt == [thread EXCEPT ![t] = m]
  <1>1. /\ go # <<>> /\ sig = "none" /\ a.t = t /\ a.ph = "exec"
        /\ s.yieldCont = n /\ go' = go /\ sig' = sig /\ CurrentThread' = CurrentThread
    BY DEF handleYieldContinuation, Executing
  <1>2. /\ ~s.Dead /\ s.yieldState = "none" /\ WF(s) /\ Poised(a, s)
        /\ s \in LStates /\ n \in Nat /\ n > 0 /\ n <= MaxDepth /\ MaxDepth \in Nat
        /\ n >= baseframe(a) /\ baseframe(a) \in Nat
        /\ thread \in [Threads -> LStates] /\ go \in Seq(Activations) /\ Alike(go, go)
        /\ Slotted(s) /\ (a.k \in {"meta", "pcall"} => a.at \in Nat /\ a.at < n)
        /\ (t \in LuaThreads \/ s.started) /\ Good(thread, CurrentThread, go, "none")
    BY <1>1, Now
  <1>3. thread' = tt
    <2>1. thread' = [thread EXCEPT ![t].yieldCont = 0, ![t].yieldContRB = 0,
                                   ![t].stack[n].op = "none"]
      BY DEF handleYieldContinuation
    <2>2. thread' = [thread EXCEPT ![t] =
            [s EXCEPT !.yieldCont = 0, !.yieldContRB = 0, !.stack[n].op = "none"]]
      BY <2>1, <1>2
    <2>3. [s EXCEPT !.yieldCont = 0, !.yieldContRB = 0, !.stack[n].op = "none"] = m
      BY <1>2 DEF LStates, Marked
    <2> QED
      BY <2>2, <2>3
  <1>4. /\ s.stack[n].fn = "lua" /\ n \in 1..n
        /\ \A i \in 1..n : i # n => s.stack[i].op = "none"
        /\ 0 \in 0..MaxDepth /\ 0 \in 0..MaxDepth + 1
    <2>1. s.stack[n].op = "redo" /\ n \in 1..n
      BY <1>1, <1>2 DEF Slotted
    <2> QED
      BY <2>1, <1>1, <1>2 DEF Slotted, Poised
  <1>5. WF(m)
    BY <1>2, <1>4, WFMarked
  <1>6. IsMarked(s, m, n, "none", 0, 0)
    BY <1>2, <1>4, MarkedIs
  <1> HIDE DEF m, n
  <1>7. /\ Depth(m) = n /\ (\A i \in 1..n : i # n => m.stack[i] = s.stack[i])
        /\ m.stack[n].fn = "lua" /\ m.frameExt = s.frameExt /\ m.started = s.started
        /\ m.yieldState = s.yieldState /\ m.Parent = s.Parent /\ m.Dead = s.Dead
    BY <1>4, <1>6 DEF IsMarked, n
  <1>8. Poised(a, m)
    BY <1>1, <1>2, <1>7 DEF Poised
  <1>9. Top(tt, go, "none")
    BY <1>1, <1>2, <1>8 DEF Top
  <1>10. Keeps(s, m, a)
    <2>1. a.k \in {"meta", "pcall"} => a.at <= n /\ \A i \in 1..a.at : i \in 1..n /\ i # n
      BY <1>2
    <2> QED
      BY <2>1, <1>7 DEF Keeps
  <1>11. Carries(thread, go, s, m) /\ Stays(s, m) /\ Begun(t, m)
    BY <1>2, <1>7 DEF Carries, Stays, Begun
  <1>12. Good([thread EXCEPT ![t] = m], CurrentThread, go, "none")
    BY <1>1, <1>2, <1>5, <1>9, <1>10, <1>11, Stay
  <1> QED
    BY <1>1, <1>3, <1>12 DEF IInv

\* A thread whose Lua code returns from its last frame dies.
LEMMA OpReturnGood ==
    ASSUME IInv, NEW t \in Threads, OpReturn(t)
    PROVE  IInv'
  <1> DEFINE a == TopGo(go)
             s == thread[t]
             n == Depth(s)
             p == popFrame(s)
             b == baseframe(a)
  <1>1. /\ go # <<>> /\ sig = "none" /\ a.t = t /\ a.ph = "exec"
        /\ s.stack[n].fn = "lua" /\ s.stack[n].op = "none"
    BY AtOpcodeIs DEF OpReturn
  <1>2. /\ ~s.Dead /\ s.yieldState = "none" /\ WF(s) /\ Poised(a, s)
        /\ s \in LStates /\ n \in Nat /\ n > 0 /\ n <= MaxDepth /\ MaxDepth \in Nat
        /\ n >= b /\ b \in Nat /\ Stacked(s)
        /\ thread \in [Threads -> LStates] /\ go \in Seq(Activations) /\ Alike(go, go)
        /\ (a.k = "run" => s.Parent # NoThread /\ b = 0)
        /\ (a.k \in {"meta", "pcall"} => a.at \in Nat /\ a.at >= 1 /\ b = a.at + 1)
        /\ Good(thread, CurrentThread, go, "none")
    BY <1>1, Now
  <1>3. CASE s.Parent # NoThread /\ n = 1 /\ switchToParentThread(t, s, "dies") /\ go' = go
    <2> DEFINE d == Died(s)
               tt == [thread EXCEPT ![t] = d]
    <2>1. CurrentThread' = s.Parent /\ thread' = tt /\ sig' = "return"
      BY <1>3 DEF switchToParentThread, Died
    <2>2. WF(d) /\ Gone(d) /\ d.Dead /\ \A i \in 1..MaxDepth : d.frameExt[i] = "none"
      BY <1>1, <1>2, WFDied
    <2> HIDE DEF d
    <2>3. a.k \notin {"meta", "pcall"}
      BY <1>2, <1>3
    <2>4. Keeps(s, d, a) /\ Begun(t, d)
      BY <2>2, <2>3 DEF Keeps, Begun
    <2>5. Carries(thread, go, s, d)
      BY <2>2, ThreadAssumption DEF Carries
    <2>6. Top(tt, go, "return")
      BY <2>2, <2>3, <1>1, <1>2 DEF Top
    <2>7. Good(tt, s.Parent, go, "return")
      BY <2>2, <2>4, <2>5, <2>6, <1>1, <1>2, <1>3, Leave
    <2> QED
      BY <2>1, <2>7, <1>3 DEF IInv
  <1>4. CASE s.Parent = NoThread \/ n # 1
    <2>1. /\ thread' = [thread EXCEPT ![t] = p] /\ CurrentThread' = CurrentThread
          /\ IF b = n \/ Depth(p) = 0 \/ (LastIsG(p) /\ ~HasContinuation(p))
             THEN sig' = "return" /\ go' = go
             ELSE go' = (IF LastIsG(p) THEN Invoke(go, "ret") ELSE go) /\ sig' = sig
      BY <1>4 DEF OpReturn
    <2>2. WF(p)
      BY <1>1, <1>2, WFPop
    <2>3. /\ Depth(p) = n - 1
          /\ \A i \in 1..n - 1 : p.stack[i] = s.stack[i]
          /\ p.frameExt[n] = "none"
          /\ \A i \in 1..MaxDepth : i # n => p.frameExt[i] = s.frameExt[i]
          /\ (p.started <=> n > 1) /\ SameRest(s, p)
      BY <1>2, PopIs
    <2> HIDE DEF p, n, b
    <2>4. \A i \in 1..n - 1 : /\ i \in 1..n
                              /\ p.stack[i].fn = s.stack[i].fn /\ p.stack[i].op = s.stack[i].op
                              /\ p.stack[i].fn \in {"lua", "pcall"}
                              /\ p.stack[i].fn = "pcall" => p.frameExt[i] = "pcall"
      <3>1. \A i \in 1..n - 1 : i \in 1..n /\ i < n /\ i # n /\ i \in 1..MaxDepth
        BY <1>2
      <3> QED
        BY <3>1, <2>3, <1>2 DEF Stacked, n
    <2>5. Below(s, a, s, p)
      <3>1. \A i \in 1..MaxDepth : p.frameExt[i] \in Threads =>
              \E k \in 1..MaxDepth : s.frameExt[k] = p.frameExt[i]
        BY <2>3, ThreadAssumption
      <3>2. p.started <=> Depth(p) > 0
        BY <2>3, <1>2
      <3>3. Stays(s, s) /\ Stays(s, p)
        BY <2>3 DEF Stays, SameRest
      <3> QED
        BY <3>1, <3>2, <3>3, <2>2, <2>3, <2>4, <1>1, <1>2 DEF Below, n, b
    <2>6. LastIsG(p) <=> n > 1 /\ p.stack[n - 1].fn # "lua"
      <3>1. n > 1 => n - 1 \in 1..n - 1
        BY <1>2
      <3> QED
        BY <2>3, <2>4, <3>1, <1>2 DEF LastIsG, Last, IsG, GoFns, Fns
    <2>7. n > 1 /\ LastIsG(p) =>
             /\ p.stack[n - 1].fn = "pcall" /\ p.frameExt[n - 1] = "pcall"
             /\ n - 1 \in 1..n /\ s.stack[n - 1].fn = "pcall" /\ HasContinuation(p)
      <3>1. n > 1 => n - 1 \in 1..n - 1
        BY <1>2
      <3> QED
        BY <3>1, <2>3, <2>4, <2>6 DEF HasContinuation
    <2>8. CASE b = n \/ n = 1
      <3>1. sig' = "return" /\ go' = go
        BY <2>1, <2>3, <2>8, <1>2
      <3>2. a.k # "run" /\ (a.k \in {"meta", "pcall"} => Depth(p) = a.at)
        BY <2>3, <2>8, <1>2, <1>4
      <3>3. Good([thread EXCEPT ![t] = p], CurrentThread, go, "return")
        BY <3>2, <2>5, <1>1, <1>2, GoPops
      <3> QED
        BY <3>1, <3>3, <2>1 DEF IInv
    <2>9. CASE b # n /\ n # 1 /\ LastIsG(p)
      <3>1. n > 1 /\ n > b /\ n - 1 > 0 /\ n - 1 >= b
        BY <2>9, <1>2
      <3>2. sig' = "none" /\ go' = Invoke(go, "ret")
        BY <3>1, <2>1, <2>3, <2>7, <2>9, <1>1
      <3>3. n - 1 # b
        BY <3>1, <2>7, <2>9, <1>1, <1>2, BaseIsNoPcall DEF n, b
      <3>4. n - 1 > b
        BY <3>1, <3>3, <1>2
      <3>5. Alike(go, go') /\ TopGo(go').ph = "invoke" /\ TopGo(go').mode = "ret"
        BY <3>2, <1>1, <1>2, PhaseAlike
      <3>6. baseframe(TopGo(go')) = b
        BY <3>5, <1>1, <1>2, TopAlike DEF b
      <3>7. Poised(TopGo(go'), p)
        BY <3>1, <3>4, <3>5, <3>6, <2>3, <2>7, <2>9 DEF Poised
      <3>8. Good([thread EXCEPT ![t] = p], CurrentThread, go', "none")
        BY <3>5, <3>7, <2>5, <1>1, <1>2, GoPops
      <3> QED
        BY <3>2, <3>8, <2>1 DEF IInv
    <2>10. CASE b # n /\ n # 1 /\ ~LastIsG(p)
      <3>1. n > 1 /\ n > b /\ n - 1 > 0 /\ n - 1 >= b /\ p.stack[n - 1].fn = "lua"
        BY <2>6, <2>10, <1>2
      <3>2. sig' = "none" /\ go' = go
        BY <3>1, <2>1, <2>3, <2>10, <1>1
      <3>3. Poised(a, p)
        BY <3>1, <2>3, <1>1 DEF Poised, b
      <3>4. Good([thread EXCEPT ![t] = p], CurrentThread, go, "none")
        BY <3>3, <2>5, <1>1, <1>2, GoPops
      <3> QED
        BY <3>2, <3>4, <2>1 DEF IInv
    <2> QED
      BY <2>8, <2>9, <2>10
  <1> QED
    BY <1>3, <1>4 DEF OpReturn

\* An error raised by the running thread keeps the invariant.
LEMMA PanicGood ==
    ASSUME IInv, go # <<>>, sig = "none", sig' = "panic", UNCHANGED <<thread, CurrentThread, go>>
    PROVE  IInv'
  <1>1. Good(thread, CurrentThread, go, "none") /\ Alike(go, go)
    BY Now
  <1>2. Good(thread, CurrentThread, go, "panic")
    BY <1>1, Rephase
  <1> QED
    BY <1>2 DEF IInv

\* An error raised by Lua code keeps the invariant.
LEMMA ThrowGood ==
    ASSUME IInv, NEW t \in Threads, Throw(t)
    PROVE  IInv'
  BY PanicGood DEF Throw, AtOpcode, Executing

-----------------------------------------------------------------------------
(* Go functions called by the running thread.                              *)

\* A Go function that changes nothing returns its thread as it was.
LEMMA ReturnedSelf ==
    ASSUME NEW s, WF(s)
    PROVE  Returned(s, s)
  BY DEF Returned, SameRest

\* A Go function that returns without effect keeps the invariant.
LEMMA RefusesGood ==
    ASSUME IInv, NEW t, go # <<>>, sig = "none", TopGo(go).t = t, TopGo(go).ph = "invoke",
           goReturns(t, thread[t], go)
    PROVE  IInv'
  <1>1. Good(thread, CurrentThread, go, "none") /\ WF(thread[t])
    BY Now
  <1>2. Returned(thread[t], thread[t])
    BY <1>1, ReturnedSelf
  <1>3. Good(thread', CurrentThread', go', sig')
    BY <1>1, <1>2, GoReturns
  <1> QED
    BY <1>3 DEF IInv

\* A pcall that refuses to call keeps the invariant.
LEMMA PcallRefusesGood ==
    ASSUME IInv, NEW t \in Threads, pcallRefuses(t)
    PROVE  IInv'
  BY RefusesGood DEF pcallRefuses, Calling, Invoking

\* A bad argument of resume keeps the invariant.
LEMMA CheckThreadGood ==
    ASSUME IInv, NEW t \in Threads, CheckThread(t)
    PROVE  IInv'
  BY PanicGood DEF CheckThread, Calling, Invoking

\* A refused resume keeps the invariant.
LEMMA CoResumeRefusesGood ==
    ASSUME IInv, NEW t \in Threads, NEW th \in Threads, coResumeRefuses(t, th)
    PROVE  IInv'
  <1>1. go # <<>> /\ sig = "none" /\ TopGo(go).t = t /\ TopGo(go).ph = "invoke"
    BY DEF coResumeRefuses, Calling, Invoking
  <1>2. CASE thread[th].wrapped
    BY <1>1, <1>2, PanicGood DEF coResumeRefuses
  <1>3. CASE ~thread[th].wrapped
    BY <1>1, <1>3, RefusesGood DEF coResumeRefuses
  <1> QED
    BY <1>2, <1>3

\* preserveSoleGoYield's state.
Preserved(s, how) ==
    [s EXCEPT !.Parent = NoThread, !.yieldState = how, !.frameExt[Depth(s)] = "sole"]

\* A yield that is its thread's only frame keeps that frame, extended.
LEMMA WFPreserved ==
    ASSUME NEW s, WF(s), ~s.Dead, Depth(s) = 1, NEW how \in {"user", "system"},
           s.stack[1].fn \in {"yield", "goyield"}
    PROVE  LET d == Preserved(s, how) IN
           /\ WF(d) /\ Gone(d) /\ d.started = s.started /\ Depth(d) = 1
           /\ d.yieldState = how /\ ~d.Dead
           /\ d.frameExt[1] = "sole" /\ \A i \in 1..MaxDepth : i # 1 => d.frameExt[i] = s.frameExt[i]
  <1> DEFINE e == [s.frameExt EXCEPT ![1] = "sole"]
             d == Preserved(s, how)
  <1>1. s \in LStates /\ MaxDepth \in Nat /\ 1 <= MaxDepth /\ 1 \in 1..MaxDepth
        /\ s.frameExt \in [1..MaxDepth -> Continuations]
    BY WFIs, StateIs
  <1>2. /\ e \in [1..MaxDepth -> Continuations] /\ e[1] = "sole"
        /\ \A i \in 1..MaxDepth : i # 1 => e[i] = s.frameExt[i]
    BY <1>1 DEF Continuations
  <1>3. d = [s EXCEPT !.Parent = NoThread, !.yieldState = how, !.frameExt = e]
    BY DEF Preserved
  <1> HIDE DEF e
  <1>4. /\ d \in LStates /\ d.stack = s.stack /\ d.frameExt = e /\ d.yieldCont = s.yieldCont
        /\ d.yieldContRB = s.yieldContRB /\ d.Dead = s.Dead /\ d.wrapped = s.wrapped
        /\ d.started = s.started /\ d.Parent = NoThread /\ d.yieldState = how
    BY <1>1, <1>2, <1>3 DEF LStates
  <1> HIDE DEF d
  <1>5. Depth(d) = 1
    BY <1>4 DEF Depth
  <1>6. Suspended(d)
    BY <1>2, <1>4, <1>5 DEF Suspended, HasContinuation
  <1>7. d.wrapped => "wrap" \in Uses
    BY <1>4 DEF WF
  <1>8. WF(d)
    BY <1>1, <1>2, <1>4, <1>6, <1>7, WFContinue
  <1>9. Gone(d)
    BY <1>4 DEF Gone
  <1> QED
    BY <1>2, <1>4, <1>5, <1>8, <1>9 DEF d

\* A yield from Go code keeps the invariant.
LEMMA GoYieldsGood ==
    ASSUME IInv, NEW t \in Threads, NEW fn \in {"yield", "goyield"},
           NEW how \in {"user", "system"}, goYields(t, fn, how)
    PROVE  IInv'
  <1> DEFINE a == TopGo(go)
             s == thread[t]
             n == Depth(s)
             r == afterTail(s, a)
             m == Depth(r)
             b == baseframe(a)
             g2 == Loop(go, "exec")
  <1>1. /\ go # <<>> /\ sig = "none" /\ a.t = t /\ a.ph = "invoke" /\ s.stack[n].fn = fn
        /\ go' = g2
    BY DEF goYields, Calling, Invoking, Last
  <1>2. /\ ~s.Dead /\ s.yieldState = "none" /\ WF(s) /\ Poised(a, s)
        /\ s \in LStates /\ n \in Nat /\ n > 0 /\ n <= MaxDepth /\ MaxDepth \in Nat
        /\ n >= b /\ b \in Nat
        /\ thread \in [Threads -> LStates] /\ go \in Seq(Activations)
        /\ (a.k \in {"meta", "pcall"} => a.at \in Nat /\ a.at >= 1 /\ b = a.at + 1)
        /\ (t \in LuaThreads \/ s.started)
        /\ (a.k = "run" => s.Parent # NoThread)
        /\ Good(thread, CurrentThread, go, "none")
    BY <1>1, Now
  <1>3. /\ n > 0 /\ s.stack[n].fn # "lua"
        /\ a.mode = "tail" => /\ n > 1 /\ n > b /\ s.stack[n - 1].fn = "lua"
                              /\ s.stack[n].fn # "pcall" /\ s.stack[n - 1].op = "none"
    BY <1>1, <1>2 DEF Poised
  <1>4. IsTail(s, r, a)
    BY <1>2, <1>3, TailIs
  <1>5. /\ Alike(go, g2) /\ TopGo(g2).ph = "exec" /\ g2 # <<>> /\ TopGo(g2).k = a.k
        /\ TopGo(g2).t = t /\ TopGo(g2).at = a.at
    BY <1>1, <1>2, PhaseAlike, TopAlike
  <1>6. \/ /\ r.Parent = NoThread /\ thread' = [thread EXCEPT ![t] = r] /\ sig' = "panic"
           /\ CurrentThread' = CurrentThread
        \/ r.Parent # NoThread /\ m = 1 /\ preserveSoleGoYield(t, r, how)
        \/ r.Parent # NoThread /\ m # 1 /\ switchToParentThread(t, r, how)
    BY DEF goYields
  <1> HIDE DEF r, m, n, b, g2
  <1>7. /\ WF(r) /\ m > 0 /\ r.started = s.started /\ SameRest(s, r)
        /\ a.mode # "tail" => r = s
        /\ a.mode = "tail" => m = n - 1
        /\ r.stack[m] = s.stack[n] /\ r.frameExt[m] = s.frameExt[n]
        /\ \A i \in 1..m : i < m => r.stack[i] = s.stack[i] /\ r.frameExt[i] = s.frameExt[i]
        /\ \A i \in 1..MaxDepth : i > m => r.frameExt[i] = "none"
    BY <1>4 DEF IsTail, m, n
  <1>8. m \in Nat /\ m <= MaxDepth /\ m <= n /\ m >= b /\ n \in 1..MaxDepth
    <2>1. m \in Nat /\ m <= MaxDepth
      BY <1>7, WFIs DEF m
    <2>2. a.mode # "tail" => m = n
      BY <1>7 DEF m, n
    <2> QED
      BY <2>1, <2>2, <1>2, <1>3, <1>7
  <1>9. ~r.Dead /\ r.yieldState = "none" /\ Stays(s, r) /\ r.Parent = s.Parent
    BY <1>2, <1>7 DEF SameRest, Stays
  <1>10. r.stack[m].fn = fn /\ r.stack[m].op = "none"
    <2>1. Stacked(r) /\ m \in 1..m
      BY <1>7, <1>8, <1>9 DEF WF
    <2> QED
      BY <2>1, <1>1, <1>3, <1>7 DEF Stacked, m, n
  <1>11. \A i \in 1..MaxDepth : r.frameExt[i] \in Threads =>
            \E k \in 1..MaxDepth : s.frameExt[k] = r.frameExt[i]
    <2> SUFFICES ASSUME NEW i \in 1..MaxDepth, r.frameExt[i] \in Threads
                 PROVE  \E k \in 1..MaxDepth : s.frameExt[k] = r.frameExt[i]
      OBVIOUS
    <2>1. i <= m
      BY <1>7, <1>8, ThreadAssumption
    <2>2. CASE i = m
      BY <2>2, <1>7, <1>8
    <2>3. CASE i # m
      BY <2>1, <2>3, <1>7, <1>8
    <2> QED
      BY <2>2, <2>3
  <1>12. a.k \in {"meta", "pcall"} => /\ m > 1 /\ a.at <= m - 1
                                      /\ \A i \in 1..a.at : i \in 1..m /\ i < m /\ i \in 1..m - 1
    BY <1>2, <1>8
  <1>13. CASE r.Parent = NoThread /\ thread' = [thread EXCEPT ![t] = r] /\ sig' = "panic"
              /\ CurrentThread' = CurrentThread
    <2>1. Keeps(s, r, a)
      <3>1. a.k \in {"meta", "pcall"} => a.at <= m /\ \A i \in 1..a.at : r.stack[i] = s.stack[i]
        BY <1>2, <1>7, <1>8, <1>12
      <3> QED
        BY <3>1 DEF Keeps, m
    <2>2. Carries(thread, go, s, r) /\ Begun(t, r)
      BY <1>2, <1>7, <1>11 DEF Carries, Begun
    <2>3. Top([thread EXCEPT ![t] = r], g2, "panic") /\ "panic" \in {"none", "return", "panic"}
      BY <1>5 DEF Top
    <2>4. Good([thread EXCEPT ![t] = r], CurrentThread, g2, "panic")
      BY <2>1, <2>2, <2>3, <1>1, <1>2, <1>5, <1>7, <1>9, Stay
    <2> QED
      BY <2>4, <1>1, <1>13 DEF IInv
  <1>14. CASE r.Parent # NoThread /\ m = 1 /\ preserveSoleGoYield(t, r, how)
    <2> DEFINE d == Preserved(r, how)
               tt == [thread EXCEPT ![t] = d]
    <2>1. CurrentThread' = s.Parent /\ thread' = tt /\ sig' = "return"
      BY <1>9, <1>14 DEF preserveSoleGoYield, Preserved
    <2>2. /\ WF(d) /\ Gone(d) /\ d.started = r.started /\ ~d.Dead
          /\ d.frameExt[1] = "sole" /\ \A i \in 1..MaxDepth : i # 1 => d.frameExt[i] = r.frameExt[i]
      BY <1>7, <1>9, <1>10, <1>14, WFPreserved DEF m
    <2> HIDE DEF d
    <2>3. a.k \notin {"meta", "pcall"}
      BY <1>12, <1>14
    <2>4. Keeps(s, d, a) /\ Begun(t, d)
      BY <2>2, <2>3, <1>2, <1>7 DEF Keeps, Begun
    <2>5. Carries(thread, go, s, d)
      BY <2>2, <1>11, ThreadAssumption DEF Carries
    <2>6. Top(tt, g2, "return")
      BY <2>2, <2>3, <1>5, <1>2 DEF Top
    <2>7. Good(tt, s.Parent, g2, "return")
      BY <2>2, <2>4, <2>5, <2>6, <1>1, <1>2, <1>5, <1>9, <1>14, Leave
    <2> QED
      BY <2>1, <2>7, <1>1 DEF IInv
  <1>15. CASE r.Parent # NoThread /\ m # 1 /\ switchToParentThread(t, r, how)
    <2> DEFINE d == Yielded(r, how)
               tt == [thread EXCEPT ![t] = d]
    <2>1. CurrentThread' = s.Parent /\ thread' = tt /\ sig' = "return"
      BY <1>9, <1>15 DEF switchToParentThread, Yielded
    <2>2. /\ WF(d) /\ Gone(d) /\ d.yieldState = how /\ ~d.Dead /\ d.started
          /\ Depth(d) = m - 1
          /\ \A i \in 1..m - 1 : d.stack[i] = r.stack[i]
          /\ \A i \in 1..MaxDepth : i # m => d.frameExt[i] = r.frameExt[i]
          /\ d.frameExt[m] = "none"
      <3>1. m > 1
        BY <1>7, <1>8, <1>15
      <3> QED
        BY <3>1, <1>7, <1>9, <1>10, WFYielded DEF m
    <2> HIDE DEF d
    <2>3. Keeps(s, d, a)
      <3>1. a.k \in {"meta", "pcall"} => \A i \in 1..a.at : d.stack[i] = s.stack[i]
        BY <2>2, <1>7, <1>12
      <3> QED
        BY <3>1, <2>2, <1>12 DEF Keeps
    <2>4. Carries(thread, go, s, d) /\ Begun(t, d)
      BY <2>2, <1>11, ThreadAssumption DEF Carries, Begun
    <2>5. Top(tt, g2, "return")
      BY <2>2, <1>5, <1>2 DEF Top
    <2>6. Good(tt, s.Parent, g2, "return")
      BY <2>2, <2>3, <2>4, <2>5, <1>1, <1>2, <1>5, <1>9, <1>15, Leave
    <2> QED
      BY <2>1, <2>6, <1>1 DEF IInv
  <1> QED
    BY <1>6, <1>13, <1>14, <1>15

\* The continuation of a frame is taken off before it runs.
Unextended(s) == [s EXCEPT !.frameExt[Depth(s)] = "none"]

\* Removing the top frame's extension keeps a running thread well formed.
LEMMA UnextendedIs ==
    ASSUME NEW s, WF(s), ~s.Dead, s.yieldState = "none", Depth(s) > 0
    PROVE  LET d == Unextended(s) IN
           /\ WF(d) /\ Returned(s, d) /\ d.frameExt[Depth(s)] = "none" /\ d.stack = s.stack
           /\ \A i \in 1..MaxDepth : i # Depth(s) => d.frameExt[i] = s.frameExt[i]
  <1> DEFINE n == Depth(s)
             e == [s.frameExt EXCEPT ![n] = "none"]
             d == Unextended(s)
  <1>1. s \in LStates /\ MaxDepth \in Nat /\ n \in 1..MaxDepth
        /\ s.frameExt \in [1..MaxDepth -> Continuations]
    BY WFIs, StateIs
  <1>2. /\ e \in [1..MaxDepth -> Continuations] /\ e[n] = "none"
        /\ \A i \in 1..MaxDepth : i # n => e[i] = s.frameExt[i]
    BY <1>1 DEF Continuations
  <1>3. d = [s EXCEPT !.frameExt = e]
    BY DEF Unextended
  <1> HIDE DEF e
  <1>4. /\ d \in LStates /\ d.stack = s.stack /\ d.frameExt = e /\ d.started = s.started
        /\ SameRest(s, d)
    BY <1>1, <1>2, <1>3 DEF LStates, SameRest
  <1> HIDE DEF d
  <1>5. Depth(d) = n
    BY <1>4 DEF Depth
  <1>6. Suspended(d) /\ d.yieldCont = s.yieldCont /\ d.yieldContRB = s.yieldContRB
        /\ d.Dead = s.Dead /\ (d.wrapped => "wrap" \in Uses)
    BY <1>4 DEF Suspended, SameRest, WF
  <1>7. WF(d)
    BY <1>1, <1>2, <1>4, <1>6, WFContinue
  <1>8. Returned(s, d)
    <2>1. \A i \in 1..MaxDepth : e[i] \in Threads => e[i] = s.frameExt[i]
      BY <1>2, ThreadAssumption
    <2> QED
      BY <2>1, <1>4, <1>5, <1>7 DEF Returned
  <1> QED
    BY <1>2, <1>4, <1>7, <1>8 DEF d

\* The continuation of a pcall or a lone yield keeps the invariant.
LEMMA ContinuationReturns ==
    ASSUME IInv, NEW t \in Threads, continuation(t),
           thread[t].frameExt[Depth(thread[t])] \notin Threads
    PROVE  IInv'
  <1> DEFINE s == thread[t]
  <1>1. /\ go # <<>> /\ sig = "none" /\ TopGo(go).t = t /\ TopGo(go).ph = "invoke"
        /\ goReturns(t, Unextended(s), go)
    BY DEF continuation, Invoking, Unextended
  <1>2. WF(s) /\ ~s.Dead /\ s.yieldState = "none" /\ Depth(s) > 0
        /\ Good(thread, CurrentThread, go, "none")
    BY <1>1, Now
  <1>3. Returned(s, Unextended(s))
    BY <1>2, UnextendedIs
  <1>4. Good(thread', CurrentThread', go', sig')
    BY <1>1, <1>2, <1>3, GoReturns
  <1> QED
    BY <1>4 DEF IInv

-----------------------------------------------------------------------------
(* A panic reaches threadRun.                                              *)

\* Some protecting frame is the highest.
LEMMA LargestExists ==
    ASSUME NEW n \in Nat, NEW P \in SUBSET (1..n), P # {}
    PROVE  \E x \in P : \A y \in P : y <= x
  <1> DEFINE less == OpToRel(<, Nat)
             T == {n - i : i \in P}
  <1>1. IsWellFoundedOn(less, Nat)
    BY NatLessThanWellFounded
  <1>2. \A y, x \in Nat : y < x => <<y, x>> \in less
    BY DEF OpToRel
  <1>3. T \subseteq Nat /\ T # {} /\ \A i \in P : n - i \in T
    <2>1. \A i \in P : i \in 1..n
      OBVIOUS
    <2>2. \A i \in P : n - i \in Nat
      BY <2>1
    <2> QED
      BY <2>2
  <1>4. \A z \in T : \E i \in P : z = n - i
    OBVIOUS
  <1> HIDE DEF less, T
  <1>5. PICK z \in T : \A y \in T : ~ (<<y, z>> \in less)
    BY <1>1, <1>3, WFMin, Zenon
  <1>6. PICK x \in P : z = n - x
    BY <1>4
  <1>7. ASSUME NEW y \in P PROVE y <= x
    <2>1. n - y \in T /\ n - y \in Nat /\ z \in Nat
      BY <1>3
    <2>2. ~ (n - y < z)
      BY <1>2, <1>5, <2>1
    <2>3. x \in Nat /\ y \in Nat
      OBVIOUS
    <2> QED
      BY <2>1, <2>2, <2>3, <1>6
  <1> QED
    BY <1>7

\* Catching an error at an armed pcall of the running loop keeps the invariant.
LEMMA HandleProtectedErrorGood ==
    ASSUME IInv, go # <<>>, handleProtectedError
    PROVE  IInv'
  <1> DEFINE a == TopGo(go)
             t == a.t
             s == thread[t]
             n == Depth(s)
             P == Protecting(s)
             i == CHOOSE x \in P : \A y \in P : y <= x
             u == unwindCallFrames(s, i - 1)
             g2 == Loop(go, "enter")
             tt == [thread EXCEPT ![t] = u]
  <1>1. /\ sig = "panic" /\ a.k = "run" /\ P # {} /\ go' = g2 /\ sig' = "none"
        /\ CurrentThread' = CurrentThread
    BY DEF handleProtectedError
  <1>2. thread' = tt
    BY DEF handleProtectedError
  <1>3. /\ t \in Threads /\ ~s.Dead /\ s.yieldState = "none" /\ WF(s)
        /\ thread \in [Threads -> LStates] /\ go \in Seq(Activations) /\ a \in Activations
        /\ Good(thread, CurrentThread, go, "panic")
    BY <1>1, Running, TopIs DEF IInv, Good, Shape
  <1>4. n \in Nat /\ s \in LStates /\ Stacked(s) /\ MaxDepth \in Nat /\ n <= MaxDepth
    BY <1>3, WFIs DEF WF
  <1>5. i \in P
    <2>1. P \in SUBSET (1..n)
      BY DEF Protecting
    <2>2. \E x \in P : \A y \in P : y <= x
      BY <2>1, <1>1, <1>4, LargestExists
    <2> HIDE DEF P
    <2> QED
      BY <2>2
  <1> HIDE DEF i
  <1>6. i \in 1..n /\ s.stack[i].Protected
    BY <1>5 DEF Protecting
  <1>7. i > 1 /\ s.stack[i - 1].fn = "lua"
    BY <1>4, <1>6 DEF Stacked
  <1>8. i - 1 \in Nat /\ i - 1 <= n /\ i - 1 > 0 /\ i - 1 \in 1..i - 1
    BY <1>4, <1>6, <1>7
  <1>9. WF(u)
    BY <1>3, <1>8, WFUnwind
  <1>10. /\ Depth(u) = i - 1
         /\ \A j \in 1..i - 1 : u.stack[j] = s.stack[j]
         /\ \A j \in 1..MaxDepth : u.frameExt[j] = IF j \in (i - 1) + 1..n THEN "none"
                                                                     ELSE s.frameExt[j]
         /\ u.yieldState = s.yieldState /\ u.Parent = s.Parent /\ u.Dead = s.Dead
         /\ (u.started <=> i - 1 > 0)
    BY <1>4, <1>8, UnwindIs
  <1>11. /\ Alike(go, g2) /\ TopGo(g2).ph = "enter" /\ g2 # <<>> /\ TopGo(g2).t = t
         /\ baseframe(TopGo(g2)) = baseframe(a)
    BY <1>3, PhaseAlike, TopAlike
  <1>12. baseframe(a) = 0
    BY <1>1, <1>3, ActivationIs
  <1> HIDE DEF u, g2
  <1>13. Poised(TopGo(g2), u)
    BY <1>7, <1>8, <1>10, <1>11, <1>12 DEF Poised
  <1>14. Top(tt, g2, "none") /\ "none" \in {"none", "return", "panic"} /\ "panic" # "return"
    BY <1>3, <1>11, <1>13 DEF Top
  <1>15. Keeps(s, u, a)
    BY <1>1 DEF Keeps
  <1>16. Carries(thread, go, s, u) /\ Begun(t, u) /\ Stays(s, u)
    <2>1. u.started
      BY <1>8, <1>10
    <2>2. \A j \in 1..MaxDepth : u.frameExt[j] \in Threads => u.frameExt[j] = s.frameExt[j]
      BY <1>10, ThreadAssumption
    <2> QED
      BY <2>1, <2>2, <1>10 DEF Carries, Begun, Stays
  <1>17. Good([thread EXCEPT ![t] = u], CurrentThread, g2, "none")
    <2>1. t = TopGo(go).t
      OBVIOUS
    <2> HIDE DEF t
    <2> QED
      BY <2>1, <1>3, <1>9, <1>11, <1>14, <1>15, <1>16, Stay
  <1> QED
    BY <1>1, <1>2, <1>17 DEF IInv

\* A dead thread's frames do not matter.
LEMMA WFBuried ==
    ASSUME NEW s, WF(s)
    PROVE  /\ WF(Died(s)) /\ Gone(Died(s)) /\ Died(s).Dead
           /\ \A i \in 1..MaxDepth : Died(s).frameExt[i] = "none"
  <1> DEFINE n == Depth(s)
             st == SubSeq(s.stack, 1, n - 1)
             e == [s.frameExt EXCEPT ![n] = "none"]
             b == n > 1
             q == popFrame(s)
             p == [q EXCEPT !.Parent = NoThread]
             k == kill(p)
  <1>1. s \in LStates /\ n \in Nat /\ n <= MaxDepth /\ MaxDepth \in Nat
        /\ s.stack \in Seq(Frames) /\ n = Len(s.stack)
        /\ s.frameExt \in [1..MaxDepth -> Continuations]
    BY WFIs, StateIs DEF Depth
  <1>2. q = [s EXCEPT !.stack = st, !.frameExt = e, !.started = b] /\ b \in BOOLEAN
    BY DEF popFrame
  <1>3. e \in [1..MaxDepth -> Continuations]
    BY <1>1 DEF Continuations
  <1> HIDE DEF n
  <1>4. st \in Seq(Frames) /\ Len(st) <= n /\ Len(st) \in Nat /\ (n > 1 => Len(st) > 0)
    <2>1. CASE n = 0
      <3>1. n - 1 < 1
        BY <2>1
      <3>2. s.stack = <<>>
        BY <2>1, <1>1
      <3> QED
        BY <2>1, <3>1, <3>2, <1>1
    <2>2. CASE n # 0
      BY <2>2, <1>1
    <2> QED
      BY <2>1, <2>2
  <1> HIDE DEF st, e, b
  <1>5. q \in LStates /\ q.stack = st /\ q.started = b /\ q.wrapped = s.wrapped
    BY <1>1, <1>2, <1>3, <1>4 DEF LStates
  <1> HIDE DEF q
  <1>6. p \in LStates /\ p.stack = st /\ p.started = b /\ p.wrapped = s.wrapped /\ p.Parent = NoThread
    BY <1>5 DEF LStates
  <1> HIDE DEF p
  <1>7. /\ k \in LStates /\ k.stack = st /\ Depth(k) = Depth(p)
        /\ k.yieldCont = 0 /\ k.yieldContRB = 0 /\ k.yieldState = "none" /\ k.Dead
        /\ \A i \in 1..MaxDepth : k.frameExt[i] = "none"
        /\ k.Parent = NoThread /\ k.wrapped = s.wrapped /\ k.started = b
    BY <1>6, KillIs
  <1>8. Died(s) = k
    BY DEF Died, k, p, q
  <1> HIDE DEF k
  <1>9. Depth(k) = Len(st)
    BY <1>7 DEF Depth
  <1>10. Depth(k) <= MaxDepth /\ (k.started => Depth(k) > 0)
    <2>1. k.started <=> n > 1
      BY <1>7 DEF b
    <2> QED
      BY <2>1, <1>1, <1>4, <1>9
  <1>11. k.wrapped => "wrap" \in Uses
    BY <1>7 DEF WF
  <1>12. WF(k)
    BY <1>7, <1>10, <1>11 DEF WF, Suspended, Buried
  <1> QED
    BY <1>7, <1>8, <1>12 DEF Gone

\* The error becomes the result of the thread's coroutine.resume.
LEMMA ThreadFailsReturns ==
    ASSUME IInv, go # <<>>, threadFails, thread[TopGo(go).t].Parent # NoThread,
           ~thread[TopGo(go).t].wrapped
    PROVE  IInv'
  <1> DEFINE a == TopGo(go)
             t == a.t
             s == thread[t]
             d == Died(s)
             tt == [thread EXCEPT ![t] = d]
  <1>1. sig = "panic" /\ a.k = "run" /\ switchToParentThread(t, s, "dies") /\ go' = go
    BY DEF threadFails
  <1>2. CurrentThread' = s.Parent /\ thread' = tt /\ sig' = "return"
    BY <1>1 DEF switchToParentThread, Died
  <1>3. /\ t \in Threads /\ WF(s) /\ s.Parent # NoThread
        /\ thread \in [Threads -> LStates] /\ go \in Seq(Activations) /\ a \in Activations
        /\ Good(thread, CurrentThread, go, "panic")
    BY <1>1, Running, TopIs DEF IInv, Good, Shape
  <1>4. WF(d) /\ Gone(d) /\ d.Dead /\ \A i \in 1..MaxDepth : d.frameExt[i] = "none"
    BY <1>3, WFBuried
  <1> HIDE DEF d
  <1>5. Keeps(s, d, a) /\ Begun(t, d)
    BY <1>1, <1>4 DEF Keeps, Begun
  <1>6. Carries(thread, go, s, d)
    BY <1>4, ThreadAssumption DEF Carries
  <1>7. Top(tt, go, "return")
    BY <1>1, <1>3, <1>4 DEF Top
  <1>8. Alike(go, go) /\ "panic" # "return" /\ t = TopGo(go).t
    BY <1>3, AlikeSelf
  <1>9. Good(tt, s.Parent, go, "return")
    <2> HIDE DEF t
    <2> QED
      BY <1>3, <1>4, <1>5, <1>6, <1>7, <1>8, Leave
  <1> QED
    BY <1>1, <1>2, <1>9 DEF IInv

-----------------------------------------------------------------------------
(* Calls that nest another loop on the Go stack.                           *)

\* Append puts one activation on top.
LEMMA AppendIs ==
    ASSUME NEW g \in Seq(Activations), NEW b \in Activations
    PROVE  LET h == Append(g, b) IN
           /\ h \in Seq(Activations) /\ Len(h) = Len(g) + 1 /\ Len(g) \in Nat /\ h # <<>>
           /\ TopGo(h) = b /\ h[Len(g) + 1] = b
           /\ \A j \in 1..Len(g) : h[j] = g[j] /\ j \in 1..Len(h)
           /\ \A j \in 1..Len(h) : j \in 1..Len(g) \/ j = Len(g) + 1
  <1> DEFINE h == Append(g, b)
             n == Len(g)
  <1>1. h \in Seq(Activations) /\ Len(h) = n + 1 /\ n \in Nat /\ h[n + 1] = b
        /\ \A j \in 1..n : h[j] = g[j]
    OBVIOUS
  <1> HIDE DEF h, n
  <1>2. h # <<>> /\ TopGo(h) = b
    BY <1>1 DEF TopGo
  <1>3. /\ \A j \in 1..n : j \in 1..n + 1
        /\ \A j \in 1..n + 1 : j \in 1..n \/ j = n + 1
    BY <1>1
  <1> QED
    BY <1>1, <1>2, <1>3 DEF h, n

\* A nested loop of the running thread's own.
LEMMA ShapePush ==
    ASSUME NEW g, Shape(g), g # <<>>, NEW b \in Activations, b.k \in {"meta", "pcall"},
           b.t = TopGo(g).t, baseframe(TopGo(g)) <= b.at
    PROVE  Shape(Append(g, b))
  <1> DEFINE h == Append(g, b)
             n == Len(g)
             a == TopGo(g)
  <1>1. /\ h \in Seq(Activations) /\ Len(h) = n + 1 /\ n \in Nat /\ h # <<>>
        /\ h[n + 1] = b /\ (\A j \in 1..n : h[j] = g[j] /\ j \in 1..n + 1)
        /\ \A j \in 1..n + 1 : j \in 1..n \/ j = n + 1
    BY AppendIs DEF Shape
  <1>2. /\ g \in Seq(Activations) /\ n > 0 /\ n \in 1..n /\ a = g[n] /\ a \in Activations
        /\ \A j \in 1..n : g[j] \in Activations
    BY TopIs DEF Shape
  <1>3. /\ g[1].k \in {"run", "call"} /\ a.k # "resume" /\ Stepwise(g) /\ Owned(g) /\ Apart(g)
        /\ Rooted(g)
    BY <1>2 DEF Shape, Ends
  <1>4. a.at \in Nat /\ b.at \in Nat /\ baseframe(a) \in Nat /\ b.k # "run" /\ b.k # "resume"
        /\ b.k # "call" /\ b.t = a.t /\ baseframe(a) <= b.at
        /\ (a.k # "run" => a.at < b.at)
    BY <1>2, ActivationIs
  <1> HIDE DEF h, n, a
  <1>5. Ends(h)
    BY <1>1, <1>2, <1>3, <1>4 DEF Ends
  <1>6. Stepwise(h)
    <2> SUFFICES ASSUME NEW j \in 1..n + 1, j > 1
                 PROVE  Joined(h[j - 1], h[j])
      BY <1>1 DEF Stepwise
    <2>1. CASE j = n + 1
      <3>1. h[j - 1] = a /\ h[j] = b
        BY <2>1, <1>1, <1>2
      <3> QED
        BY <3>1, <1>3, <1>4 DEF Joined
    <2>2. CASE j # n + 1
      <3>1. j \in 1..n /\ j - 1 \in 1..n
        BY <2>2, <1>1, <1>2
      <3> QED
        BY <3>1, <1>1, <1>3 DEF Stepwise, n
    <2> QED
      BY <2>1, <2>2
  <1>7. Owned(h)
    BY <1>1, <1>3, <1>4 DEF Owned, n
  <1>8. Apart(h)
    <2> SUFFICES ASSUME NEW i \in 1..n + 1, NEW j \in 1..n + 1, i < j
                 PROVE  /\ h[i].k = "resume" => h[i].t # h[j].t
                        /\ h[j].k = "run" => h[i].t # h[j].t
                        /\ h[i].t = h[j].t => baseframe(h[i]) <= h[j].at
      BY <1>1 DEF Apart
    <2>1. i \in 1..n /\ h[i] = g[i]
      BY <1>1
    <2>2. CASE j = n + 1
      <3>1. h[j] = b
        BY <2>2, <1>1
      <3>2. CASE i = n
        BY <3>1, <3>2, <2>1, <1>2, <1>3, <1>4
      <3>3. CASE i # n
        <4>1. i < n
          BY <3>3, <2>1, <1>2
        <4>2. /\ g[i].k = "resume" => g[i].t # a.t
              /\ a.k = "run" => g[i].t # a.t
              /\ g[i].t = a.t => baseframe(g[i]) <= a.at
          BY <4>1, <2>1, <1>2, <1>3 DEF Apart, n
        <4>3. baseframe(g[i]) \in Nat
          BY <2>1, <1>2, ActivationIs
        <4> QED
          BY <4>2, <4>3, <3>1, <2>1, <1>4
      <3> QED
        BY <3>2, <3>3
    <2>3. CASE j # n + 1
      BY <2>1, <2>3, <1>1, <1>3 DEF Apart, n
    <2> QED
      BY <2>2, <2>3
  <1>9. Rooted(h)
    <2> SUFFICES ASSUME NEW j \in 1..n + 1
                 PROVE  \E i \in 1..n + 1 :
                           i <= j /\ h[i].t = h[j].t /\ h[i].k \in {"run", "call"}
      BY <1>1 DEF Rooted
    <2>1. PICK x \in 1..n : x <= j /\ h[j].t = g[x].t
      <3>1. CASE j = n + 1
        BY <3>1, <1>1, <1>2, <1>4
      <3>2. CASE j # n + 1
        BY <3>2, <1>1
      <3> QED
        BY <3>1, <3>2
    <2>2. PICK i \in 1..n : i <= x /\ g[i].t = g[x].t /\ g[i].k \in {"run", "call"}
      BY <2>1, <1>3 DEF Rooted, n
    <2>3. i <= j
      BY <2>1, <2>2, <1>2
    <2> QED
      BY <2>1, <2>2, <2>3, <1>1
  <1> QED
    BY <1>1, <1>5, <1>6, <1>7, <1>8, <1>9 DEF Shape, h

\* The running thread calls a nested loop.
LEMMA PushActivation ==
    ASSUME NEW ts, NEW cur, NEW g, Good(ts, cur, g, "panic"), g # <<>>,
           NEW b \in Activations, b.k \in {"meta", "pcall"},
           b.t = TopGo(g).t, baseframe(TopGo(g)) <= b.at,
           Holds(TopGo(g), b, ts[b.t]), Poised(b, ts[b.t])
    PROVE  Good(ts, cur, Append(g, b), "none")
  <1> DEFINE h == Append(g, b)
             n == Len(g)
             a == TopGo(g)
  <1>0. g \in Seq(Activations) /\ Shape(g)
    BY DEF Good, Shape
  <1>1. /\ h \in Seq(Activations) /\ Len(h) = n + 1 /\ n \in Nat /\ h # <<>> /\ TopGo(h) = b
        /\ h[n + 1] = b /\ (\A j \in 1..n : h[j] = g[j] /\ j \in 1..n + 1)
        /\ \A j \in 1..n + 1 : j \in 1..n \/ j = n + 1
    BY <1>0, AppendIs
  <1>2. n > 0 /\ n \in 1..n /\ a = g[n] /\ a \in Activations
    BY <1>0, TopIs
  <1>3. Shape(h)
    BY <1>0, ShapePush
  <1> HIDE DEF h, n, a
  <1>4. Held(ts, h)
    <2> SUFFICES ASSUME NEW j \in 1..n + 1, j > 1
                 PROVE  Holds(h[j - 1], h[j], ts[h[j].t])
      BY <1>1 DEF Held
    <2>1. CASE j = n + 1
      <3>1. h[j - 1] = a /\ h[j] = b
        BY <2>1, <1>1, <1>2
      <3> QED
        BY <3>1 DEF a
    <2>2. CASE j # n + 1
      <3>1. j \in 1..n /\ j - 1 \in 1..n
        BY <2>2, <1>1, <1>2
      <3>2. Holds(g[j - 1], g[j], ts[g[j].t])
        BY <3>1 DEF Good, Held, n
      <3> QED
        BY <3>1, <3>2, <1>1
    <2> QED
      BY <2>1, <2>2
  <1>5. \A j \in 1..n : Resumer(h, j) = Resumer(g, j)
    <2>1. \A j \in 1..n : j # 1 => j - 1 \in 1..n
      BY <1>1
    <2> QED
      BY <2>1, <1>1 DEF Resumer
  <1>6. Parents(ts, h, "none")
    <2>1. \A j \in 1..n : g[j].k = "run" =>
            ts[g[j].t].Parent = Resumer(g, j) /\ ~ts[g[j].t].Dead /\ ts[g[j].t].yieldState = "none"
      BY DEF Good, Parents, n
    <2> SUFFICES ASSUME NEW j \in 1..n + 1, h[j].k = "run"
                 PROVE  ts[h[j].t].Parent = Resumer(h, j) /\ ~ts[h[j].t].Dead
                        /\ ts[h[j].t].yieldState = "none"
      BY <1>1 DEF Parents
    <2>2. j \in 1..n
      BY <1>1
    <2> QED
      BY <2>1, <2>2, <1>1, <1>5
  <1>7. Top(ts, h, "none")
    BY <1>1 DEF Top
  <1>8. Current(ts, cur, h, "none")
    BY <1>1 DEF Good, Current
  <1>9. \A c \in Threads : OffGo(h, c) <=> OffGo(g, c)
    <2>1. \A c : OffGo(h, c) => OffGo(g, c)
      BY <1>1 DEF OffGo, n
    <2>2. \A c : OffGo(g, c) => c # b.t
      BY <1>2 DEF OffGo, n, a
    <2>3. \A c : OffGo(g, c) => OffGo(h, c)
      BY <2>2, <1>1 DEF OffGo, n
    <2> QED
      BY <2>1, <2>3
  <1>10. Rested(ts, h)
    BY <1>9 DEF Good, Rested
  <1>11. Awaits(ts, h)
    BY <1>9 DEF Good, Awaits
  <1> QED
    BY <1>3, <1>4, <1>6, <1>7, <1>8, <1>10, <1>11 DEF Good, h

\* The fields of a new activation.
LEMMA NewActivation ==
    ASSUME NEW k \in {"run", "meta", "pcall", "call"}, NEW t \in Threads, NEW n \in 0..MaxDepth
    PROVE  LET b == Activation(k, t, n) IN
           /\ b \in Activations /\ b.k = k /\ b.t = t /\ b.at = n
           /\ b.ph = "enter" /\ b.mode = "start"
           /\ baseframe(b) = IF k = "run" THEN 0 ELSE n + 1
  BY DEF Activation, Activations, baseframe

\* Calling a metamethod keeps the invariant.
LEMMA OpMetaGood ==
    ASSUME Admitted, IInv, NEW t \in Threads, NEW fn \in {"lua", "goyield"}, OpMeta(t, fn)
    PROVE  IInv'
  <1> DEFINE a == TopGo(go)
             s == thread[t]
             n == Depth(s)
             m == Marked(s, n, "call", 0, s.yieldContRB)
             p == pushFrame(m, fn)
             tt == [thread EXCEPT ![t] = p]
             b == Activation("meta", t, n)
  <1>1. /\ go # <<>> /\ sig = "none" /\ a.t = t /\ a.ph = "exec" /\ sig' = "none"
        /\ CurrentThread' = CurrentThread /\ go' = Append(go, b) /\ Room(s, fn)
        /\ thread' = [thread EXCEPT ![t] = pushFrame([s EXCEPT !.stack[n].op = "call"], fn)]
        /\ \/ s.stack[n].op = "none" /\ MayMeta(s)
           \/ s.stack[n].op = "redo" /\ s.yieldCont # n
    BY DEF OpMeta, Executing, Last
  <1>2. /\ ~s.Dead /\ s.yieldState = "none" /\ WF(s) /\ Poised(a, s)
        /\ s \in LStates /\ n \in Nat /\ n > 0 /\ n <= MaxDepth /\ MaxDepth \in Nat
        /\ n >= baseframe(a) /\ baseframe(a) \in Nat
        /\ thread \in [Threads -> LStates] /\ go \in Seq(Activations) /\ Alike(go, go)
        /\ Slotted(s) /\ (a.k \in {"meta", "pcall"} => a.at \in Nat /\ a.at < n)
        /\ (t \in LuaThreads \/ s.started) /\ Good(thread, CurrentThread, go, "none")
    BY <1>1, Now
  <1>3. n \in 1..n /\ n \in 0..MaxDepth /\ n < MaxDepth
    BY <1>1, <1>2 DEF Room
  <1>4. \A i \in 1..n : s.stack[i].op = "none" /\ s.stack[i].fn # "pcall"
    <2>1. MayMeta(s)
      BY <1>1, <1>2, <1>3 DEF Slotted
    <2> QED
      BY <2>1, Unmixed
  <1>5. s.yieldCont = 0
    <2>1. s.yieldCont \in 0..MaxDepth
      BY <1>2, StateIs
    <2>2. s.yieldCont # 0 => s.yieldCont \in 1..n /\ s.stack[s.yieldCont].op = "redo"
      BY <2>1, <1>2 DEF Slotted
    <2> QED
      BY <2>2, <1>4
  <1>6. [s EXCEPT !.stack[n].op = "call"] = m
    BY <1>2, <1>5 DEF LStates, Marked
  <1>7. s.stack[n].fn = "lua" /\ 0 \in 0..MaxDepth /\ s.yieldContRB \in 0..MaxDepth + 1
    BY <1>1, <1>2, StateIs DEF Poised
  <1>8. WF(m)
    <2>1. "call" # "none" /\ "call" # "redo" /\ "call" \in {"none", "call", "redo"}
      OBVIOUS
    <2> QED
      BY <2>1, <1>2, <1>3, <1>4, <1>7, WFMarked
  <1>9. IsMarked(s, m, n, "call", 0, s.yieldContRB)
    BY <1>2, <1>3, <1>7, MarkedIs
  <1>10. thread' = tt
    BY <1>1, <1>6
  <1> HIDE DEF m, n
  <1>11. /\ m \in LStates /\ Depth(m) = n /\ (\A i \in 1..n : i # n => m.stack[i] = s.stack[i])
         /\ m.stack[n].fn = "lua" /\ m.stack[n].op = "call"
         /\ m.frameExt = s.frameExt /\ m.started = s.started
         /\ m.yieldState = s.yieldState /\ m.Parent = s.Parent /\ m.Dead = s.Dead
    BY <1>7, <1>9 DEF IsMarked, n
  <1>12. WF(p)
    BY <1>2, <1>3, <1>8, <1>11, WFPush DEF Fns
  <1>13. /\ Depth(p) = n + 1 /\ (\A i \in 1..n : p.stack[i] = m.stack[i])
         /\ p.stack[n + 1] = Frame(fn) /\ p.frameExt = m.frameExt /\ p.started = m.started
         /\ SameRest(m, p)
    <2>1. m \in LStates /\ Depth(m) = n /\ fn \in Fns
      BY <1>11 DEF Fns
    <2> QED
      BY <2>1, PushIs
  <1>14. p.stack[n + 1].fn = fn
    BY <1>13 DEF Frame
  <1> HIDE DEF p
  <1>15. Keeps(s, p, a)
    <2>1. a.k \in {"meta", "pcall"} => a.at <= n + 1 /\ \A i \in 1..a.at : i \in 1..n /\ i # n
      BY <1>2
    <2> QED
      BY <2>1, <1>11, <1>13 DEF Keeps
  <1>16. Carries(thread, go, s, p) /\ Begun(t, p) /\ Stays(s, p)
    BY <1>2, <1>11, <1>13 DEF Carries, Stays, Begun, SameRest
  <1>17. Top(tt, go, "panic") /\ "panic" \in {"none", "return", "panic"} /\ "none" # "return"
    BY <1>1 DEF Top
  <1>18. Good(tt, CurrentThread, go, "panic")
    BY <1>1, <1>2, <1>12, <1>15, <1>16, <1>17, Stay
  <1>19. /\ b \in Activations /\ b.k = "meta" /\ b.t = t /\ b.at = n
         /\ b.ph = "enter" /\ b.mode = "start" /\ baseframe(b) = n + 1
    BY <1>3, NewActivation
  <1> HIDE DEF b
  <1>20. tt[t] = p
    BY <1>2
  <1> HIDE DEF tt
  <1>21. Holds(a, b, p)
    BY <1>1, <1>2, <1>3, <1>11, <1>13, <1>19 DEF Holds
  <1>22. Poised(b, p)
    <2>1. n + 1 > 0 /\ n + 1 >= n + 1
      BY <1>2
    <2> QED
      BY <2>1, <1>13, <1>14, <1>19 DEF Poised
  <1>23. Good(tt, CurrentThread, Append(go, b), "none")
    BY <1>1, <1>2, <1>18, <1>19, <1>20, <1>21, <1>22, PushActivation
  <1> QED
    BY <1>1, <1>10, <1>23 DEF IInv

\* pcall keeps the invariant.
LEMMA BasePCallGood ==
    ASSUME Admitted, IInv, NEW t \in Threads, NEW fn \in {"lua", "goyield", "pcall"},
           basePCall(t, fn)
    PROVE  IInv'
  <1> DEFINE a == TopGo(go)
             s == thread[t]
             n == Depth(s)
             m == Armed(s, n, TRUE, "pcall")
             p == pushFrame(m, fn)
             tt == [thread EXCEPT ![t] = p]
             b == Activation("pcall", t, n)
  <1>1. /\ go # <<>> /\ sig = "none" /\ a.t = t /\ a.ph = "invoke" /\ sig' = "none"
        /\ CurrentThread' = CurrentThread /\ go' = Append(go, b) /\ Room(s, fn)
        /\ thread' = tt /\ s.stack[n].fn = "pcall" /\ s.frameExt[n] = "none" /\ fn # "pcall"
    <2>1. "gopcall" \notin Uses
      BY Unmixed
    <2> QED
      BY <2>1 DEF basePCall, Calling, Invoking, Last, HasContinuation, Armed
  <1>2. /\ ~s.Dead /\ s.yieldState = "none" /\ WF(s) /\ Poised(a, s)
        /\ s \in LStates /\ n \in Nat /\ n > 0 /\ n <= MaxDepth /\ MaxDepth \in Nat
        /\ n >= baseframe(a) /\ baseframe(a) \in Nat /\ a \in Activations
        /\ thread \in [Threads -> LStates] /\ go \in Seq(Activations) /\ Alike(go, go)
        /\ (a.k \in {"meta", "pcall"} => a.at \in Nat /\ a.at < n)
        /\ (t \in LuaThreads \/ s.started) /\ Good(thread, CurrentThread, go, "none")
    BY <1>1, Now
  <1>3. n \in 1..n /\ n \in 0..MaxDepth /\ n < MaxDepth /\ n \in 1..MaxDepth
    BY <1>1, <1>2 DEF Room
  <1>4. a.mode = "call" /\ n > 1 /\ n > baseframe(a)
    <2>1. a.mode \in {"call", "tail", "start", "ret"}
      BY <1>2, ActivationIs
    <2> QED
      BY <2>1, <1>1, <1>2 DEF Poised
  <1>5. WF(m)
    BY <1>1, <1>2, WFArmed
  <1>6. IsArmed(s, m, n, TRUE, "pcall")
    BY <1>2, <1>3, ArmedIs
  <1> HIDE DEF m, n
  <1>7. /\ m \in LStates /\ Depth(m) = n
        /\ (\A i \in 1..n : m.stack[i].fn = s.stack[i].fn /\ m.stack[i].op = s.stack[i].op)
        /\ m.stack[n].fn = "pcall" /\ m.stack[n].Protected /\ m.frameExt[n] = "pcall"
        /\ \A i \in 1..MaxDepth : i # n => m.frameExt[i] = s.frameExt[i]
        /\ m.started = s.started /\ SameRest(s, m)
    <2>1. \A i \in 1..n : i # n => m.stack[i] = s.stack[i]
      BY <1>6 DEF IsArmed, n
    <2>2. m.stack[n].fn = s.stack[n].fn /\ m.stack[n].op = s.stack[n].op /\ m.stack[n].Protected
      BY <1>6 DEF IsArmed
    <2>3. \A i \in 1..n : m.stack[i].fn = s.stack[i].fn /\ m.stack[i].op = s.stack[i].op
      BY <2>1, <2>2
    <2> QED
      BY <2>2, <2>3, <1>1, <1>6 DEF IsArmed, n
  <1>8. m.Dead = s.Dead /\ m.yieldState = s.yieldState /\ m.Parent = s.Parent
    BY <1>7 DEF SameRest
  <1>9. WF(p)
    BY <1>1, <1>2, <1>3, <1>5, <1>7, <1>8, WFPush DEF Fns
  <1>10. /\ Depth(p) = n + 1 /\ (\A i \in 1..n : p.stack[i] = m.stack[i])
         /\ p.stack[n + 1] = Frame(fn) /\ p.frameExt = m.frameExt /\ p.started = m.started
         /\ SameRest(m, p)
    <2>1. m \in LStates /\ Depth(m) = n /\ fn \in Fns
      BY <1>7 DEF Fns
    <2> QED
      BY <2>1, PushIs
  <1>11. p.stack[n + 1].fn = fn
    BY <1>10 DEF Frame
  <1> HIDE DEF p
  <1>12. Keeps(s, p, a)
    <2>1. a.k \in {"meta", "pcall"} => a.at <= n + 1 /\ \A i \in 1..a.at : i \in 1..n
      BY <1>2
    <2> QED
      BY <2>1, <1>7, <1>10 DEF Keeps
  <1>13. Carries(thread, go, s, p) /\ Begun(t, p) /\ Stays(s, p)
    <2>1. \A i \in 1..MaxDepth : p.frameExt[i] \in Threads => p.frameExt[i] = s.frameExt[i]
      BY <1>7, <1>10, ThreadAssumption
    <2> QED
      BY <2>1, <1>2, <1>7, <1>8, <1>10 DEF Carries, Stays, Begun, SameRest
  <1>14. Top(tt, go, "panic") /\ "panic" \in {"none", "return", "panic"} /\ "none" # "return"
    BY <1>1 DEF Top
  <1>15. Good(tt, CurrentThread, go, "panic")
    BY <1>1, <1>2, <1>9, <1>12, <1>13, <1>14, Stay
  <1>16. /\ b \in Activations /\ b.k = "pcall" /\ b.t = t /\ b.at = n
         /\ b.ph = "enter" /\ b.mode = "start" /\ baseframe(b) = n + 1
    BY <1>3, NewActivation
  <1> HIDE DEF b
  <1>17. tt[t] = p
    BY <1>2
  <1> HIDE DEF tt
  <1>18. Holds(a, b, p)
    <2>1. n \in 1..n + 1
      BY <1>2, <1>3
    <2> QED
      BY <2>1, <1>1, <1>3, <1>4, <1>7, <1>10, <1>16 DEF Holds
  <1>19. Poised(b, p)
    <2>1. n + 1 > 0 /\ n + 1 >= n + 1
      BY <1>2
    <2> QED
      BY <2>1, <1>1, <1>10, <1>11, <1>16 DEF Poised
  <1>20. Good(tt, CurrentThread, Append(go, b), "none")
    BY <1>1, <1>2, <1>15, <1>16, <1>17, <1>18, <1>19, PushActivation
  <1> QED
    BY <1>1, <1>20 DEF IInv

-----------------------------------------------------------------------------
(* A thread is resumed.                                                    *)

\* Resuming puts two activations on top.
LEMMA Append2Is ==
    ASSUME NEW g \in Seq(Activations), NEW r \in Activations, NEW b \in Activations
    PROVE  LET h == g \o <<r, b>>
               n == Len(g)
           IN /\ h \in Seq(Activations) /\ Len(h) = n + 2 /\ n \in Nat /\ h # <<>>
              /\ TopGo(h) = b /\ h[n + 1] = r /\ h[n + 2] = b
              /\ \A j \in 1..n : h[j] = g[j] /\ j \in 1..n + 2
              /\ \A j \in 1..n + 2 : j \in 1..n \/ j = n + 1 \/ j = n + 2
  <1> DEFINE h == g \o <<r, b>>
             n == Len(g)
             q == <<r, b>>
  <1>1. q \in Seq(Activations) /\ Len(q) = 2 /\ q[1] = r /\ q[2] = b /\ n \in Nat
    OBVIOUS
  <1> HIDE DEF q
  <1>2. g \o q \in Seq(Activations) /\ Len(g \o q) = n + 2
        /\ (\A j \in 1..n : (g \o q)[j] = g[j])
        /\ (g \o q)[n + 1] = q[1] /\ (g \o q)[n + 2] = q[2]
    <2> DEFINE f == g \o q
    <2>1. /\ f \in Seq(Activations) /\ Len(f) = n + 2
          /\ \A i \in 1..n + 2 : f[i] = IF i <= n THEN g[i] ELSE q[i - n]
      <3>1. /\ f \in Seq(Activations) /\ Len(f) = Len(g) + Len(q)
            /\ \A i \in 1..Len(g) + Len(q) :
                 f[i] = IF i <= Len(g) THEN g[i] ELSE q[i - Len(g)]
        BY <1>1, ConcatProperties, Zenon
      <3> QED
        BY <3>1, <1>1, Zenon
    <2> HIDE DEF f, n
    <2>2. \A j \in 1..n : f[j] = g[j]
      BY <1>1, <2>1
    <2>3. f[n + 1] = q[1] /\ f[n + 2] = q[2]
      <3>1. n + 1 \in 1..n + 2 /\ ~(n + 1 <= n) /\ (n + 1) - n = 1
            /\ n + 2 \in 1..n + 2 /\ ~(n + 2 <= n) /\ (n + 2) - n = 2
        BY <1>1
      <3> QED
        BY <3>1, <2>1
    <2> QED
      BY <2>1, <2>2, <2>3 DEF f
  <1>3. h = g \o q
    BY DEF q
  <1> HIDE DEF h, n
  <1>4. h \in Seq(Activations) /\ Len(h) = n + 2 /\ h[n + 1] = r /\ h[n + 2] = b
        /\ \A j \in 1..n : h[j] = g[j]
    BY <1>1, <1>2, <1>3
  <1>5. h # <<>> /\ TopGo(h) = b
    BY <1>1, <1>4 DEF TopGo
  <1>6. /\ \A j \in 1..n : j \in 1..n + 2
        /\ \A j \in 1..n + 2 : j \in 1..n \/ j = n + 1 \/ j = n + 2
    BY <1>1
  <1> QED
    BY <1>1, <1>4, <1>5, <1>6 DEF h, n

\* A resume and its threadRun may be put on a Go stack without that thread.
LEMMA ShapeResume ==
    ASSUME NEW g, Shape(g), g # <<>>, NEW r \in Activations, NEW b \in Activations,
           r.k = "resume", r.t = TopGo(g).t, r.th = b.t, baseframe(TopGo(g)) <= r.at,
           b.k = "run", b.t # Main, OffGo(g, b.t)
    PROVE  Shape(g \o <<r, b>>)
  <1> DEFINE h == g \o <<r, b>>
             n == Len(g)
             a == TopGo(g)
  <1>1. /\ h \in Seq(Activations) /\ Len(h) = n + 2 /\ n \in Nat /\ h # <<>>
        /\ h[n + 1] = r /\ h[n + 2] = b
        /\ (\A j \in 1..n : h[j] = g[j] /\ j \in 1..n + 2)
        /\ \A j \in 1..n + 2 : j \in 1..n \/ j = n + 1 \/ j = n + 2
    BY Append2Is DEF Shape
  <1>2. /\ g \in Seq(Activations) /\ n > 0 /\ n \in 1..n /\ a = g[n] /\ a \in Activations
        /\ \A j \in 1..n : g[j] \in Activations
    BY TopIs DEF Shape
  <1>3. /\ g[1].k \in {"run", "call"} /\ a.k # "resume" /\ Stepwise(g) /\ Owned(g) /\ Apart(g)
        /\ Rooted(g)
    BY <1>2 DEF Shape, Ends
  <1>4. a.at \in Nat /\ r.at \in Nat /\ baseframe(a) \in Nat
        /\ r.t = a.t /\ baseframe(a) <= r.at /\ (a.k # "run" => a.at < r.at)
    BY <1>2, ActivationIs
  <1>5. (\A j \in 1..n : g[j].t # b.t) /\ r.t # b.t
    BY <1>2, <1>4 DEF OffGo
  <1> HIDE DEF h, n, a
  <1>6. Ends(h)
    BY <1>1, <1>2, <1>3 DEF Ends
  <1>7. Stepwise(h)
    <2> SUFFICES ASSUME NEW j \in 1..n + 2, j > 1
                 PROVE  Joined(h[j - 1], h[j])
      BY <1>1 DEF Stepwise
    <2>1. CASE j = n + 1
      <3>1. h[j - 1] = a /\ h[j] = r
        BY <2>1, <1>1, <1>2
      <3> QED
        BY <3>1, <1>3, <1>4 DEF Joined
    <2>2. CASE j = n + 2
      <3>1. h[j - 1] = r /\ h[j] = b
        BY <2>2, <1>1, <1>2
      <3> QED
        BY <3>1 DEF Joined
    <2>3. CASE j \in 1..n
      <3>1. j - 1 \in 1..n
        BY <2>3, <1>1, <1>2
      <3> QED
        BY <3>1, <2>3, <1>1, <1>3 DEF Stepwise, n
    <2> QED
      BY <2>1, <2>2, <2>3, <1>1
  <1>8. Owned(h)
    BY <1>1, <1>3 DEF Owned, n
  <1>9. Apart(h)
    <2> SUFFICES ASSUME NEW i \in 1..n + 2, NEW j \in 1..n + 2, i < j
                 PROVE  /\ h[i].k = "resume" => h[i].t # h[j].t
                        /\ h[j].k = "run" => h[i].t # h[j].t
                        /\ h[i].t = h[j].t => baseframe(h[i]) <= h[j].at
      BY <1>1 DEF Apart
    <2>1. CASE j = n + 2
      <3>1. i \in 1..n \/ i = n + 1
        BY <2>1, <1>1
      <3>2. h[i].t # b.t
        BY <3>1, <1>1, <1>5
      <3> QED
        BY <3>2, <2>1, <1>1
    <2>2. CASE j = n + 1
      <3>1. h[j] = r /\ i \in 1..n /\ h[i] = g[i]
        BY <2>2, <1>1
      <3>2. CASE i = n
        BY <3>1, <3>2, <1>2, <1>3, <1>4
      <3>3. CASE i # n
        <4>1. i < n
          BY <3>1, <3>3, <1>2
        <4>2. /\ g[i].k = "resume" => g[i].t # a.t
              /\ a.k = "run" => g[i].t # a.t
              /\ g[i].t = a.t => baseframe(g[i]) <= a.at
          BY <4>1, <3>1, <1>2, <1>3 DEF Apart, n
        <4>3. baseframe(g[i]) \in Nat
          BY <3>1, <1>2, ActivationIs
        <4> QED
          BY <4>2, <4>3, <3>1, <1>4
      <3> QED
        BY <3>2, <3>3
    <2>3. CASE j \in 1..n
      <3>1. i \in 1..n
        BY <2>3, <1>1
      <3> QED
        BY <3>1, <2>3, <1>1, <1>3 DEF Apart, n
    <2> QED
      BY <2>1, <2>2, <2>3, <1>1
  <1>10. Rooted(h)
    <2> SUFFICES ASSUME NEW j \in 1..n + 2
                 PROVE  \E i \in 1..n + 2 :
                           i <= j /\ h[i].t = h[j].t /\ h[i].k \in {"run", "call"}
      BY <1>1 DEF Rooted
    <2>1. CASE j = n + 2
      <3>1. n + 2 \in 1..n + 2 /\ n + 2 <= n + 2
        BY <1>1
      <3> QED
        BY <3>1, <2>1, <1>1
    <2>2. CASE j # n + 2
      <3>1. PICK x \in 1..n : x <= j /\ h[j].t = g[x].t
        <4>1. CASE j = n + 1
          BY <4>1, <1>1, <1>2, <1>4
        <4>2. CASE j # n + 1
          BY <4>2, <2>2, <1>1
        <4> QED
          BY <4>1, <4>2
      <3>2. PICK i \in 1..n : i <= x /\ g[i].t = g[x].t /\ g[i].k \in {"run", "call"}
        BY <3>1, <1>3 DEF Rooted, n
      <3>3. i <= j
        BY <3>1, <3>2, <1>2
      <3> QED
        BY <3>1, <3>2, <3>3, <1>1
    <2> QED
      BY <2>1, <2>2
  <1> QED
    BY <1>1, <1>6, <1>7, <1>8, <1>9, <1>10 DEF Shape, h

\* The state of a thread that is resumed.
Resumed(s, t) == [s EXCEPT !.Parent = t, !.yieldState = "none", !.started = TRUE]

\* Resuming links the thread to its resumer and keeps its frames.
LEMMA ResumedIs ==
    ASSUME NEW s, WF(s), ~s.Dead, Depth(s) > 0, NEW t \in Threads
    PROVE  LET d == Resumed(s, t) IN
           /\ WF(d) /\ d \in LStates /\ d.stack = s.stack /\ d.frameExt = s.frameExt
           /\ d.Parent = t /\ d.yieldState = "none" /\ d.started /\ ~d.Dead
           /\ Depth(d) = Depth(s)
  <1> DEFINE d == Resumed(s, t)
  <1>1. s \in LStates
    BY WFIs
  <1>2. /\ d \in LStates /\ d.stack = s.stack /\ d.frameExt = s.frameExt
        /\ d.yieldCont = s.yieldCont /\ d.yieldContRB = s.yieldContRB
        /\ d.Parent = t /\ d.yieldState = "none" /\ d.started /\ d.Dead = s.Dead
        /\ d.wrapped = s.wrapped
    BY <1>1 DEF LStates, Resumed
  <1> HIDE DEF d
  <1>3. Suspended(d) /\ (d.wrapped => "wrap" \in Uses)
    BY <1>2 DEF Suspended, WF
  <1>4. WF(d)
    BY <1>2, <1>3, WFRelink
  <1>5. Depth(d) = Depth(s)
    BY <1>2 DEF Depth
  <1> QED
    BY <1>2, <1>4, <1>5 DEF d

\* A frame of coroutine.resume on top of the running thread starts thread th.
LEMMA RunThread ==
    ASSUME NEW ts, NEW cur, NEW g, Good(ts, cur, g, "panic"), g # <<>>,
           NEW t, t = TopGo(g).t, TopGo(g).ph = "invoke", Poised(TopGo(g), ts[t]),
           ts[t].stack[Depth(ts[t])].fn = "resume", ts[t].frameExt[Depth(ts[t])] = "none",
           NEW th \in Threads, th # Main, OffGo(g, th), ~ts[th].Dead, Depth(ts[th]) > 0,
           \A u \in Threads, i \in 1..MaxDepth : ts[u].frameExt[i] # th,
           NEW r \in Activations, r.k = "resume", r.t = t, r.th = th, r.at = Depth(ts[t]),
           NEW b \in Activations, b.k = "run", b.t = th, b.ph = "enter"
    PROVE  Good([ts EXCEPT ![th] = Resumed(ts[th], t)], th, g \o <<r, b>>, "none")
  <1> DEFINE h == g \o <<r, b>>
             n == Len(g)
             a == TopGo(g)
             d == Resumed(ts[th], t)
             tt == [ts EXCEPT ![th] = d]
  <1>1. /\ g \in Seq(Activations) /\ Shape(g) /\ n > 0 /\ n \in 1..n /\ a = g[n] /\ a \in Activations
        /\ t \in Threads /\ (\A j \in 1..n : g[j] \in Activations /\ g[j].t \in Threads)
        /\ ts \in [Threads -> LStates] /\ \A u \in Threads : WF(ts[u])
    <2>1. g \in Seq(Activations) /\ Shape(g) /\ ts \in [Threads -> LStates]
          /\ \A u \in Threads : WF(ts[u])
      BY DEF Good, Shape
    <2> QED
      BY <2>1, TopIs, ActivationIs
  <1>2. /\ h \in Seq(Activations) /\ Len(h) = n + 2 /\ n \in Nat /\ h # <<>> /\ TopGo(h) = b
        /\ h[n + 1] = r /\ h[n + 2] = b
        /\ (\A j \in 1..n : h[j] = g[j] /\ j \in 1..n + 2)
        /\ \A j \in 1..n + 2 : j \in 1..n \/ j = n + 1 \/ j = n + 2
    BY <1>1, Append2Is
  <1>3. /\ WF(d) /\ d \in LStates /\ d.stack = ts[th].stack /\ d.frameExt = ts[th].frameExt
        /\ d.Parent = t /\ d.yieldState = "none" /\ d.started /\ ~d.Dead
        /\ Depth(d) = Depth(ts[th])
    BY <1>1, ResumedIs
  <1> HIDE DEF d
  <1>4. /\ tt \in [Threads -> LStates] /\ tt[th] = d
        /\ \A u \in Threads : u # th => tt[u] = ts[u]
    BY <1>1, <1>3
  <1>5. t # th /\ \A j \in 1..n : g[j].t # th
    BY <1>1 DEF OffGo
  <1>6. baseframe(a) <= r.at /\ baseframe(b) = 0
    <2>1. Depth(ts[t]) >= baseframe(a)
      BY DEF Poised
    <2>2. Depth(ts[t]) \in Nat /\ baseframe(a) \in Nat
      BY <1>1, WFIs, ActivationIs
    <2> QED
      BY <2>1, <2>2, ActivationIs
  <1>7. Shape(h)
    BY <1>1, <1>6, ShapeResume
  <1> HIDE DEF h, n, a, tt
  <1>8. \A u \in Threads : WF(tt[u])
    BY <1>1, <1>3, <1>4
  <1>9. Held(tt, h)
    <2> SUFFICES ASSUME NEW j \in 1..n + 2, j > 1
                 PROVE  Holds(h[j - 1], h[j], tt[h[j].t])
      BY <1>2 DEF Held
    <2>1. CASE j = n + 1
      <3>1. h[j - 1] = a /\ h[j] = r /\ tt[h[j].t] = ts[t]
        BY <2>1, <1>1, <1>2, <1>4, <1>5
      <3> QED
        BY <3>1 DEF Holds, a
    <2>2. CASE j = n + 2
      <3>1. h[j] = b
        BY <2>2, <1>2
      <3> QED
        BY <3>1 DEF Holds
    <2>3. CASE j \in 1..n
      <3>1. j - 1 \in 1..n
        BY <2>3, <1>2
      <3>2. Holds(g[j - 1], g[j], ts[g[j].t])
        BY <3>1, <2>3 DEF Good, Held, n
      <3>3. tt[g[j].t] = ts[g[j].t]
        BY <2>3, <1>1, <1>4, <1>5
      <3> QED
        BY <3>1, <3>2, <3>3, <2>3, <1>2
    <2> QED
      BY <2>1, <2>2, <2>3, <1>2
  <1>10. Parents(tt, h, "none")
    <2> SUFFICES ASSUME NEW j \in 1..n + 2, h[j].k = "run"
                 PROVE  tt[h[j].t].Parent = Resumer(h, j) /\ ~tt[h[j].t].Dead
                        /\ tt[h[j].t].yieldState = "none"
      BY <1>2 DEF Parents
    <2>1. CASE j = n + 2
      <3>1. j # 1 /\ j - 1 = n + 1
        BY <2>1, <1>2
      <3>2. Resumer(h, j) = t
        BY <3>1, <1>2 DEF Resumer
      <3> QED
        BY <3>2, <2>1, <1>2, <1>3, <1>4
    <2>2. CASE j = n + 1
      BY <2>2, <1>2
    <2>3. CASE j \in 1..n
      <3>1. j # 1 => j - 1 \in 1..n
        BY <2>3, <1>2
      <3>2. Resumer(h, j) = Resumer(g, j)
        BY <3>1, <2>3, <1>2 DEF Resumer
      <3>3. ts[g[j].t].Parent = Resumer(g, j) /\ ~ts[g[j].t].Dead /\ ts[g[j].t].yieldState = "none"
        BY <2>3, <1>2 DEF Good, Parents, n
      <3>4. tt[g[j].t] = ts[g[j].t]
        BY <2>3, <1>1, <1>4, <1>5
      <3> QED
        BY <3>2, <3>3, <3>4, <2>3, <1>2
    <2> QED
      BY <2>1, <2>2, <2>3, <1>2
  <1>11. Poised(b, d)
    <2>1. /\ Depth(d) > 0 /\ Depth(d) \in Nat
          /\ d.stack[Depth(d)].fn = "pcall" => d.frameExt[Depth(d)] = "pcall"
      BY <1>1, <1>3, WFIs DEF Good, Rested
    <2> QED
      BY <2>1, <1>6 DEF Poised
  <1>12. Top(tt, h, "none")
    BY <1>2, <1>4, <1>11 DEF Top
  <1>13. Current(tt, th, h, "none")
    BY <1>2 DEF Current
  <1>14. \A c \in Threads : OffGo(h, c) <=> OffGo(g, c) /\ c # th
    <2>1. \A c : OffGo(h, c) => OffGo(g, c) /\ c # th
      <3>1. n + 2 \in 1..n + 2
        BY <1>2
      <3> QED
        BY <3>1, <1>2 DEF OffGo, n
    <2>2. \A c : OffGo(g, c) => c # t
      BY <1>1 DEF OffGo, n, a
    <2>3. ASSUME NEW c, OffGo(g, c), c # th
          PROVE  OffGo(h, c)
      <3>1. c # t /\ \A j \in 1..n : g[j].t # c
        BY <2>2, <2>3 DEF OffGo, n
      <3>2. \A j \in 1..n + 2 : h[j].t # c
        BY <3>1, <2>3, <1>2
      <3> QED
        BY <3>2, <1>2 DEF OffGo
    <2> QED
      BY <2>1, <2>3
  <1>15. Rested(tt, h)
    <2>1. ASSUME NEW u \in Threads, OffGo(h, u), ~tt[u].Dead, Depth(tt[u]) > 0
          PROVE  /\ u # Main
                 /\ tt[u].stack[Depth(tt[u])].fn = "pcall" => tt[u].frameExt[Depth(tt[u])] = "pcall"
      BY <2>1, <1>4, <1>14 DEF Good, Rested
    <2>2. tt[Main].Parent = NoThread /\ ~tt[Main].Dead /\ tt[Main].yieldState = "none"
      BY <1>4 DEF Good, Rested, Threads
    <2>3. ASSUME NEW u \in Threads \ LuaThreads, ~tt[u].Dead, Depth(tt[u]) > 0
          PROVE  tt[u].started
      BY <2>3, <1>3, <1>4 DEF Good, Rested
    <2> QED
      BY <2>1, <2>2, <2>3 DEF Rested
  <1>16. Awaits(tt, h)
    <2>1. \A u \in Threads : tt[u].frameExt = ts[u].frameExt
      BY <1>3, <1>4
    <2> SUFFICES ASSUME NEW u \in Threads, NEW i \in 1..MaxDepth, ts[u].frameExt[i] \in Threads
                 PROVE  LET c == ts[u].frameExt[i] IN
                        /\ c # Main /\ tt[c].yieldState = "system" /\ OffGo(h, c)
                        /\ \A v \in Threads, j \in 1..MaxDepth :
                             ts[v].frameExt[j] = c => v = u /\ j = i
      BY <2>1 DEF Awaits
    <2> DEFINE c == ts[u].frameExt[i]
    <2>2. c \in Threads /\ c # th
      OBVIOUS
    <2>3. /\ c # Main /\ ts[c].yieldState = "system" /\ OffGo(g, c)
          /\ \A v \in Threads, j \in 1..MaxDepth : ts[v].frameExt[j] = c => v = u /\ j = i
      BY DEF Good, Awaits
    <2> HIDE DEF c
    <2>4. tt[c] = ts[c] /\ OffGo(h, c)
      BY <2>2, <2>3, <1>4, <1>14
    <2> QED
      BY <2>2, <2>3, <2>4 DEF c
  <1> QED
    BY <1>4, <1>7, <1>8, <1>9, <1>10, <1>12, <1>13, <1>15, <1>16 DEF Good, h, tt, d

\* A thread without a Parent, other than Main, is not on the Go stack.
LEMMA ParentlessIsOff ==
    ASSUME NEW ts, NEW cur, NEW g, NEW sg, Good(ts, cur, g, sg), sg # "return",
           NEW th \in Threads, th # Main, ts[th].Parent = NoThread
    PROVE  OffGo(g, th)
  <1> SUFFICES ASSUME NEW j \in 1..Len(g), g[j].t = th
               PROVE  FALSE
    BY DEF OffGo
  <1>1. g \in Seq(Activations) /\ Len(g) \in Nat /\ \A x \in 1..Len(g) : g[x] \in Activations
    BY DEF Good, Shape
  <1>2. PICK i \in 1..Len(g) : g[i].t = th /\ g[i].k \in {"run", "call"}
    BY DEF Good, Shape, Rooted
  <1>3. g[i].k = "run"
    BY <1>2 DEF Good, Shape, Owned
  <1>4. ts[th].Parent = Resumer(g, i)
    BY <1>2, <1>3 DEF Good, Parents
  <1>5. Resumer(g, i) \in Threads
    <2>1. i # 1 => i - 1 \in 1..Len(g)
      BY <1>1
    <2> QED
      BY <2>1, <1>1, ActivationIs DEF Resumer, Threads
  <1> QED
    BY <1>4, <1>5, ThreadAssumption

\* The activation of a resume of thread th.
ResumeActivation(t, n, th) == [Activation("resume", t, n) EXCEPT !.th = th]

\* The fields of that activation.
LEMMA ResumeActivationIs ==
    ASSUME NEW t \in Threads, NEW n \in 0..MaxDepth, NEW th \in Threads
    PROVE  LET r == ResumeActivation(t, n, th) IN
           r \in Activations /\ r.k = "resume" /\ r.t = t /\ r.th = th /\ r.at = n
  BY DEF ResumeActivation, Activation, Activations

\* coroutine.resume keeps the invariant.
LEMMA CoResumeGood ==
    ASSUME Admitted, IInv, NEW t \in Threads, NEW th \in Threads, coResume(t, th)
    PROVE  IInv'
  <1> DEFINE a == TopGo(go)
             s == thread[t]
             n == Depth(s)
             r == ResumeActivation(t, n, th)
             b == Activation("run", th, 0)
  <1>1. /\ go # <<>> /\ sig = "none" /\ a.t = t /\ a.ph = "invoke" /\ s.stack[n].fn = "resume"
        /\ s.frameExt[n] = "none" /\ th # Main /\ ~thread[th].Dead /\ Depth(thread[th]) > 0
        /\ MayResume(th) /\ CurrentThread' = th /\ sig' = "none" /\ go' = go \o <<r, b>>
        /\ thread' = [thread EXCEPT ![th].Parent = t, ![th].yieldState = "none",
                                    ![th].started = TRUE]
    BY DEF coResume, Calling, Invoking, Last, HasContinuation, Known, runThread, ResumeActivation
  <1>2. /\ WF(s) /\ Poised(a, s) /\ n \in Nat /\ n <= MaxDepth /\ MaxDepth \in Nat
        /\ thread \in [Threads -> LStates] /\ go \in Seq(Activations) /\ Alike(go, go)
        /\ Good(thread, CurrentThread, go, "none")
    BY <1>1, Now
  <1>3. thread' = [thread EXCEPT ![th] = Resumed(thread[th], t)]
    BY <1>1, <1>2 DEF Resumed
  <1>4. thread[th].Parent = NoThread /\ ~Awaited(th)
    BY <1>1 DEF MayResume, Admitted
  <1>5. OffGo(go, th)
    BY <1>1, <1>2, <1>4, ParentlessIsOff
  <1>6. \A u \in Threads, i \in 1..MaxDepth : thread[u].frameExt[i] # th
    BY <1>4 DEF Awaited
  <1>7. r \in Activations /\ r.k = "resume" /\ r.t = t /\ r.th = th /\ r.at = n
    BY <1>2, ResumeActivationIs
  <1>8. b \in Activations /\ b.k = "run" /\ b.t = th /\ b.ph = "enter"
    BY <1>2, NewActivation
  <1>9. Good(thread, CurrentThread, go, "panic")
    BY <1>1, <1>2, Rephase
  <1> HIDE DEF r, b
  <1>10. Good([thread EXCEPT ![th] = Resumed(thread[th], t)], th, go \o <<r, b>>, "none")
    BY <1>1, <1>2, <1>5, <1>6, <1>7, <1>8, <1>9, RunThread
  <1> QED
    BY <1>1, <1>3, <1>10 DEF IInv

\* coResumeContinuation re-enters the thread it awaits.
LEMMA ContinuationResumes ==
    ASSUME IInv, NEW t \in Threads, continuation(t),
           thread[t].frameExt[Depth(thread[t])] \in Threads
    PROVE  IInv'
  <1> DEFINE a == TopGo(go)
             s == thread[t]
             n == Depth(s)
             th == s.frameExt[n]
             u == Unextended(s)
             ts == [thread EXCEPT ![t] = u]
             r == ResumeActivation(t, n, th)
             b == Activation("run", th, 0)
  <1>1. /\ go # <<>> /\ sig = "none" /\ a.t = t /\ a.ph = "invoke" /\ th \in Threads
        /\ runThread(t, th, ts)
    BY DEF continuation, Invoking, Unextended
  <1>2. /\ ~s.Dead /\ s.yieldState = "none" /\ WF(s) /\ Poised(a, s)
        /\ s \in LStates /\ n \in Nat /\ n > 0 /\ n <= MaxDepth /\ MaxDepth \in Nat
        /\ thread \in [Threads -> LStates] /\ go \in Seq(Activations) /\ Alike(go, go)
        /\ a \in Activations /\ Extended(s)
        /\ (a.k \in {"meta", "pcall"} => a.at \in Nat /\ a.at < n)
        /\ (t \in LuaThreads \/ s.started) /\ Good(thread, CurrentThread, go, "none")
    BY <1>1, Now
  <1>3. /\ WF(u) /\ Returned(s, u) /\ u.frameExt[n] = "none" /\ u.stack = s.stack
        /\ \A i \in 1..MaxDepth : i # n => u.frameExt[i] = s.frameExt[i]
    BY <1>2, UnextendedIs
  <1>4. n \in 1..MaxDepth /\ n \in 0..MaxDepth /\ th # "none" /\ th # "pcall" /\ th # "sole"
    BY <1>1, <1>2, ThreadAssumption
  <1>5. s.stack[n].fn = "resume"
    BY <1>2, <1>4 DEF Extended
  <1>6. /\ th # Main /\ thread[th].yieldState = "system" /\ OffGo(go, th)
        /\ \A v \in Threads, j \in 1..MaxDepth : thread[v].frameExt[j] = th => v = t /\ j = n
    BY <1>1, <1>2, <1>4 DEF Good, Awaits
  <1> HIDE DEF th, u
  <1>7. ts[t] = u /\ (\A v \in Threads : v # t => ts[v] = thread[v]) /\ th # t
    <2>1. Len(go) \in 1..Len(go) /\ a = go[Len(go)]
      BY <1>1, <1>2, TopIs
    <2> QED
      BY <2>1, <1>1, <1>2, <1>6 DEF OffGo
  <1>8. Depth(u) = n /\ u.started = s.started /\ SameRest(s, u)
    BY <1>3 DEF Returned
  <1> HIDE DEF ts
  <1>9. Good(ts, CurrentThread, go, "panic")
    <2>1. Keeps(s, u, a)
      BY <1>2, <1>3, <1>8 DEF Keeps
    <2>2. Carries(thread, go, s, u) /\ Begun(t, u) /\ Stays(s, u)
      <3>1. \A i \in 1..MaxDepth : u.frameExt[i] \in Threads => u.frameExt[i] = s.frameExt[i]
        BY <1>3 DEF Returned
      <3> QED
        BY <3>1, <1>2, <1>8 DEF Carries, Begun, Stays, SameRest
    <2>3. Top([thread EXCEPT ![t] = u], go, "panic") /\ "panic" \in {"none", "return", "panic"}
          /\ "none" # "return"
      BY <1>1 DEF Top
    <2> QED
      BY <2>1, <2>2, <2>3, <1>1, <1>2, <1>3, Stay DEF ts
  <1>10. Poised(a, u)
    BY <1>1, <1>2, <1>3, <1>5, <1>8 DEF Poised
  <1>11. \A v \in Threads, i \in 1..MaxDepth : ts[v].frameExt[i] # th
    <2>1. th # "none"
      BY <1>4
    <2>2. \A i \in 1..MaxDepth : u.frameExt[i] # th
      BY <2>1, <1>3, <1>6
    <2> QED
      BY <2>2, <1>6, <1>7
  <1>12. ts[th] = thread[th] /\ ~ts[th].Dead /\ Depth(ts[th]) > 0
    <2>1. ts[th] = thread[th] /\ WF(thread[th])
      BY <1>1, <1>2, <1>7 DEF Good
    <2> QED
      BY <2>1, <1>6 DEF WF, Suspended
  <1>13. /\ CurrentThread' = th /\ sig' = "none" /\ go' = go \o <<r, b>>
         /\ thread' = [ts EXCEPT ![th].Parent = t, ![th].yieldState = "none",
                                 ![th].started = TRUE]
    BY <1>1, <1>7, <1>8 DEF runThread, ResumeActivation
  <1>14. r \in Activations /\ r.k = "resume" /\ r.t = t /\ r.th = th /\ r.at = n
    BY <1>1, <1>4, ResumeActivationIs
  <1>15. b \in Activations /\ b.k = "run" /\ b.t = th /\ b.ph = "enter"
    BY <1>1, <1>2, NewActivation
  <1>16. thread' = [ts EXCEPT ![th] = Resumed(ts[th], t)]
    BY <1>1, <1>13 DEF Resumed
  <1> HIDE DEF r, b
  <1>17. Good([ts EXCEPT ![th] = Resumed(ts[th], t)], th, go \o <<r, b>>, "none")
    BY <1>1, <1>2, <1>3, <1>5, <1>6, <1>7, <1>8, <1>9, <1>10, <1>11, <1>12, <1>14, <1>15, RunThread
  <1> QED
    BY <1>13, <1>16, <1>17 DEF IInv

-----------------------------------------------------------------------------
(* Activations come back.                                                  *)

\* h is what is left of the Go stack g once its younger activations are gone.
Prefix(g, h) ==
    /\ h \in Seq(Activations) /\ Len(h) \in 1..Len(g) /\ Len(g) \in Nat /\ h # <<>>
    /\ TopGo(h) = g[Len(h)]
    /\ \A j \in 1..Len(h) : h[j] = g[j] /\ j \in 1..Len(g)

\* PopGo leaves the Go stack below the top activation.
LEMMA PopGoIs ==
    ASSUME NEW g \in Seq(Activations), Len(g) > 1
    PROVE  /\ Prefix(g, PopGo(g)) /\ Len(PopGo(g)) = Len(g) - 1
           /\ TopGo(PopGo(g)) = g[Len(g) - 1] /\ g # <<>>
  <1> DEFINE n == Len(g)
             h == PopGo(g)
  <1>1. n \in Nat /\ n > 1 /\ n - 1 \in Nat /\ n - 1 <= n /\ g # <<>>
    OBVIOUS
  <1>2. h \in Seq(Activations) /\ Len(h) = n - 1 /\ \A j \in 1..n - 1 : h[j] = g[j]
    BY <1>1 DEF PopGo
  <1> HIDE DEF h, n
  <1>3. Len(h) \in 1..n /\ h # <<>> /\ n - 1 \in 1..n - 1 /\ \A j \in 1..n - 1 : j \in 1..n
    BY <1>1, <1>2
  <1> QED
    BY <1>1, <1>2, <1>3 DEF Prefix, TopGo, h, n

\* And so when it is done twice.
LEMMA PopTwiceIs ==
    ASSUME NEW g \in Seq(Activations), Len(g) > 2
    PROVE  LET h == PopGo(PopGo(g)) IN
           /\ Prefix(g, h) /\ Len(h) = Len(g) - 2 /\ TopGo(h) = g[Len(g) - 2]
           /\ TopGo(PopGo(g)) = g[Len(g) - 1] /\ g # <<>>
  <1> DEFINE n == Len(g)
             f == PopGo(g)
             h == PopGo(f)
  <1>1. n \in Nat /\ n > 2
    OBVIOUS
  <1>2. Prefix(g, f) /\ Len(f) = n - 1 /\ TopGo(f) = g[n - 1] /\ g # <<>>
    BY <1>1, PopGoIs
  <1>3. f \in Seq(Activations) /\ Len(f) > 1
    BY <1>1, <1>2 DEF Prefix
  <1>4. Prefix(f, h) /\ Len(h) = Len(f) - 1 /\ TopGo(h) = f[Len(f) - 1]
    BY <1>3, PopGoIs
  <1> HIDE DEF h, f, n
  <1>5. Len(h) = n - 2 /\ n - 2 \in 1..n /\ n - 2 \in 1..n - 1 /\ Len(f) - 1 = n - 2
        /\ \A j \in 1..n - 2 : j \in 1..n - 1 /\ j \in 1..n
    BY <1>1, <1>2, <1>4
  <1>6. \A j \in 1..n - 2 : h[j] = g[j]
    BY <1>2, <1>4, <1>5 DEF Prefix
  <1>7. TopGo(h) = g[n - 2]
    BY <1>2, <1>4, <1>5 DEF Prefix
  <1>8. Prefix(g, h)
    BY <1>1, <1>4, <1>5, <1>6, <1>7 DEF Prefix, n
  <1> QED
    BY <1>2, <1>5, <1>7, <1>8 DEF h, f, n

\* The Go stack below an activation has the shape, unless a resume is on top.
LEMMA ShapePrefix ==
    ASSUME NEW g, Shape(g), NEW h, Prefix(g, h), TopGo(h).k # "resume"
    PROVE  Shape(h)
  <1> DEFINE n == Len(g)
             m == Len(h)
  <1>1. h \in Seq(Activations) /\ n \in Nat /\ m \in Nat /\ m >= 1 /\ m \in 1..m /\ h # <<>>
        /\ TopGo(h) = h[m]
        /\ \A j \in 1..m : h[j] = g[j] /\ j \in 1..n
    BY DEF Prefix
  <1>2. 1 \in 1..m /\ g # <<>> /\ \A j \in 1..m : j > 1 => j - 1 \in 1..m
    BY <1>1 DEF Prefix
  <1> HIDE DEF n, m
  <1>3. Ends(h)
    BY <1>1, <1>2 DEF Shape, Ends, m
  <1>4. Stepwise(h)
    <2> SUFFICES ASSUME NEW j \in 1..m, j > 1 PROVE Joined(h[j - 1], h[j])
      BY DEF Stepwise, m
    <2>1. Joined(g[j - 1], g[j])
      BY <1>1 DEF Shape, Stepwise, n
    <2> QED
      BY <2>1, <1>1, <1>2
  <1>5. Owned(h)
    BY <1>1 DEF Shape, Owned, n, m
  <1>6. Apart(h)
    BY <1>1 DEF Shape, Apart, n, m
  <1>7. Rooted(h)
    <2> SUFFICES ASSUME NEW j \in 1..m
                 PROVE  \E i \in 1..m : i <= j /\ h[i].t = h[j].t /\ h[i].k \in {"run", "call"}
      BY DEF Rooted, m
    <2>1. PICK i \in 1..n : i <= j /\ g[i].t = g[j].t /\ g[i].k \in {"run", "call"}
      BY <1>1 DEF Shape, Rooted, n
    <2>2. i \in 1..m
      BY <2>1, <1>1
    <2> QED
      BY <2>1, <2>2, <1>1
  <1> QED
    BY <1>1, <1>3, <1>4, <1>5, <1>6, <1>7 DEF Shape

\* And its callers still wait.
LEMMA HeldPrefix ==
    ASSUME NEW ts, NEW g, NEW h, Held(ts, g), Prefix(g, h)
    PROVE  Held(ts, h) /\ \A j \in 1..Len(h) : Resumer(h, j) = Resumer(g, j)
  <1> DEFINE n == Len(g)
             m == Len(h)
  <1>1. n \in Nat /\ m \in Nat /\ \A j \in 1..m : h[j] = g[j] /\ j \in 1..n
    BY DEF Prefix
  <1>2. \A j \in 1..m : j # 1 => j - 1 \in 1..m
    BY <1>1
  <1> HIDE DEF n, m
  <1>3. Held(ts, h)
    <2> SUFFICES ASSUME NEW j \in 1..m, j > 1 PROVE Holds(h[j - 1], h[j], ts[h[j].t])
      BY DEF Held, m
    <2>1. Holds(g[j - 1], g[j], ts[g[j].t])
      BY <1>1 DEF Held, n
    <2> QED
      BY <2>1, <1>1, <1>2
  <1> QED
    BY <1>1, <1>2, <1>3 DEF Resumer, m

\* A metamethod's or a pcall's activation leaves the Go stack.
LEMMA PopActivation ==
    ASSUME NEW ts, NEW cur, NEW g, NEW sg, Good(ts, cur, g, sg), g # <<>>,
           TopGo(g).k \in {"meta", "pcall"}, NEW h, h = PopGo(g),
           NEW sg2 \in {"none", "return", "panic"},
           sg2 = sg \/ (sg2 # "return" /\ ~Gone(ts[TopGo(g).t])),
           Top(ts, h, sg2)
    PROVE  Good(ts, cur, h, sg2)
  <1> DEFINE n == Len(g)
             b == TopGo(g)
  <1>1. Shape(g) /\ g \in Seq(Activations) /\ Held(ts, g)
    BY DEF Good, Shape
  <1>2. n > 1 /\ n \in Nat /\ n \in 1..n /\ b = g[n] /\ b \in Activations
    BY <1>1, TopHeld, TopIs
  <1>3. Prefix(g, h) /\ Len(h) = n - 1 /\ TopGo(h) = g[n - 1]
    BY <1>1, <1>2, PopGoIs
  <1>4. Joined(TopGo(h), b)
    BY <1>1, <1>2, <1>3 DEF Shape, Stepwise
  <1>5. TopGo(h).k # "resume" /\ TopGo(h).t = b.t
    BY <1>4 DEF Joined
  <1> HIDE DEF n, b
  <1>6. Shape(h) /\ Held(ts, h) /\ \A j \in 1..n - 1 : Resumer(h, j) = Resumer(g, j)
    BY <1>1, <1>3, <1>5, ShapePrefix, HeldPrefix
  <1>7. h # <<>> /\ (\A j \in 1..n - 1 : h[j] = g[j] /\ j \in 1..n)
        /\ (\A j \in 1..n : j \in 1..n - 1 \/ j = n) /\ n - 1 \in 1..n - 1
    BY <1>2, <1>3 DEF Prefix
  <1>8. Parents(ts, h, sg2)
    <2> SUFFICES ASSUME NEW j \in 1..n - 1, h[j].k = "run"
                 PROVE  \/ /\ ts[h[j].t].Parent = Resumer(h, j)
                           /\ ~ts[h[j].t].Dead /\ ts[h[j].t].yieldState = "none"
                        \/ sg2 = "return" /\ h[j].t = TopGo(h).t /\ Gone(ts[h[j].t])
      BY <1>3 DEF Parents
    <2>1. \/ /\ ts[g[j].t].Parent = Resumer(g, j)
             /\ ~ts[g[j].t].Dead /\ ts[g[j].t].yieldState = "none"
          \/ sg = "return" /\ g[j].t = b.t /\ Gone(ts[g[j].t])
      BY <1>7 DEF Good, Parents, n, b
    <2>2. h[j] = g[j] /\ Resumer(h, j) = Resumer(g, j)
      BY <1>6, <1>7
    <2> QED
      BY <2>1, <2>2, <1>5 DEF b
  <1>9. Current(ts, cur, h, sg2)
    <2>1. cur \in Threads
      BY DEF Good, Current
    <2>2. CASE sg = "return" /\ Gone(ts[b.t])
      <3>1. \A j \in 1..n : g[j].k = "run" /\ g[j].t = b.t => cur = Resumer(g, j)
        BY <2>2 DEF Good, Current, n, b
      <3>2. \A j \in 1..n - 1 : h[j].k = "run" /\ h[j].t = b.t => cur = Resumer(h, j)
        BY <3>1, <1>6, <1>7
      <3>3. sg2 = "return"
        BY <2>2 DEF b
      <3> QED
        BY <2>1, <2>2, <3>2, <3>3, <1>3, <1>5, <1>7 DEF Current
    <2>3. CASE ~(sg = "return" /\ Gone(ts[b.t]))
      <3>1. cur = b.t \/ Zombie(ts, cur)
        BY <2>3 DEF Good, Current, b
      <3>2. ~(sg2 = "return" /\ Gone(ts[b.t]))
        BY <2>3 DEF b
      <3> QED
        BY <2>1, <3>1, <3>2, <1>5, <1>7 DEF Current
    <2> QED
      BY <2>2, <2>3
  <1>10. \A c \in Threads : OffGo(h, c) <=> OffGo(g, c)
    <2>1. \A c : OffGo(g, c) => OffGo(h, c)
      BY <1>3, <1>7 DEF OffGo, n
    <2>2. \A c : OffGo(h, c) => c # b.t
      BY <1>3, <1>5, <1>7 DEF OffGo
    <2>3. \A c : OffGo(h, c) => OffGo(g, c)
      BY <2>2, <1>2, <1>3, <1>7 DEF OffGo, n
    <2> QED
      BY <2>1, <2>3
  <1>11. Rested(ts, h)
    BY <1>10 DEF Good, Rested
  <1>12. Awaits(ts, h)
    BY <1>10 DEF Good, Awaits
  <1> QED
    BY <1>6, <1>8, <1>9, <1>11, <1>12 DEF Good

\* The activation below a metamethod's or a pcall's.
LEMMA PoppedIs ==
    ASSUME NEW ts, NEW cur, NEW g, NEW sg, Good(ts, cur, g, sg), g # <<>>,
           TopGo(g).k \in {"meta", "pcall"}
    PROVE  LET h == PopGo(g)
               a == TopGo(g)
               d == TopGo(h)
           IN /\ h # <<>> /\ h \in Seq(Activations) /\ a \in Activations /\ d \in Activations
              /\ d.t = a.t /\ a.t \in Threads /\ d.k # "resume"
              /\ baseframe(d) <= a.at /\ baseframe(d) \in Nat /\ a.at \in Nat
              /\ Holds(d, a, ts[a.t]) /\ a.at \in 1..Depth(ts[a.t])
              /\ d.k \in {"meta", "pcall"} => d.at \in Nat /\ d.at < a.at
              /\ d.k = "run" => baseframe(d) = 0
  <1> DEFINE n == Len(g)
             a == TopGo(g)
             h == PopGo(g)
             d == TopGo(h)
  <1>1. Shape(g) /\ g \in Seq(Activations) /\ Held(ts, g)
    BY DEF Good, Shape
  <1>2. n > 1 /\ n \in Nat /\ n \in 1..n /\ a = g[n] /\ a \in Activations
        /\ a.at \in 1..Depth(ts[a.t]) /\ \A j \in 1..n : g[j] \in Activations
    BY <1>1, TopHeld, TopIs
  <1>3. Prefix(g, h) /\ d = g[n - 1]
    BY <1>1, <1>2, PopGoIs
  <1>4. n - 1 \in 1..n /\ n - 1 < n
    BY <1>2
  <1>5. Joined(d, a)
    BY <1>1, <1>2, <1>3 DEF Shape, Stepwise
  <1>6. Holds(d, a, ts[a.t])
    BY <1>1, <1>2, <1>3 DEF Held
  <1>7. d.t = a.t /\ d.k # "resume"
    BY <1>5 DEF Joined
  <1>8. baseframe(d) <= a.at
    BY <1>1, <1>2, <1>3, <1>4, <1>7 DEF Shape, Apart
  <1>9. d \in Activations /\ h # <<>> /\ h \in Seq(Activations)
    BY <1>2, <1>3, <1>4 DEF Prefix
  <1>10. baseframe(d) \in Nat /\ d.at \in Nat /\ a.at \in Nat /\ a.t \in Threads
         /\ (d.k # "run" => baseframe(d) = d.at + 1) /\ (d.k = "run" => baseframe(d) = 0)
    BY <1>2, <1>9, ActivationIs
  <1> HIDE DEF n, a, h, d
  <1>11. d.k \in {"meta", "pcall"} => d.at < a.at
    BY <1>8, <1>10
  <1> QED
    BY <1>2, <1>6, <1>7, <1>8, <1>9, <1>10, <1>11 DEF a, h, d

\* Only marks on the frames of a thread change, on the way out.
LEMMA Retouch ==
    ASSUME NEW ts, NEW cur, NEW g, Good(ts, cur, g, "return"), g # <<>>,
           NEW t, t = TopGo(g).t, NEW s2, WF(s2), Stays(ts[t], s2), Depth(s2) = Depth(ts[t]),
           s2.frameExt = ts[t].frameExt, s2.started = ts[t].started,
           Keeps(ts[t], s2, TopGo(g)),
           \A i \in 1..Depth(s2) : s2.stack[i].fn = ts[t].stack[i].fn
    PROVE  Good([ts EXCEPT ![t] = s2], cur, g, "return")
  <1> DEFINE tt == [ts EXCEPT ![t] = s2]
             s == ts[t]
             a == TopGo(g)
  <1>1. /\ ts \in [Threads -> LStates] /\ Shape(g) /\ g \in Seq(Activations) /\ Held(ts, g)
        /\ \A u \in Threads : WF(ts[u])
    BY DEF Good, Shape
  <1>2. t \in Threads /\ s2 \in LStates /\ Alike(g, g)
    BY <1>1, TopIs, AlikeSelf DEF WF
  <1>3. tt \in [Threads -> LStates] /\ tt[t] = s2 /\ \A u \in Threads : u # t => tt[u] = ts[u]
    BY <1>1, <1>2
  <1>4. \A u \in Threads : WF(tt[u])
    BY <1>1, <1>3
  <1>5. Held(tt, g)
    BY <1>1, <1>2, LocalHeld
  <1>6. s2.Parent = s.Parent /\ s2.Dead = s.Dead /\ s2.yieldState = s.yieldState
        /\ (Gone(s2) <=> Gone(s))
    BY DEF Stays, Gone
  <1> HIDE DEF tt, s
  <1>7. /\ \A u \in Threads : /\ tt[u].Parent = ts[u].Parent /\ tt[u].Dead = ts[u].Dead
                              /\ tt[u].yieldState = ts[u].yieldState
                              /\ (Gone(tt[u]) <=> Gone(ts[u])) /\ Depth(tt[u]) = Depth(ts[u])
                              /\ tt[u].frameExt = ts[u].frameExt
                              /\ tt[u].started = ts[u].started
    BY <1>3, <1>6 DEF s
  <1>8. \A j \in 1..Len(g) : g[j].t \in Threads
    BY <1>1, ActivationIs
  <1>9. Parents(tt, g, "return")
    BY <1>7, <1>8 DEF Good, Parents
  <1>10. Top(tt, g, "return")
    BY <1>2, <1>7 DEF Good, Top
  <1>11. Current(tt, cur, g, "return")
    <2>1. cur \in Threads /\ Current(ts, cur, g, "return")
      BY DEF Good, Current
    <2>2. (Zombie(tt, cur) <=> Zombie(ts, cur)) /\ (Gone(tt[a.t]) <=> Gone(ts[a.t]))
      BY <2>1, <1>2, <1>7 DEF Zombie
    <2> QED
      BY <2>1, <2>2 DEF Current
  <1>12. Rested(tt, g)
    <2>1. ~OffGo(g, t)
      BY <1>1, TopIs DEF OffGo
    <2>2. Main \in Threads
      BY DEF Threads
    <2>3. \A u \in Threads : OffGo(g, u) => tt[u] = ts[u]
      BY <2>1, <1>3
    <2>4. Rested(ts, g)
      BY DEF Good
    <2> QED
      BY <2>2, <2>3, <2>4, <1>7 DEF Rested
  <1>13. Awaits(tt, g)
    <2>1. Awaits(ts, g)
      BY DEF Good
    <2> QED
      BY <2>1, <1>7 DEF Awaits
  <1> QED
    BY <1>1, <1>3, <1>4, <1>5, <1>9, <1>10, <1>11, <1>12, <1>13 DEF Good, tt

\* An error through a metamethod's loop keeps the invariant.
LEMMA MetaPanicsGood ==
    ASSUME IInv, go # <<>>, metaPanics
    PROVE  IInv'
  <1>1. /\ sig = "panic" /\ TopGo(go).k = "meta" /\ go' = PopGo(go) /\ sig' = "panic"
        /\ thread' = thread /\ CurrentThread' = CurrentThread
    BY DEF metaPanics
  <1>2. PopGo(go) # <<>>
    BY <1>1, PoppedIs DEF IInv
  <1>3. Top(thread, PopGo(go), "panic") /\ "panic" \in {"none", "return", "panic"}
    BY <1>2 DEF Top
  <1>4. Good(thread, CurrentThread, PopGo(go), "panic")
    BY <1>1, <1>3, PopActivation DEF IInv
  <1> QED
    BY <1>1, <1>4 DEF IInv

\* The thread of a loop that returns into a metamethod's or a pcall's caller.
LEMMA Returning ==
    ASSUME IInv, go # <<>>, sig = "return", TopGo(go).k \in {"meta", "pcall"}
    PROVE  LET a == TopGo(go)
               s == thread[a.t]
           IN /\ a.t \in Threads /\ WF(s) /\ ~s.Dead /\ Stacked(s) /\ Slotted(s) /\ Extended(s)
              /\ s \in LStates /\ Depth(s) \in Nat /\ Depth(s) <= MaxDepth /\ MaxDepth \in Nat
              /\ (s.yieldState = "none" => Depth(s) = a.at /\ ~Gone(s))
              /\ (s.yieldState # "none" => Gone(s))
              /\ thread \in [Threads -> LStates] /\ Begun(a.t, s)
              /\ Good(thread, CurrentThread, go, "return")
  <1> DEFINE a == TopGo(go)
             s == thread[a.t]
  <1>1. go \in Seq(Activations) /\ Good(thread, CurrentThread, go, "return")
    BY DEF IInv, Good, Shape
  <1>2. a.t \in Threads
    BY <1>1, TopIs
  <1>3. WF(s) /\ thread \in [Threads -> LStates] /\ Top(thread, go, "return")
    BY <1>1, <1>2 DEF Good
  <1>4. ~s.Dead /\ (s.yieldState = "none" => Depth(s) = a.at)
    BY <1>3 DEF Top
  <1>5. Begun(a.t, s)
    BY <1>1, <1>2, BegunIs
  <1>6. s \in LStates /\ Depth(s) \in Nat /\ Depth(s) <= MaxDepth /\ MaxDepth \in Nat
    BY <1>3, WFIs
  <1>7. /\ Stacked(s) /\ Slotted(s) /\ Extended(s) /\ Suspended(s)
    BY <1>3, <1>4 DEF WF
  <1>8. s.yieldState # "none" => Gone(s)
    BY <1>7 DEF Suspended, Gone
  <1>9. s.yieldState = "none" => ~Gone(s)
    BY <1>4 DEF Gone
  <1> QED
    BY <1>1, <1>2, <1>3, <1>4, <1>5, <1>6, <1>7, <1>8, <1>9

\* A waiting opcode is the only one of its thread, and its frame is Lua code.
LEMMA WaitingOpcode ==
    ASSUME NEW s, WF(s), ~s.Dead, NEW n \in 1..Depth(s), s.stack[n].op = "call"
    PROVE  /\ s.stack[n].fn = "lua" /\ s.yieldCont = 0
           /\ \A i \in 1..Depth(s) : /\ i # n => s.stack[i].op = "none"
                                     /\ s.stack[i].fn # "pcall"
  <1>1. Stacked(s) /\ Slotted(s) /\ s \in LStates /\ Depth(s) \in Nat
    BY WFIs DEF WF
  <1>2. s.stack[n].fn = "lua"
    BY <1>1 DEF Stacked
  <1>3. \A i \in 1..Depth(s) : (i # n => s.stack[i].op = "none") /\ s.stack[i].fn # "pcall"
    BY <1>1 DEF Slotted
  <1>4. s.yieldCont = 0
    <2>1. s.yieldCont \in 0..MaxDepth
      BY <1>1, StateIs
    <2>2. s.yieldCont # 0 => s.yieldCont \in 1..Depth(s) /\ s.stack[s.yieldCont].op = "redo"
      BY <2>1, <1>1, DepthAssumption DEF Slotted
    <2> QED
      BY <2>2, <1>3
  <1> QED
    BY <1>2, <1>3, <1>4

\* The return of a metamethod's loop, after a yield too, keeps the invariant.
LEMMA MetaReturnsGood ==
    ASSUME IInv, go # <<>>, metaReturns
    PROVE  IInv'
  <1> DEFINE a == TopGo(go)
             t == a.t
             s == thread[t]
             n == a.at
             h == PopGo(go)
             d == TopGo(h)
             m == Marked(s, n, "redo", n, n + 1)
             f == Marked(s, n, "none", 0, s.yieldContRB)
  <1>1. sig = "return" /\ a.k = "meta" /\ go' = h /\ CurrentThread' = CurrentThread
    BY DEF metaReturns
  <1>2. /\ t \in Threads /\ WF(s) /\ ~s.Dead
        /\ s \in LStates /\ Depth(s) \in Nat /\ Depth(s) <= MaxDepth /\ MaxDepth \in Nat
        /\ (s.yieldState = "none" => Depth(s) = n /\ ~Gone(s))
        /\ (s.yieldState # "none" => Gone(s))
        /\ thread \in [Threads -> LStates] /\ Begun(t, s)
        /\ Good(thread, CurrentThread, go, "return")
    BY <1>1, Returning
  <1>3. /\ h # <<>> /\ h \in Seq(Activations) /\ d \in Activations /\ d.t = t
        /\ baseframe(d) <= n /\ baseframe(d) \in Nat /\ n \in Nat
        /\ Holds(d, a, s) /\ n \in 1..Depth(s)
        /\ (d.k \in {"meta", "pcall"} => d.at \in Nat /\ d.at < n)
    BY <1>1, <1>2, PoppedIs
  <1>4. d.ph = "exec" /\ s.stack[n].op = "call"
    BY <1>1, <1>3 DEF Holds
  <1>5. /\ s.stack[n].fn = "lua" /\ s.yieldCont = 0
        /\ \A i \in 1..Depth(s) : (i # n => s.stack[i].op = "none") /\ s.stack[i].fn # "pcall"
    BY <1>2, <1>3, <1>4, WaitingOpcode
  <1>6. n \in 0..MaxDepth /\ n + 1 \in 0..MaxDepth + 1 /\ 0 \in 0..MaxDepth
        /\ s.yieldContRB \in 0..MaxDepth + 1
    BY <1>2, <1>3, StateIs
  <1>7. d.k \in {"meta", "pcall"} =>
          d.at <= Depth(s) /\ \A i \in 1..d.at : i \in 1..Depth(s) /\ i # n
    BY <1>2, <1>3
  <1>8. CASE s.yieldState # "none"
    <2>1. sig' = "return" /\ thread' = [thread EXCEPT ![t].stack[n].op = "redo",
                                                      ![t].yieldCont = n, ![t].yieldContRB = n + 1]
      BY <1>1, <1>8 DEF metaReturns
    <2>2. thread' = [thread EXCEPT ![t] = m]
      BY <2>1, <1>2 DEF Marked
    <2>3. WF(m)
      <3>1. "redo" \in {"none", "call", "redo"}
        OBVIOUS
      <3> QED
        BY <3>1, <1>2, <1>3, <1>5, <1>6, WFMarked
    <2>4. IsMarked(s, m, n, "redo", n, n + 1)
      BY <1>2, <1>3, <1>6, MarkedIs
    <2> HIDE DEF m
    <2>5. /\ Depth(m) = Depth(s) /\ (\A i \in 1..Depth(s) : i # n => m.stack[i] = s.stack[i])
          /\ m.stack[n].fn = s.stack[n].fn /\ m.frameExt = s.frameExt /\ m.started = s.started
          /\ Stays(s, m)
      BY <2>4 DEF IsMarked, Stays
    <2>6. \A i \in 1..Depth(m) : m.stack[i].fn = s.stack[i].fn
      BY <2>5
    <2>7. Keeps(s, m, d)
      BY <2>5, <1>7 DEF Keeps
    <2>8. Top(thread, h, "return") /\ "return" \in {"none", "return", "panic"}
      BY <1>2, <1>3, <1>8 DEF Top
    <2> HIDE DEF h
    <2>9. Good(thread, CurrentThread, h, "return")
      BY <2>8, <1>1, <1>2, PopActivation DEF h
    <2> HIDE DEF s, t, n
    <2>10. t = TopGo(h).t
      BY <1>3
    <2>11. Good([thread EXCEPT ![t] = m], CurrentThread, h, "return")
      BY <2>3, <2>5, <2>6, <2>7, <2>9, <2>10, <1>3, Retouch DEF s
    <2> QED
      BY <2>1, <2>2, <2>11, <1>1 DEF IInv
  <1>9. CASE s.yieldState = "none"
    <2>1. sig' = "none" /\ thread' = [thread EXCEPT ![t].stack[n].op = "none"]
      BY <1>1, <1>9 DEF metaReturns
    <2>2. [s EXCEPT !.stack[n].op = "none"] = f
      BY <1>2, <1>5 DEF LStates, Marked
    <2>3. thread' = [thread EXCEPT ![t] = f]
      BY <2>1, <2>2, <1>2
    <2>4. WF(f)
      <3>1. "none" \in {"none", "call", "redo"} /\ "none" # "redo"
        OBVIOUS
      <3> QED
        BY <3>1, <1>2, <1>3, <1>5, <1>6, WFMarked
    <2>5. IsMarked(s, f, n, "none", 0, s.yieldContRB)
      BY <1>2, <1>3, <1>6, MarkedIs
    <2> HIDE DEF f
    <2>6. /\ Depth(f) = Depth(s) /\ (\A i \in 1..Depth(s) : i # n => f.stack[i] = s.stack[i])
          /\ f.stack[n].fn = s.stack[n].fn /\ f.frameExt = s.frameExt /\ f.started = s.started
          /\ Stays(s, f)
      BY <2>5 DEF IsMarked, Stays
    <2>7. Keeps(s, f, d) /\ Carries(thread, h, s, f) /\ Begun(t, f)
      <3>1. Keeps(s, f, d)
        BY <2>6, <1>7 DEF Keeps
      <3>2. Begun(t, f)
        BY <2>6, <1>2 DEF Begun, Stays
      <3> QED
        BY <3>1, <3>2, <2>6 DEF Carries
    <2>8. Top(thread, h, "panic") /\ "panic" \in {"none", "return", "panic"} /\ "panic" # "return"
          /\ "none" \in {"none", "return", "panic"}
      BY <1>3 DEF Top
    <2> HIDE DEF h
    <2>9. Good(thread, CurrentThread, h, "panic")
      BY <2>8, <1>1, <1>2, <1>9, PopActivation DEF h
    <2> HIDE DEF s, t, n
    <2>10. t = TopGo(h).t /\ Alike(h, h)
      BY <1>3, AlikeSelf
    <2>11. Poised(d, f)
      BY <2>6, <1>2, <1>3, <1>4, <1>5, <1>9 DEF Poised
    <2>12. Top([thread EXCEPT ![t] = f], h, "none")
      BY <2>10, <2>11, <1>2, <1>3 DEF Top
    <2>13. Good([thread EXCEPT ![t] = f], CurrentThread, h, "none")
      BY <2>4, <2>6, <2>7, <2>8, <2>9, <2>10, <2>12, <1>3, Stay DEF s
    <2> QED
      BY <2>1, <2>3, <2>13, <1>1 DEF IInv
  <1> QED
    BY <1>8, <1>9

\* pcall sets yieldContRB in a thread whose slot is free.
LEMMA WFRebased ==
    ASSUME NEW s, WF(s), ~s.Dead, NEW n \in 1..Depth(s), s.stack[n].fn = "pcall"
    PROVE  LET r == [s EXCEPT !.yieldContRB = n + 1] IN
           /\ WF(r) /\ r.stack = s.stack /\ Depth(r) = Depth(s) /\ r.frameExt = s.frameExt
           /\ r.started = s.started /\ Stays(s, r)
  <1> DEFINE r == [s EXCEPT !.yieldContRB = n + 1]
  <1>1. s \in LStates /\ Depth(s) \in Nat /\ Depth(s) <= MaxDepth /\ MaxDepth \in Nat
        /\ Stacked(s) /\ Slotted(s) /\ Extended(s) /\ Suspended(s) /\ Buried(s)
        /\ (s.started => Depth(s) > 0) /\ (s.wrapped => "wrap" \in Uses)
    BY WFIs DEF WF
  <1>2. n + 1 \in 0..MaxDepth + 1
    BY <1>1
  <1>3. /\ r \in LStates /\ r.stack = s.stack /\ r.frameExt = s.frameExt /\ r.Dead = s.Dead
        /\ r.started = s.started /\ r.wrapped = s.wrapped /\ r.yieldCont = s.yieldCont
        /\ r.Parent = s.Parent /\ r.yieldState = s.yieldState
    BY <1>1, <1>2 DEF LStates
  <1>4. s.yieldCont = 0
    <2>1. s.yieldCont \in 0..MaxDepth
      BY <1>1, StateIs
    <2>2. s.yieldCont # 0 => s.yieldCont \in 1..Depth(s) /\ s.stack[s.yieldCont].op = "redo"
      BY <2>1, <1>1 DEF Slotted
    <2>3. \A i \in 1..Depth(s) : s.stack[i].op = "none"
      BY <1>1 DEF Slotted
    <2> QED
      BY <2>2, <2>3
  <1> HIDE DEF r
  <1>5. Depth(r) = Depth(s) /\ Last(r) = Last(s)
    BY <1>3 DEF Depth, Last
  <1>6. Stacked(r)
    BY <1>1, <1>3, <1>5 DEF Stacked
  <1>7. Slotted(r)
    BY <1>1, <1>3, <1>4, <1>5 DEF Slotted
  <1>8. Extended(r)
    BY <1>1, <1>3, <1>5 DEF Extended
  <1>9. Suspended(r) /\ Buried(r)
    BY <1>1, <1>3, <1>5 DEF Suspended, Buried, LastIsG, HasContinuation
  <1>10. WF(r)
    BY <1>1, <1>3, <1>5, <1>6, <1>7, <1>8, <1>9 DEF WF
  <1> QED
    BY <1>3, <1>5, <1>10 DEF r, Stays

\* The loop that called pcall, once the pcall's frame is on top again.
LEMMA PcallPoised ==
    ASSUME NEW d \in Activations, NEW b, b.k = "pcall", NEW s, Holds(d, b, s),
           NEW u, WF(u), ~u.Dead, Depth(u) = b.at, u.stack[b.at].fn = "pcall"
    PROVE  Poised(d, u) /\ d.ph = "invoke"
  <1> DEFINE n == b.at
  <1>1. d.ph = "invoke" /\ d.mode = "call" /\ n > 1 /\ n > baseframe(d)
    BY DEF Holds
  <1>2. Stacked(u) /\ n \in Nat /\ baseframe(d) \in Nat
    BY WFIs, ActivationIs DEF WF
  <1>3. n \in 1..n
    BY <1>1, <1>2
  <1>4. u.stack[n - 1].fn = "lua"
    BY <1>2, <1>3 DEF Stacked
  <1> HIDE DEF n
  <1>5. n > 0 /\ n >= baseframe(d)
    BY <1>1, <1>2
  <1> QED
    BY <1>1, <1>4, <1>5 DEF Poised, n

\* The frame of a pcall that is about to return.
LEMMA PcallReturned ==
    ASSUME NEW s, WF(s), ~s.Dead, s.yieldState = "none", NEW n, n = Depth(s), n > 0,
           s.stack[n].fn = "pcall"
    PROVE  Returned(s, [s EXCEPT !.stack[n].Protected = FALSE, !.frameExt[n] = "none"])
  <1> DEFINE m == Armed(s, n, FALSE, "none")
  <1>1. s \in LStates /\ n \in Nat /\ n <= MaxDepth /\ MaxDepth \in Nat
    BY WFIs
  <1>2. n \in 1..n /\ FALSE \in BOOLEAN /\ "none" \in {"none", "pcall"}
    BY <1>1
  <1>3. WF(m)
    BY <1>2, WFArmed
  <1>4. IsArmed(s, m, n, FALSE, "none")
    BY <1>1, <1>2, ArmedIs
  <1>5. m = [s EXCEPT !.stack[n].Protected = FALSE, !.frameExt[n] = "none"]
    BY DEF Armed
  <1> HIDE DEF m
  <1>6. \A i \in 1..n : m.stack[i].fn = s.stack[i].fn /\ m.stack[i].op = s.stack[i].op
    BY <1>4 DEF IsArmed
  <1>7. \A i \in 1..MaxDepth : m.frameExt[i] \in Threads => m.frameExt[i] = s.frameExt[i]
    BY <1>4, ThreadAssumption DEF IsArmed
  <1>8. Depth(m) = n /\ m.started = s.started /\ SameRest(s, m)
    BY <1>4 DEF IsArmed
  <1> QED
    BY <1>3, <1>5, <1>6, <1>7, <1>8 DEF Returned

\* The return of pcall's loop, after a yield too, keeps the invariant.
LEMMA PcallReturnsGood ==
    ASSUME IInv, go # <<>>, pcallReturns
    PROVE  IInv'
  <1> DEFINE a == TopGo(go)
             t == a.t
             s == thread[t]
             n == a.at
             h == PopGo(go)
             d == TopGo(h)
             r == [s EXCEPT !.yieldContRB = n + 1]
             f == [s EXCEPT !.stack[n].Protected = FALSE, !.frameExt[n] = "none"]
  <1>1. sig = "return" /\ a.k = "pcall"
    BY DEF pcallReturns
  <1>2. /\ t \in Threads /\ WF(s) /\ ~s.Dead
        /\ s \in LStates /\ Depth(s) \in Nat /\ Depth(s) <= MaxDepth /\ MaxDepth \in Nat
        /\ (s.yieldState = "none" => Depth(s) = n /\ ~Gone(s))
        /\ (s.yieldState # "none" => Gone(s))
        /\ thread \in [Threads -> LStates] /\ Begun(t, s)
        /\ Good(thread, CurrentThread, go, "return")
    BY <1>1, Returning
  <1>3. /\ h # <<>> /\ h \in Seq(Activations) /\ d \in Activations /\ d.t = t
        /\ baseframe(d) <= n /\ baseframe(d) \in Nat /\ n \in Nat
        /\ Holds(d, a, s) /\ n \in 1..Depth(s)
        /\ (d.k \in {"meta", "pcall"} => d.at \in Nat /\ d.at < n)
    BY <1>1, <1>2, PoppedIs
  <1>4. d.mode = "call" /\ s.stack[n].fn = "pcall"
    BY <1>1, <1>3 DEF Holds
  <1>5. CASE s.yieldState # "none"
    <2>1. sig' = "return" /\ thread' = [thread EXCEPT ![t] = r] /\ go' = h
          /\ CurrentThread' = CurrentThread
      BY <1>1, <1>4, <1>5 DEF pcallReturns, afterTail
    <2>2. /\ WF(r) /\ r.stack = s.stack /\ Depth(r) = Depth(s) /\ r.frameExt = s.frameExt
          /\ r.started = s.started /\ Stays(s, r)
      BY <1>2, <1>3, <1>4, WFRebased
    <2> HIDE DEF r
    <2>3. Keeps(s, r, d)
      <3>1. d.k \in {"meta", "pcall"} => d.at <= Depth(s)
        BY <1>2, <1>3
      <3> QED
        BY <3>1, <2>2 DEF Keeps
    <2>4. Top(thread, h, "return") /\ "return" \in {"none", "return", "panic"}
      BY <1>2, <1>3, <1>5 DEF Top
    <2> HIDE DEF h
    <2>5. Good(thread, CurrentThread, h, "return")
      BY <2>4, <1>1, <1>2, PopActivation DEF h
    <2> HIDE DEF s, t, n
    <2>6. t = TopGo(h).t
      BY <1>3
    <2>7. Good([thread EXCEPT ![t] = r], CurrentThread, h, "return")
      BY <2>2, <2>3, <2>5, <2>6, <1>3, Retouch DEF s
    <2> QED
      BY <2>1, <2>7 DEF IInv
  <1>6. CASE s.yieldState = "none"
    <2>1. goReturns(t, f, h)
      BY <1>1, <1>6 DEF pcallReturns
    <2>2. Returned(s, f)
      <3>1. n > 0 /\ n = Depth(s)
        BY <1>2, <1>3, <1>6
      <3> QED
        BY <3>1, <1>2, <1>4, <1>6, PcallReturned
    <2> HIDE DEF f
    <2>3. Poised(d, s) /\ d.ph = "invoke"
      BY <1>1, <1>2, <1>3, <1>4, <1>6, PcallPoised
    <2>4. Top(thread, h, "none") /\ "none" \in {"none", "return", "panic"} /\ "none" # "return"
      BY <2>3, <1>3 DEF Top
    <2> HIDE DEF h
    <2>5. Good(thread, CurrentThread, h, "none")
      BY <2>4, <1>1, <1>2, <1>6, PopActivation DEF h
    <2> HIDE DEF s, t, n
    <2>6. t = TopGo(h).t /\ \A x : [thread EXCEPT ![t] = x] = [thread EXCEPT ![t] = x]
      BY <1>3
    <2> QED
      BY <2>1, <2>2, <2>3, <2>5, <2>6, <1>3, GoReturns DEF IInv, s
  <1> QED
    BY <1>5, <1>6

\* pcall catching an error of its own loop keeps the invariant.
LEMMA PcallFailedGood ==
    ASSUME IInv, go # <<>>, pcallFailed
    PROVE  IInv'
  <1> DEFINE a == TopGo(go)
             t == a.t
             s == thread[t]
             n == a.at
             h == PopGo(go)
             d == TopGo(h)
             u == unwindCallFrames(s, n)
             f == [u EXCEPT !.stack[n].Protected = FALSE, !.frameExt[n] = "none"]
             tt == [thread EXCEPT ![t] = u]
  <1>1. sig = "panic" /\ a.k = "pcall" /\ goReturns(t, f, h)
    BY DEF pcallFailed
  <1>2. Good(thread, CurrentThread, go, "panic") /\ "panic" # "return"
    BY <1>1 DEF IInv
  <1>3. t \in Threads /\ WF(s) /\ ~s.Dead /\ s.yieldState = "none" /\ ~Gone(s)
    BY <1>2, Running
  <1>4. s \in LStates /\ Depth(s) \in Nat /\ Depth(s) <= MaxDepth /\ MaxDepth \in Nat
        /\ thread \in [Threads -> LStates]
    BY <1>2, <1>3, WFIs DEF Good
  <1>5. /\ h # <<>> /\ h \in Seq(Activations) /\ d \in Activations /\ d.t = t
        /\ baseframe(d) <= n /\ baseframe(d) \in Nat /\ n \in Nat
        /\ Holds(d, a, s) /\ n \in 1..Depth(s)
        /\ (d.k \in {"meta", "pcall"} => d.at \in Nat /\ d.at < n)
    BY <1>1, <1>2, PoppedIs
  <1>6. s.stack[n].fn = "pcall" /\ n <= Depth(s) /\ n > 0 /\ n \in 1..n
    BY <1>1, <1>4, <1>5 DEF Holds
  <1>7. WF(u)
    BY <1>3, <1>5, <1>6, WFUnwind
  <1>8. /\ Depth(u) = n /\ (\A i \in 1..n : u.stack[i] = s.stack[i])
        /\ \A i \in 1..MaxDepth : u.frameExt[i] = IF i \in n + 1..Depth(s) THEN "none"
                                                                  ELSE s.frameExt[i]
        /\ u.yieldState = s.yieldState /\ u.Parent = s.Parent /\ u.Dead = s.Dead
        /\ (u.started <=> n > 0)
    <2> HIDE DEF s, n
    <2>1. s \in LStates /\ n \in Nat /\ n <= Depth(s)
      BY <1>4, <1>5, <1>6
    <2> QED
      BY <2>1, UnwindIs
  <1> HIDE DEF u, n
  <1>9. Keeps(s, u, d)
    <2>1. d.k \in {"meta", "pcall"} => d.at <= n /\ \A i \in 1..d.at : i \in 1..n
      BY <1>5
    <2> QED
      BY <2>1, <1>8 DEF Keeps
  <1>10. Carries(thread, h, s, u) /\ Begun(t, u) /\ Stays(s, u)
    <2>1. \A i \in 1..MaxDepth : u.frameExt[i] \in Threads => u.frameExt[i] = s.frameExt[i]
      BY <1>8, ThreadAssumption
    <2> QED
      BY <2>1, <1>6, <1>8 DEF Carries, Begun, Stays
  <1>11. Poised(d, u) /\ d.ph = "invoke"
    <2>1. Depth(u) = a.at /\ u.stack[a.at].fn = "pcall" /\ ~u.Dead
      BY <1>3, <1>6, <1>8 DEF n
    <2> QED
      BY <2>1, <1>1, <1>5, <1>7, PcallPoised
  <1>12. Returned(u, f)
    <2>1. u.stack[n].fn = "pcall" /\ ~u.Dead /\ u.yieldState = "none"
      BY <1>3, <1>6, <1>8
    <2> QED
      BY <2>1, <1>6, <1>7, <1>8, PcallReturned
  <1>13. Top(thread, h, "panic") /\ "panic" \in {"none", "return", "panic"}
         /\ "none" \in {"none", "return", "panic"}
    BY <1>5 DEF Top
  <1> HIDE DEF h, f
  <1>14. Good(thread, CurrentThread, h, "panic")
    BY <1>1, <1>2, <1>13, PopActivation DEF h
  <1>15. tt[t] = u /\ \A x : [thread EXCEPT ![t] = x] = [tt EXCEPT ![t] = x]
    BY <1>3, <1>4
  <1>16. Top(tt, h, "none")
    BY <1>5, <1>11, <1>15 DEF Top
  <1> HIDE DEF s, t
  <1>17. t = TopGo(h).t /\ Alike(h, h)
    BY <1>5, AlikeSelf
  <1>18. Good(tt, CurrentThread, h, "none")
    BY <1>2, <1>5, <1>7, <1>9, <1>10, <1>13, <1>14, <1>16, <1>17, Stay DEF s
  <1> HIDE DEF tt
  <1>19. Good(thread', CurrentThread', go', sig')
    BY <1>1, <1>5, <1>11, <1>12, <1>15, <1>17, <1>18, GoReturns
  <1> QED
    BY <1>19 DEF IInv

-----------------------------------------------------------------------------
(* A thread gives the Go stack back.                                       *)

\* A pcall on top of a suspended thread is armed.
LEMMA GoneRests ==
    ASSUME NEW s, WF(s), Gone(s), ~s.Dead, s.stack[Depth(s)].fn = "pcall"
    PROVE  s.frameExt[Depth(s)] = "pcall"
  <1>1. s \in LStates /\ Depth(s) \in Nat /\ Depth(s) <= MaxDepth /\ MaxDepth \in Nat
        /\ Suspended(s) /\ Extended(s)
    BY WFIs DEF WF
  <1>2. Depth(s) > 0 /\ (LastIsG(s) => HasContinuation(s))
    BY <1>1 DEF Gone, Suspended
  <1>3. LastIsG(s) /\ Depth(s) \in 1..MaxDepth
    BY <1>1, <1>2 DEF LastIsG, IsG, Last, GoFns, Fns
  <1>4. s.frameExt[Depth(s)] # "none"
    BY <1>2, <1>3 DEF HasContinuation
  <1> QED
    BY <1>1, <1>3, <1>4 DEF Extended

\* The state in which a thread leaves the Go stack.
Left(s, s2) ==
    /\ WF(s2)
    /\ s2.Dead \/ (s2 = s /\ Gone(s2))

\* A thread that left alive is as it was, with its pcalls extended.
LEMMA LeftRests ==
    ASSUME NEW s, NEW s2, Left(s, s2), ~s2.Dead
    PROVE  s2 = s /\ (s2.stack[Depth(s2)].fn = "pcall" => s2.frameExt[Depth(s2)] = "pcall")
  BY GoneRests DEF Left

\* A thread that left awaits nothing new.
LEMMA LeftExtended ==
    ASSUME NEW s, NEW s2, Left(s, s2), NEW i \in 1..MaxDepth, s2.frameExt[i] \in Threads
    PROVE  s2.frameExt[i] = s.frameExt[i]
  BY ThreadAssumption DEF Left, WF, Buried

\* Who awaits whom outlasts the leaving of a thread.
LEMMA LeftAwaits ==
    ASSUME NEW ts \in [Threads -> LStates], NEW th \in Threads, NEW s2,
           \A i \in 1..MaxDepth : s2.frameExt[i] \in Threads => s2.frameExt[i] = ts[th].frameExt[i],
           NEW g, NEW h, Awaits(ts, g), ~OffGo(g, th),
           \A c \in Threads : OffGo(g, c) => OffGo(h, c)
    PROVE  Awaits([ts EXCEPT ![th] = s2], h)
  <1> DEFINE tt == [ts EXCEPT ![th] = s2]
  <1>1. tt[th] = s2 /\ \A u \in Threads : u # th => tt[u] = ts[u]
    OBVIOUS
  <1>3. \A u \in Threads, i \in 1..MaxDepth : tt[u].frameExt[i] \in Threads =>
          tt[u].frameExt[i] = ts[u].frameExt[i]
    BY <1>1
  <1> HIDE DEF tt
  <1> SUFFICES ASSUME NEW t \in Threads, NEW i \in 1..MaxDepth, tt[t].frameExt[i] \in Threads
               PROVE  LET c == tt[t].frameExt[i] IN
                      /\ c # Main /\ tt[c].yieldState = "system" /\ OffGo(h, c)
                      /\ \A u \in Threads, j \in 1..MaxDepth : tt[u].frameExt[j] = c => u = t /\ j = i
    BY DEF Awaits, tt
  <1> DEFINE c == tt[t].frameExt[i]
  <1>4. c = ts[t].frameExt[i] /\ c \in Threads
    BY <1>3
  <1> HIDE DEF c
  <1>5. /\ c # Main /\ ts[c].yieldState = "system" /\ OffGo(g, c)
        /\ \A u \in Threads, j \in 1..MaxDepth : ts[u].frameExt[j] = c => u = t /\ j = i
    BY <1>4 DEF Awaits
  <1>6. c # th
    BY <1>5
  <1>7. tt[c].yieldState = "system" /\ OffGo(h, c)
    BY <1>1, <1>4, <1>5, <1>6
  <1>8. \A u \in Threads, j \in 1..MaxDepth : tt[u].frameExt[j] = c => ts[u].frameExt[j] = c
    BY <1>3, <1>4
  <1> QED
    BY <1>5, <1>7, <1>8 DEF c

\* The host's activation ends and no Lua code runs.
LEMMA Empties ==
    ASSUME NEW ts, NEW cur, NEW g, NEW sg, Good(ts, cur, g, sg), Len(g) = 1,
           NEW t, t = g[1].t, NEW s2, WF(s2), Begun(t, s2),
           Depth(s2) = 0 \/ Left(ts[t], s2),
           t = Main => s2.Parent = NoThread /\ ~s2.Dead /\ s2.yieldState = "none" /\ Depth(s2) = 0,
           NEW cur2 \in Threads, cur2 = Main \/ Zombie([ts EXCEPT ![t] = s2], cur2)
    PROVE  Good([ts EXCEPT ![t] = s2], cur2, <<>>, "none")
  <1> DEFINE tt == [ts EXCEPT ![t] = s2]
             h == <<>>
  <1>1. /\ ts \in [Threads -> LStates] /\ g \in Seq(Activations) /\ Awaits(ts, g) /\ Rested(ts, g)
        /\ \A u \in Threads : WF(ts[u])
    BY DEF Good, Shape
  <1>2. t \in Threads /\ s2 \in LStates /\ ~OffGo(g, t) /\ \A u : u # t => OffGo(g, u)
    <2>1. 1 \in 1..Len(g) /\ \A j \in 1..Len(g) : j = 1
      OBVIOUS
    <2>2. g[1] \in Activations
      BY <1>1
    <2> QED
      BY <2>1, <2>2, ActivationIs DEF OffGo, WF
  <1>3. tt \in [Threads -> LStates] /\ tt[t] = s2 /\ \A u \in Threads : u # t => tt[u] = ts[u]
    BY <1>1, <1>2
  <1>4. \A u \in Threads : WF(tt[u])
    BY <1>1, <1>3
  <1>5. h \in Seq(Activations) /\ Len(h) = 0 /\ \A j \in 1..Len(h) : FALSE
    OBVIOUS
  <1>6. \A c : OffGo(h, c)
    BY <1>5 DEF OffGo
  <1>7. Main \in Threads
    BY DEF Threads
  <1> HIDE DEF tt, h
  <1>8. Shape(h)
    BY <1>5 DEF Shape, Ends, Stepwise, Owned, Apart, Rooted, h
  <1>9. Held(tt, h) /\ Parents(tt, h, "none") /\ Top(tt, h, "none") /\ Current(tt, cur2, h, "none")
    BY <1>5 DEF Held, Parents, Top, Current, h, tt
  <1>10. Rested(tt, h)
    <2>1. \A u \in Threads : ~tt[u].Dead /\ Depth(tt[u]) > 0 =>
            /\ u # Main
            /\ tt[u].stack[Depth(tt[u])].fn = "pcall" => tt[u].frameExt[Depth(tt[u])] = "pcall"
      <3> SUFFICES ASSUME NEW u \in Threads, ~tt[u].Dead, Depth(tt[u]) > 0
                   PROVE  /\ u # Main
                          /\ tt[u].stack[Depth(tt[u])].fn = "pcall" =>
                               tt[u].frameExt[Depth(tt[u])] = "pcall"
        OBVIOUS
      <3>1. CASE u = t
        <4>1. tt[u] = s2 /\ Depth(s2) # 0
          BY <3>1, <1>3, WFIs
        <4>2. Left(ts[t], s2) /\ u # Main
          BY <3>1, <4>1
        <4> QED
          BY <4>1, <4>2, LeftRests
      <3>2. CASE u # t
        BY <3>2, <1>1, <1>2, <1>3 DEF Rested
      <3> QED
        BY <3>1, <3>2
    <2>2. tt[Main].Parent = NoThread /\ ~tt[Main].Dead /\ tt[Main].yieldState = "none"
      BY <1>1, <1>3, <1>7 DEF Rested
    <2>3. \A u \in Threads \ LuaThreads : ~tt[u].Dead /\ Depth(tt[u]) > 0 => tt[u].started
      <3> SUFFICES ASSUME NEW u \in Threads \ LuaThreads, ~tt[u].Dead, Depth(tt[u]) > 0
                   PROVE  tt[u].started
        OBVIOUS
      <3>1. CASE u = t
        BY <3>1, <1>3 DEF Begun
      <3>2. CASE u # t
        BY <3>2, <1>1, <1>3 DEF Rested
      <3> QED
        BY <3>1, <3>2
    <2> QED
      BY <2>1, <2>2, <2>3 DEF Rested
  <1>11. Awaits(tt, h)
    <2>1. \A i \in 1..MaxDepth : s2.frameExt[i] \in Threads => s2.frameExt[i] = ts[t].frameExt[i]
      <3>1. CASE Left(ts[t], s2)
        BY <3>1, LeftExtended
      <3>2. CASE Depth(s2) = 0
        BY <3>2, ThreadAssumption DEF WF, Extended, Buried
      <3> QED
        BY <3>1, <3>2
    <2> QED
      BY <2>1, <1>1, <1>2, <1>6, LeftAwaits DEF tt
  <1> QED
    BY <1>3, <1>4, <1>8, <1>9, <1>10, <1>11 DEF Good, tt, h

\* The threadRun on top of the Go stack and the coResume that started it.
LEMMA ResumerIs ==
    ASSUME NEW ts, NEW cur, NEW g, NEW sg, Good(ts, cur, g, sg), Len(g) > 1, TopGo(g).k = "run"
    PROVE  LET n == Len(g)
               r == TopGo(PopGo(g))
               h == PopGo(PopGo(g))
               d == TopGo(h)
           IN /\ n \in Nat /\ n > 2 /\ Prefix(g, h) /\ Len(h) = n - 2 /\ Shape(h)
              /\ r = g[n - 1] /\ TopGo(g) = g[n]
              /\ r.k = "resume" /\ r.th = TopGo(g).t /\ r.th \in Threads /\ r.th # Main
              /\ r.t \in Threads /\ d.t = r.t /\ r.th # r.t
              /\ d \in Activations /\ Holds(d, r, ts[r.t])
              /\ \A j \in 1..n - 1 : g[j].t # r.th
  <1> DEFINE n == Len(g)
             f == PopGo(g)
             r == TopGo(f)
             h == PopGo(f)
             d == TopGo(h)
             b == TopGo(g)
  <1>1. Shape(g) /\ g \in Seq(Activations) /\ Held(ts, g)
    BY DEF Good, Shape
  <1>2. n \in Nat /\ n > 1 /\ n \in 1..n /\ n - 1 \in 1..n /\ g # <<>> /\ b = g[n]
        /\ \A j \in 1..n - 1 : j \in 1..n /\ j < n
    BY <1>1 DEF TopGo
  <1>3. Prefix(g, f) /\ Len(f) = n - 1 /\ r = g[n - 1]
    BY <1>1, <1>2, PopGoIs
  <1>4. Joined(r, b)
    BY <1>1, <1>2, <1>3 DEF Shape, Stepwise
  <1>5. r.k = "resume" /\ r.th = b.t
    BY <1>4 DEF Joined
  <1>6. n > 2
    <2>1. n - 1 # 1
      BY <1>1, <1>2, <1>3, <1>5 DEF Shape, Ends
    <2> HIDE DEF n
    <2> QED
      BY <2>1, <1>2
  <1>7. Prefix(g, h) /\ Len(h) = n - 2 /\ d = g[n - 2]
    BY <1>1, <1>6, PopTwiceIs
  <1>8. n - 2 \in 1..n /\ n - 1 > 1 /\ (n - 1) - 1 = n - 2
    BY <1>2, <1>6
  <1>9. Joined(d, r) /\ Holds(d, r, ts[r.t])
    BY <1>1, <1>2, <1>3, <1>7, <1>8 DEF Shape, Stepwise, Held
  <1>10. d.k # "resume" /\ d.t = r.t
    BY <1>5, <1>9 DEF Joined
  <1>11. Shape(h)
    BY <1>1, <1>7, <1>10, ShapePrefix
  <1>12. \A j \in 1..n - 1 : g[j].t # b.t
    BY <1>1, <1>2 DEF Shape, Apart
  <1>13. r.t # b.t /\ b.t # Main
    <2>1. n - 1 \in 1..n - 1
      BY <1>2
    <2> QED
      BY <2>1, <1>1, <1>2, <1>3, <1>12 DEF Shape, Owned
  <1>14. r.t \in Threads /\ b.t \in Threads /\ d \in Activations
    <2>1. r \in Activations /\ b \in Activations /\ d \in Activations
      BY <1>1, <1>2, <1>3, <1>7, <1>8
    <2> QED
      BY <2>1, ActivationIs
  <1> QED
    BY <1>2, <1>3, <1>5, <1>6, <1>7, <1>9, <1>10, <1>11, <1>12, <1>13, <1>14

\* The threadRun on top of the Go stack and its coResume come back together.
LEMMA GivesBack ==
    ASSUME NEW ts, NEW cur, NEW g, NEW sg, Good(ts, cur, g, sg), Len(g) > 1, TopGo(g).k = "run",
           NEW th, th = TopGo(g).t, NEW s2, Left(ts[th], s2),
           NEW sg2 \in {"none", "panic"},
           cur = TopGo(PopGo(g)).t \/ Zombie([ts EXCEPT ![th] = s2], cur)
    PROVE  Good([ts EXCEPT ![th] = s2], cur, PopGo(PopGo(g)), sg2)
  <1> DEFINE n == Len(g)
             r == TopGo(PopGo(g))
             h == PopGo(PopGo(g))
             d == TopGo(h)
             tt == [ts EXCEPT ![th] = s2]
  <1>1. /\ n \in Nat /\ n > 2 /\ Prefix(g, h) /\ Len(h) = n - 2 /\ Shape(h)
        /\ r = g[n - 1] /\ TopGo(g) = g[n] /\ r.k = "resume" /\ th \in Threads /\ th # Main
        /\ r.t \in Threads /\ d.t = r.t /\ th # r.t
        /\ d \in Activations /\ Holds(d, r, ts[r.t])
        /\ \A j \in 1..n - 1 : g[j].t # th
    BY ResumerIs
  <1>2. /\ ts \in [Threads -> LStates] /\ g \in Seq(Activations) /\ Held(ts, g)
        /\ Awaits(ts, g) /\ Rested(ts, g) /\ Parents(ts, g, sg) /\ \A u \in Threads : WF(ts[u])
    BY DEF Good, Shape
  <1>3. WF(s2) /\ s2 \in LStates
    BY DEF Left, WF
  <1>4. tt \in [Threads -> LStates] /\ tt[th] = s2 /\ \A u \in Threads : u # th => tt[u] = ts[u]
    BY <1>1, <1>2, <1>3
  <1>5. \A u \in Threads : WF(tt[u])
    BY <1>2, <1>3, <1>4
  <1> HIDE DEF tt, h, r, n
  <1>6. /\ \A j \in 1..n - 2 : /\ h[j] = g[j] /\ j \in 1..n /\ j \in 1..n - 1 /\ g[j].t # th
                               /\ g[j].t \in Threads /\ tt[g[j].t] = ts[g[j].t]
        /\ h # <<>> /\ n - 2 \in 1..n - 2 /\ d = h[n - 2]
    <2>1. \A j \in 1..n - 2 : h[j] = g[j] /\ j \in 1..n /\ j \in 1..n - 1
      BY <1>1 DEF Prefix, n
    <2>2. \A j \in 1..n - 2 : g[j].t # th /\ g[j].t \in Threads
      <3>1. \A j \in 1..n : g[j] \in Activations
        BY <1>2 DEF n
      <3>2. \A j \in 1..n : g[j].t \in Threads
        BY <3>1, ActivationIs
      <3> QED
        BY <3>2, <2>1, <1>1
    <2>3. h # <<>> /\ n - 2 \in 1..n - 2 /\ d = h[n - 2]
      BY <1>1 DEF Prefix, TopGo
    <2> QED
      BY <2>1, <2>2, <2>3, <1>4
  <1>7. Held(ts, h) /\ \A j \in 1..n - 2 : Resumer(h, j) = Resumer(g, j)
    BY <1>1, <1>2, HeldPrefix
  <1>8. Held(tt, h)
    <2> SUFFICES ASSUME NEW j \in 1..n - 2, j > 1 PROVE Holds(h[j - 1], h[j], tt[h[j].t])
      BY <1>1 DEF Held
    <2>1. Holds(h[j - 1], h[j], ts[h[j].t])
      BY <1>1, <1>7 DEF Held
    <2> QED
      BY <2>1, <1>6
  <1>9. Parents(tt, h, sg2)
    <2> SUFFICES ASSUME NEW j \in 1..n - 2, h[j].k = "run"
                 PROVE  /\ tt[h[j].t].Parent = Resumer(h, j)
                        /\ ~tt[h[j].t].Dead /\ tt[h[j].t].yieldState = "none"
      BY <1>1 DEF Parents
    <2>1. /\ ts[g[j].t].Parent = Resumer(g, j)
          /\ ~ts[g[j].t].Dead /\ ts[g[j].t].yieldState = "none"
      BY <1>2, <1>6 DEF Parents, n
    <2> QED
      BY <2>1, <1>6, <1>7
  <1>10. Top(tt, h, sg2)
    <2>1. Poised(d, tt[d.t])
      BY <1>1, <1>4 DEF Holds
    <2> QED
      BY <2>1, <1>6 DEF Top
  <1>11. Current(tt, cur, h, sg2)
    <2>1. cur \in Threads
      BY DEF Good, Current
    <2> QED
      BY <2>1, <1>1, <1>6 DEF Current, r, tt
  <1>12. \A c \in Threads : OffGo(g, c) => OffGo(h, c)
    <2>1. \A c : OffGo(g, c) => \A j \in 1..n : g[j].t # c
      BY DEF OffGo, n
    <2>2. \A c : (\A j \in 1..n - 2 : g[j].t # c) => OffGo(h, c)
      BY <1>1, <1>6 DEF OffGo
    <2> QED
      BY <2>1, <2>2, <1>6
  <1>13. \A c \in Threads : c # th /\ OffGo(h, c) => OffGo(g, c)
    <2> SUFFICES ASSUME NEW c \in Threads, c # th, OffGo(h, c), NEW j \in 1..n
                 PROVE  g[j].t # c
      BY DEF OffGo, n
    <2>1. \A i \in 1..n - 2 : g[i].t # c
      BY <1>1, <1>6 DEF OffGo
    <2>2. r.t # c
      BY <2>1, <1>1, <1>6
    <2>3. j \in 1..n - 2 \/ j = n - 1 \/ j = n
      BY <1>1
    <2> QED
      BY <2>1, <2>2, <2>3, <1>1
  <1>14. Rested(tt, h)
    <2>1. \A u \in Threads : OffGo(h, u) /\ ~tt[u].Dead /\ Depth(tt[u]) > 0 =>
            /\ u # Main
            /\ tt[u].stack[Depth(tt[u])].fn = "pcall" => tt[u].frameExt[Depth(tt[u])] = "pcall"
      <3> SUFFICES ASSUME NEW u \in Threads, OffGo(h, u), ~tt[u].Dead, Depth(tt[u]) > 0
                   PROVE  /\ u # Main
                          /\ tt[u].stack[Depth(tt[u])].fn = "pcall" =>
                               tt[u].frameExt[Depth(tt[u])] = "pcall"
        OBVIOUS
      <3>1. CASE u = th
        BY <3>1, <1>1, <1>4, LeftRests
      <3>2. CASE u # th
        BY <3>2, <1>2, <1>4, <1>13 DEF Rested
      <3> QED
        BY <3>1, <3>2
    <2>2. tt[Main].Parent = NoThread /\ ~tt[Main].Dead /\ tt[Main].yieldState = "none"
      BY <1>1, <1>2, <1>4 DEF Rested, Threads
    <2>3. \A u \in Threads \ LuaThreads : ~tt[u].Dead /\ Depth(tt[u]) > 0 => tt[u].started
      <3> SUFFICES ASSUME NEW u \in Threads \ LuaThreads, ~tt[u].Dead, Depth(tt[u]) > 0
                   PROVE  tt[u].started
        OBVIOUS
      <3>1. tt[u] = ts[u]
        BY <1>4, LeftRests
      <3> QED
        BY <3>1, <1>2 DEF Rested
    <2> QED
      BY <2>1, <2>2, <2>3 DEF Rested
  <1>15. Awaits(tt, h)
    <2>1. ~OffGo(g, th)
      BY <1>1 DEF OffGo, n
    <2>2. \A i \in 1..MaxDepth : s2.frameExt[i] \in Threads => s2.frameExt[i] = ts[th].frameExt[i]
      BY LeftExtended
    <2> QED
      BY <2>1, <2>2, <1>1, <1>2, <1>12, LeftAwaits DEF tt
  <1> QED
    BY <1>1, <1>4, <1>5, <1>8, <1>9, <1>10, <1>11, <1>14, <1>15 DEF Good, tt, h

\* The last activation's Go stack is empty once it is popped, twice or once.
LEMMA PopSole ==
    ASSUME NEW g \in Seq(Activations), Len(g) = 1
    PROVE  PopGo(PopGo(g)) = <<>> /\ TopGo(g) = g[1] /\ g # <<>>
  <1>1. PopGo(g) = <<>>
    BY DEF PopGo
  <1>2. PopGo(<<>>) = <<>>
    BY DEF PopGo
  <1> QED
    BY <1>1, <1>2 DEF TopGo

\* An error that escapes a coroutine keeps the invariant.
LEMMA ThreadFailsGood ==
    ASSUME IInv, go # <<>>, threadFails
    PROVE  IInv'
  <1> DEFINE t == TopGo(go).t
             s == thread[t]
             k == kill(s)
             tt == [thread EXCEPT ![t] = k]
  <1>1. sig = "panic" /\ TopGo(go).k = "run"
    BY DEF threadFails
  <1>2. Good(thread, CurrentThread, go, "panic") /\ "panic" # "return"
    BY <1>1 DEF IInv
  <1>3. t \in Threads /\ WF(s) /\ s.Parent # NoThread
        /\ (CurrentThread = t \/ Zombie(thread, CurrentThread))
    BY <1>1, <1>2, Running
  <1>4. CASE ~s.wrapped
    BY <1>3, <1>4, ThreadFailsReturns
  <1>5. CASE s.wrapped
    <2>1. /\ thread' = tt /\ go' = PopGo(PopGo(go)) /\ CurrentThread' = CurrentThread
          /\ sig' = IF Len(go) > 1 THEN "panic" ELSE "none"
      BY <1>3, <1>5 DEF threadFails
    <2>2. WF(k) /\ k.Dead
      BY <1>3, WFKill, WFIs, KillIs
    <2> HIDE DEF k
    <2>3. Left(s, k)
      BY <2>2 DEF Left
    <2>4. thread \in [Threads -> LStates] /\ go \in Seq(Activations) /\ CurrentThread \in Threads
          /\ Len(go) \in Nat /\ Len(go) > 0
      BY <1>2, TopIs DEF Good, Shape, Current
    <2>5. Zombie(tt, CurrentThread)
      <3>1. "wrap" \in Uses
        BY <1>3, <1>5 DEF WF
      <3>2. tt[t] = k /\ \A u \in Threads : u # t => tt[u] = thread[u]
        BY <2>4, <1>3
      <3> QED
        BY <3>1, <3>2, <2>2, <2>4, <1>3 DEF Zombie
    <2> HIDE DEF tt, s
    <2>6. CASE Len(go) > 1
      <3> HIDE DEF t
      <3>1. Good(tt, CurrentThread, PopGo(PopGo(go)), "panic")
        <4>1. t = TopGo(go).t /\ "panic" \in {"none", "panic"}
          BY DEF t
        <4> QED
          BY <4>1, <2>3, <2>5, <2>6, <1>1, <1>2, GivesBack DEF tt, s
      <3> QED
        BY <3>1, <2>1, <2>6 DEF IInv
    <2>7. CASE Len(go) = 1
      <3>1. PopGo(PopGo(go)) = <<>> /\ t = go[1].t
        BY <2>4, <2>7, PopSole
      <3>2. t # Main
        <4>1. 1 \in 1..Len(go) /\ go[1].k = "run"
          BY <2>4, <2>7, <1>1, PopSole
        <4> QED
          BY <4>1, <3>1, <1>2 DEF Good, Shape, Owned
      <3>3. Begun(t, k)
        BY <2>2 DEF Begun
      <3> HIDE DEF t
      <3>4. Good(tt, CurrentThread, <<>>, "none")
        BY <2>2, <2>3, <2>4, <2>5, <2>7, <3>1, <3>2, <3>3, <1>2, Empties DEF tt, s
      <3> QED
        BY <3>1, <3>4, <2>1, <2>7 DEF IInv
    <2>8. Len(go) > 1 \/ Len(go) = 1
      <3> DEFINE n == Len(go)
      <3>1. n \in Nat /\ n > 0
        BY <2>4
      <3> HIDE DEF n
      <3>2. n > 1 \/ n = 1
        BY <3>1
      <3> QED
        BY <3>2 DEF n
    <2> QED
      BY <2>6, <2>7, <2>8
  <1> QED
    BY <1>4, <1>5

\* A coResume that passes a system yield on: its thread leaves with a
\* continuation that names the thread to re-enter.
Propagated(s, th) ==
    [s EXCEPT !.Parent = NoThread, !.yieldState = "system", !.frameExt[Depth(s)] = th]

\* A resume that passes on a system yield suspends its own thread.
LEMMA PropagatedIs ==
    ASSUME NEW s, WF(s), ~s.Dead, Depth(s) > 0, s.stack[Depth(s)].fn = "resume",
           NEW th \in Threads
    PROVE  LET x == Propagated(s, th) IN
           /\ WF(x) /\ x.stack = s.stack /\ Depth(x) = Depth(s) /\ x.frameExt[Depth(s)] = th
           /\ \A i \in 1..MaxDepth : i # Depth(s) => x.frameExt[i] = s.frameExt[i]
           /\ x.started = s.started /\ x.Dead = s.Dead /\ x.yieldState = "system"
           /\ x.Parent = NoThread
  <1> DEFINE n == Depth(s)
             e == [s.frameExt EXCEPT ![n] = th]
             x == Propagated(s, th)
  <1>1. s \in LStates /\ n \in Nat /\ n > 0 /\ n <= MaxDepth /\ MaxDepth \in Nat
        /\ s.frameExt \in [1..MaxDepth -> Continuations] /\ (s.wrapped => "wrap" \in Uses)
    BY WFIs, StateIs DEF WF
  <1>2. n \in 1..MaxDepth /\ th # "none"
    BY <1>1, ThreadAssumption
  <1>3. x = [s EXCEPT !.Parent = NoThread, !.yieldState = "system", !.frameExt = e]
    BY DEF Propagated
  <1> HIDE DEF n
  <1>4. e \in [1..MaxDepth -> Continuations] /\ e[n] = th
        /\ \A i \in 1..MaxDepth : i # n => e[i] = s.frameExt[i]
    BY <1>1, <1>2 DEF Continuations
  <1> HIDE DEF e
  <1>5. /\ x \in LStates /\ x.stack = s.stack /\ x.frameExt = e /\ x.started = s.started
        /\ x.Dead = s.Dead /\ x.yieldState = "system" /\ x.Parent = NoThread
        /\ x.yieldCont = s.yieldCont /\ x.yieldContRB = s.yieldContRB /\ x.wrapped = s.wrapped
    BY <1>1, <1>3, <1>4 DEF LStates
  <1> HIDE DEF x
  <1>6. Depth(x) = n
    BY <1>5 DEF Depth, n
  <1>7. Suspended(x)
    BY <1>1, <1>2, <1>4, <1>5, <1>6 DEF Suspended, HasContinuation
  <1>8. x.frameExt[Depth(s)] = th /\ \A i \in 1..MaxDepth : i # Depth(s) => x.frameExt[i] = s.frameExt[i]
    BY <1>4, <1>5 DEF n
  <1>9. WF(x)
    BY <1>1, <1>5, <1>7, <1>8, WFContinue
  <1> QED
    BY <1>5, <1>6, <1>8, <1>9 DEF x, n

\* The return of a resume, whatever its coroutine did, keeps the invariant.
LEMMA ResumeReturnsGood ==
    ASSUME IInv, resumeReturns
    PROVE  IInv'
  <1> DEFINE r == TopGo(PopGo(go))
             h == PopGo(PopGo(go))
             d == TopGo(h)
             t == r.t
             s == thread[t]
             th == r.th
             x == Propagated(s, th)
             y == afterTail(x, d)
  <1>1. sig = "return" /\ TopGo(go).k = "run" /\ Len(go) > 1
    BY DEF resumeReturns
  <1>2. Good(thread, CurrentThread, go, "return")
    BY <1>1 DEF IInv
  <1>3. /\ Len(go) \in Nat /\ Len(go) > 2 /\ Prefix(go, h) /\ th = TopGo(go).t
        /\ r = go[Len(go) - 1] /\ TopGo(go) = go[Len(go)]
        /\ r.k = "resume" /\ th \in Threads /\ th # Main /\ t \in Threads /\ d.t = t /\ th # t
        /\ d \in Activations /\ Holds(d, r, s)
        /\ \A j \in 1..Len(go) - 1 : go[j].t # th
    BY <1>1, <1>2, ResumerIs
  <1>4. go # <<>> /\ h # <<>> /\ h \in Seq(Activations) /\ Len(go) \in 1..Len(go)
        /\ thread \in [Threads -> LStates] /\ go \in Seq(Activations)
    <2>1. go \in Seq(Activations) /\ thread \in [Threads -> LStates]
      BY <1>2 DEF Good, Shape
    <2> QED
      BY <2>1, <1>3 DEF Prefix
  <1>5. WF(thread[th]) /\ WF(s) /\ Gone(thread[th])
    BY <1>1, <1>2, <1>3, <1>4 DEF Good, Top
  <1>6. CurrentThread = t
    <2>1. CurrentThread = Resumer(go, Len(go))
      BY <1>1, <1>2, <1>3, <1>4, <1>5 DEF Good, Current
    <2>2. Len(go) # 1
      BY <1>3
    <2> QED
      BY <2>1, <2>2, <1>3 DEF Resumer
  <1>7. Good(thread, CurrentThread, h, "none")
    <2>1. Left(thread[th], thread[th])
      BY <1>5 DEF Left
    <2>2. [thread EXCEPT ![th] = thread[th]] = thread
      BY <1>3, <1>4
    <2>3. "none" \in {"none", "panic"}
      OBVIOUS
    <2> HIDE DEF th
    <2>4. Good([thread EXCEPT ![th] = thread[th]], CurrentThread, h, "none")
      BY <2>1, <2>3, <1>1, <1>2, <1>3, <1>6, GivesBack
    <2> QED
      BY <2>2, <2>4
  <1>8. d.ph = "invoke" /\ Poised(d, s) /\ s.stack[Depth(s)].fn = "resume"
        /\ s.frameExt[Depth(s)] = "none"
    BY <1>3 DEF Holds
  <1>9. CASE thread[th].yieldState # "system" \/ s.Parent = NoThread
    <2>1. goReturns(t, s, h)
      BY <1>9 DEF resumeReturns
    <2>2. Returned(s, s)
      BY <1>5, ReturnedSelf
    <2> HIDE DEF h
    <2>3. t = TopGo(h).t /\ \A z : [thread EXCEPT ![t] = z] = [thread EXCEPT ![t] = z]
      BY <1>3
    <2> HIDE DEF t
    <2> QED
      BY <2>1, <2>2, <2>3, <1>4, <1>7, <1>8, GoReturns DEF IInv
  <1>10. CASE thread[th].yieldState = "system" /\ s.Parent # NoThread
    <2>1. /\ CurrentThread' = s.Parent /\ thread' = [thread EXCEPT ![t] = y]
          /\ go' = h /\ sig' = "return"
      BY <1>1, <1>10 DEF resumeReturns, Propagated
    <2>2. ~s.Dead /\ Depth(s) \in Nat /\ Depth(s) > 0 /\ Depth(s) <= MaxDepth /\ MaxDepth \in Nat
          /\ Depth(s) >= baseframe(d) /\ baseframe(d) \in Nat
          /\ d.at \in Nat /\ (d.k # "run" => baseframe(d) = d.at + 1)
          /\ d.k # "resume"
      <3>1. ~s.Dead
        <4>1. TopGo(h).t = t /\ "none" # "return"
          BY <1>3
        <4> QED
          BY <4>1, <1>4, <1>7, Running
      <3>2. d.k # "resume"
        BY <1>4, <1>7, TopHeld
      <3> QED
        BY <3>1, <3>2, <1>3, <1>5, <1>8, WFIs, ActivationIs DEF Poised
    <2>3. /\ WF(x) /\ x.stack = s.stack /\ Depth(x) = Depth(s) /\ x.frameExt[Depth(s)] = th
          /\ \A i \in 1..MaxDepth : i # Depth(s) => x.frameExt[i] = s.frameExt[i]
          /\ x.started = s.started /\ x.Dead = s.Dead /\ x.yieldState = "system"
          /\ x.Parent = NoThread
      BY <2>2, <1>3, <1>5, <1>8, PropagatedIs
    <2> HIDE DEF x
    <2>4. IsTail(x, y, d)
      <3>1. d.mode = "tail" => /\ Depth(s) > 1 /\ s.stack[Depth(s) - 1].fn = "lua"
                               /\ s.stack[Depth(s) - 1].op = "none"
        BY <1>8 DEF Poised
      <3>2. x.stack[Depth(x)].fn = "resume" /\ ~x.Dead /\ Depth(x) > 0
        BY <2>2, <2>3, <1>8
      <3> QED
        BY <3>1, <3>2, <2>3, TailIs
    <2> HIDE DEF y
    <2>5. /\ WF(y) /\ Depth(y) \in Nat /\ Depth(y) > 0 /\ y.started = s.started
          /\ y.Dead = s.Dead /\ y.yieldState = "system" /\ y.Parent = NoThread
          /\ (d.mode # "tail" => y = x) /\ (d.mode = "tail" => Depth(y) = Depth(s) - 1)
          /\ y.frameExt[Depth(y)] = th
          /\ (\A i \in 1..Depth(y) : i < Depth(y) =>
                y.stack[i] = x.stack[i] /\ y.frameExt[i] = x.frameExt[i])
          /\ \A i \in 1..MaxDepth : i > Depth(y) => y.frameExt[i] = "none"
      BY <2>3, <2>4, WFIs DEF IsTail, SameRest
    <2>6. Gone(y) /\ Begun(t, y)
      <3>1. Begun(t, s)
        BY <1>3, <1>7, BegunIs
      <3> QED
        BY <3>1, <2>2, <2>5 DEF Gone, Begun
    <2>7. Keeps(s, y, d)
      <3>1. d.mode = "tail" => Depth(s) > baseframe(d)
        BY <1>8 DEF Poised
      <3> HIDE DEF s
      <3>2. d.k \in {"meta", "pcall"} =>
              d.at <= Depth(y) /\ \A i \in 1..d.at : i \in 1..Depth(y) /\ i < Depth(y)
        BY <3>1, <2>2, <2>3, <2>5
      <3>3. \A i \in 1..Depth(y) : i < Depth(y) => y.stack[i] = s.stack[i]
        BY <2>3, <2>5
      <3> QED
        BY <3>2, <3>3 DEF Keeps
    <2>8. Carries(thread, h, s, y)
      <3>1. Fresh(thread, h, th)
        <4>1. OffGo(h, th)
          BY <1>3, <1>4 DEF Prefix, OffGo
        <4>2. ~OffGo(go, th)
          BY <1>3, <1>4 DEF OffGo
        <4>3. \A u \in Threads, j \in 1..MaxDepth : thread[u].frameExt[j] # th
          BY <4>2, <1>2, <1>3 DEF Good, Awaits
        <4> QED
          BY <4>1, <4>3, <1>3, <1>10 DEF Fresh
      <3>2. \A i \in 1..MaxDepth : y.frameExt[i] \in Threads =>
              y.frameExt[i] = s.frameExt[i] \/ y.frameExt[i] = th
        <4> SUFFICES ASSUME NEW i \in 1..MaxDepth, y.frameExt[i] \in Threads
                     PROVE  y.frameExt[i] = s.frameExt[i] \/ y.frameExt[i] = th
          OBVIOUS
        <4> HIDE DEF s
        <4>1. i <= Depth(y)
          BY <2>2, <2>5, ThreadAssumption
        <4>2. CASE i = Depth(y)
          BY <4>2, <2>5
        <4>3. CASE i # Depth(y)
          <5>1. i \in 1..Depth(y) /\ i < Depth(y) /\ i # Depth(s)
            BY <4>1, <4>3, <2>2, <2>3, <2>5
          <5> QED
            BY <5>1, <2>3, <2>5
        <4> QED
          BY <4>2, <4>3
      <3> QED
        BY <3>1, <3>2 DEF Carries
    <2> HIDE DEF h, s
    <2>9. t = TopGo(h).t /\ Alike(h, h) /\ "none" # "return"
      BY <1>3, <1>4, AlikeSelf
    <2> HIDE DEF t
    <2>10. Top([thread EXCEPT ![t] = y], h, "return")
      <3>1. [thread EXCEPT ![t] = y][t] = y
        BY <1>3, <1>4
      <3> QED
        BY <3>1, <2>2, <2>5, <2>6, <2>9, <1>4 DEF Top
    <2>11. Good([thread EXCEPT ![t] = y], thread[t].Parent, h, "return")
      BY <2>5, <2>6, <2>7, <2>8, <2>9, <2>10, <1>4, <1>7, <1>10, Leave DEF s
    <2> QED
      BY <2>1, <2>11 DEF IInv, s
  <1> QED
    BY <1>9, <1>10

-----------------------------------------------------------------------------
(* Threads off the Go stack: creation and the host.                        *)

\* While a loop runs, every thread on the Go stack has a frame.
LEMMA EmptyIsOff ==
    ASSUME NEW ts, NEW cur, NEW g, Good(ts, cur, g, "none"), NEW th \in Threads,
           Depth(ts[th]) = 0
    PROVE  OffGo(g, th)
  <1> DEFINE n == Len(g)
  <1>1. Shape(g) /\ g \in Seq(Activations) /\ Held(ts, g) /\ Top(ts, g, "none") /\ n \in Nat
    BY DEF Good, Shape
  <1> HIDE DEF n
  <1> SUFFICES ASSUME NEW j \in 1..n, g[j].t = th PROVE FALSE
    BY DEF OffGo, n
  <1>2. ASSUME NEW a, NEW b, Holds(a, b, ts[th]), b.k \in {"meta", "pcall", "resume"}
        PROVE  FALSE
    BY <1>2 DEF Holds, Poised
  <1>3. CASE j = n
    <2>1. TopGo(g) = g[n] /\ g # <<>>
      BY <1>1, <1>3 DEF TopGo, n
    <2> QED
      BY <2>1, <1>1, <1>3 DEF Top, Poised
  <1>4. CASE j # n
    <2> DEFINE b == g[j + 1]
    <2>1. j + 1 \in 1..n /\ j + 1 > 1 /\ (j + 1) - 1 = j
      BY <1>1, <1>4
    <2>2. Joined(g[j], b) /\ Holds(g[j], b, ts[b.t]) /\ b \in Activations
      BY <2>1, <1>1 DEF Shape, Stepwise, Held, n
    <2>3. b.k \in {"run", "meta", "pcall", "call", "resume"} /\ b.k # "call"
      BY <2>2, ActivationIs DEF Joined
    <2>4. CASE b.k # "run"
      <3>1. b.t = th
        BY <2>2, <2>4 DEF Joined
      <3> QED
        BY <3>1, <2>2, <2>3, <2>4, <1>2
    <2>5. CASE b.k = "run"
      <3>1. g[j].k = "resume"
        BY <2>2, <2>5 DEF Joined
      <3>2. j # 1
        <4>1. g # <<>>
          BY <1>1 DEF n
        <4> QED
          BY <4>1, <3>1, <1>1 DEF Shape, Ends
      <3>3. j > 1
        BY <3>2, <1>1
      <3>4. Holds(g[j - 1], g[j], ts[th])
        BY <3>3, <1>1 DEF Held, n
      <3> QED
        BY <3>1, <3>4, <1>2
    <2> QED
      BY <2>4, <2>5
  <1> QED
    BY <1>3, <1>4

\* A thread that no activation works for gets another state.
LEMMA Offstage ==
    ASSUME NEW ts, NEW cur, NEW g, NEW sg, Good(ts, cur, g, sg), NEW th \in Threads, th # Main,
           OffGo(g, th), \A u \in Threads, i \in 1..MaxDepth : ts[u].frameExt[i] # th,
           NEW s2, WF(s2), Begun(th, s2), ts[th].Dead => s2.Dead,
           \A i \in 1..MaxDepth : s2.frameExt[i] \notin Threads,
           ~s2.Dead => s2.stack[Depth(s2)].fn # "pcall"
    PROVE  Good([ts EXCEPT ![th] = s2], cur, g, sg)
  <1> DEFINE tt == [ts EXCEPT ![th] = s2]
  <1>1. /\ ts \in [Threads -> LStates] /\ Shape(g) /\ g \in Seq(Activations) /\ Held(ts, g)
        /\ Parents(ts, g, sg) /\ Top(ts, g, sg) /\ Current(ts, cur, g, sg) /\ Rested(ts, g)
        /\ Awaits(ts, g) /\ sg \in {"none", "return", "panic"} /\ \A u \in Threads : WF(ts[u])
    BY DEF Good, Shape
  <1>2. s2 \in LStates
    BY DEF WF
  <1>3. tt \in [Threads -> LStates] /\ tt[th] = s2 /\ \A u \in Threads : u # th => tt[u] = ts[u]
    BY <1>1, <1>2
  <1>4. \A u \in Threads : WF(tt[u])
    BY <1>1, <1>3
  <1>5. \A j \in 1..Len(g) : g[j].t \in Threads /\ g[j].t # th
    BY <1>1, ActivationIs DEF OffGo
  <1>6. \A j \in 1..Len(g) : tt[g[j].t] = ts[g[j].t]
    BY <1>3, <1>5
  <1>7. g # <<>> => tt[TopGo(g).t] = ts[TopGo(g).t]
    BY <1>1, <1>6, TopIs
  <1> HIDE DEF tt
  <1>8. Held(tt, g)
    BY <1>1, <1>6 DEF Held
  <1>9. Parents(tt, g, sg)
    BY <1>1, <1>6 DEF Parents
  <1>10. Top(tt, g, sg)
    BY <1>1, <1>7 DEF Top
  <1>11. Current(tt, cur, g, sg)
    <2>1. Zombie(ts, cur) => Zombie(tt, cur)
      BY <1>1, <1>3 DEF Zombie, Current
    <2> QED
      BY <2>1, <1>1, <1>7 DEF Current
  <1>12. Rested(tt, g)
    <2>1. Main \in Threads
      BY DEF Threads
    <2>2. \A u \in Threads : OffGo(g, u) /\ ~tt[u].Dead /\ Depth(tt[u]) > 0 =>
            /\ u # Main
            /\ tt[u].stack[Depth(tt[u])].fn = "pcall" => tt[u].frameExt[Depth(tt[u])] = "pcall"
      <3> SUFFICES ASSUME NEW u \in Threads, OffGo(g, u), ~tt[u].Dead, Depth(tt[u]) > 0
                   PROVE  /\ u # Main
                          /\ tt[u].stack[Depth(tt[u])].fn = "pcall" =>
                               tt[u].frameExt[Depth(tt[u])] = "pcall"
        OBVIOUS
      <3>1. CASE u = th
        BY <3>1, <1>3
      <3>2. CASE u # th
        BY <3>2, <1>1, <1>3 DEF Rested
      <3> QED
        BY <3>1, <3>2
    <2>3. \A u \in Threads \ LuaThreads : ~tt[u].Dead /\ Depth(tt[u]) > 0 => tt[u].started
      <3> SUFFICES ASSUME NEW u \in Threads \ LuaThreads, ~tt[u].Dead, Depth(tt[u]) > 0
                   PROVE  tt[u].started
        OBVIOUS
      <3>1. CASE u = th
        BY <3>1, <1>3 DEF Begun
      <3>2. CASE u # th
        BY <3>2, <1>1, <1>3 DEF Rested
      <3> QED
        BY <3>1, <3>2
    <2>4. tt[Main].Parent = NoThread /\ ~tt[Main].Dead /\ tt[Main].yieldState = "none"
      BY <2>1, <1>1, <1>3 DEF Rested
    <2> QED
      BY <2>2, <2>3, <2>4 DEF Rested
  <1>13. Awaits(tt, g)
    <2>1. \A u \in Threads, i \in 1..MaxDepth : tt[u].frameExt[i] \in Threads =>
            tt[u].frameExt[i] = ts[u].frameExt[i] /\ tt[u].frameExt[i] # th
      BY <1>3
    <2> SUFFICES ASSUME NEW t \in Threads, NEW i \in 1..MaxDepth, tt[t].frameExt[i] \in Threads
                 PROVE  LET c == tt[t].frameExt[i] IN
                        /\ c # Main /\ tt[c].yieldState = "system" /\ OffGo(g, c)
                        /\ \A u \in Threads, j \in 1..MaxDepth : tt[u].frameExt[j] = c => u = t /\ j = i
      BY DEF Awaits
    <2> DEFINE c == tt[t].frameExt[i]
    <2>2. c = ts[t].frameExt[i] /\ c \in Threads /\ c # th
      BY <2>1
    <2> HIDE DEF c
    <2>3. /\ c # Main /\ ts[c].yieldState = "system" /\ OffGo(g, c)
          /\ \A u \in Threads, j \in 1..MaxDepth : ts[u].frameExt[j] = c => u = t /\ j = i
      BY <2>2, <1>1 DEF Awaits
    <2>4. \A u \in Threads, j \in 1..MaxDepth : tt[u].frameExt[j] = c => ts[u].frameExt[j] = c
      BY <2>1, <2>2
    <2> QED
      BY <2>2, <2>3, <2>4, <1>3 DEF c
  <1> QED
    BY <1>1, <1>3, <1>4, <1>8, <1>9, <1>10, <1>11, <1>12, <1>13 DEF Good, tt

\* A thread with no frame, or that no coResume keeps, is not awaited.
LEMMA NotAwaited ==
    ASSUME NEW ts, NEW cur, NEW g, NEW sg, Good(ts, cur, g, sg), NEW th \in Threads,
           ts[th].Dead \/ Depth(ts[th]) = 0
    PROVE  \A u \in Threads, i \in 1..MaxDepth : ts[u].frameExt[i] # th
  <1>1. WF(ts[th]) /\ Awaits(ts, g)
    BY DEF Good
  <1>2. ts[th].yieldState # "system"
    BY <1>1 DEF WF, Suspended, Buried
  <1> QED
    BY <1>1, <1>2 DEF Awaits

\* A new thread with its function's frame is well formed.
LEMMA NewStateIs ==
    ASSUME NEW fn \in {"lua", "goyield"}, NEW w \in BOOLEAN, w => "wrap" \in Uses
    PROVE  LET c == [pushFrame(newLState, fn) EXCEPT !.wrapped = w] IN
           /\ WF(newLState) /\ newLState \in LStates
           /\ WF(c) /\ Depth(c) = 1 /\ c.stack[1].fn = fn /\ ~c.Dead
           /\ \A i \in 1..MaxDepth : c.frameExt[i] = "none"
  <1> DEFINE z == newLState
             p == pushFrame(z, fn)
             c == [p EXCEPT !.wrapped = w]
  <1>1. MaxDepth \in Nat /\ MaxDepth > 0
    BY DepthAssumption
  <1>2. /\ z \in LStates /\ z.stack = <<>> /\ (\A i \in 1..MaxDepth : z.frameExt[i] = "none")
        /\ z.yieldCont = 0 /\ z.yieldState = "none" /\ z.Parent = NoThread /\ ~z.Dead
        /\ ~z.wrapped /\ ~z.started
    BY <1>1 DEF newLState, LStates, Continuations
  <1> HIDE DEF z
  <1>3. Depth(z) = 0 /\ \A i \in 1..Depth(z) : FALSE
    BY <1>2 DEF Depth
  <1>4. Stacked(z) /\ Slotted(z) /\ Extended(z) /\ Suspended(z) /\ Buried(z)
    BY <1>2, <1>3 DEF Stacked, Slotted, Extended, Suspended, Buried
  <1>5. WF(z)
    BY <1>1, <1>2, <1>3, <1>4 DEF WF
  <1>6. fn \in Fns /\ fn # "pcall" /\ Depth(z) < MaxDepth /\ ~(Depth(z) > 0)
    BY <1>1, <1>3 DEF Fns
  <1>7. WF(p)
    BY <1>2, <1>5, <1>6, WFPush
  <1>8. p \in LStates /\ Depth(p) = Depth(z) + 1 /\ p.stack[Depth(z) + 1] = Frame(fn)
        /\ p.frameExt = z.frameExt /\ p.started = z.started /\ SameRest(z, p)
    BY <1>2, <1>6, PushIs
  <1> HIDE DEF p
  <1>9. /\ c \in LStates /\ c.stack = p.stack /\ c.frameExt = p.frameExt
        /\ c.yieldCont = p.yieldCont /\ c.yieldContRB = p.yieldContRB /\ c.Dead = p.Dead
        /\ c.yieldState = p.yieldState /\ c.started = p.started /\ (c.wrapped <=> w)
    BY <1>8 DEF LStates
  <1> HIDE DEF c
  <1>10. Depth(p) = 1 /\ Depth(c) = 1 /\ p.stack[1] = Frame(fn)
    BY <1>3, <1>8, <1>9 DEF Depth
  <1>11. p.yieldState = "none" /\ ~p.Dead /\ ~p.started
    BY <1>2, <1>8 DEF SameRest
  <1>12. Suspended(c)
    BY <1>9, <1>11 DEF Suspended
  <1>13. WF(c)
    BY <1>7, <1>9, <1>11, <1>12, WFRelink
  <1>14. c.stack[1].fn = fn
    BY <1>9, <1>10 DEF Frame
  <1> QED
    BY <1>2, <1>5, <1>8, <1>9, <1>10, <1>11, <1>13, <1>14 DEF c, p, z

\* coroutine.create and wrap keep the invariant.
LEMMA CoCreateGood ==
    ASSUME IInv, NEW t \in Threads, NEW th \in LuaThreads, NEW fn \in {"lua", "goyield"},
           NEW w \in BOOLEAN, coCreate(t, th, fn, w)
    PROVE  IInv'
  <1> DEFINE c == [pushFrame(newLState, fn) EXCEPT !.wrapped = w]
  <1>1. /\ sig = "none" /\ ~Known(th) /\ (w => "wrap" \in Uses)
        /\ thread' = [thread EXCEPT ![th] = c]
        /\ CurrentThread' = CurrentThread /\ go' = go /\ sig' = sig
    BY DEF coCreate, AtOpcode, Executing
  <1>2. th \in Threads /\ th # Main
    BY ThreadAssumption DEF Threads
  <1>3. Good(thread, CurrentThread, go, "none")
    BY <1>1 DEF IInv
  <1>4. ~thread[th].Dead /\ Depth(thread[th]) = 0
    <2>1. WF(thread[th])
      BY <1>2, <1>3 DEF Good
    <2>2. Depth(thread[th]) \in Nat
      BY <2>1, WFIs
    <2> QED
      BY <2>2, <1>1, <1>2 DEF Known
  <1>5. OffGo(go, th) /\ \A u \in Threads, i \in 1..MaxDepth : thread[u].frameExt[i] # th
    BY <1>2, <1>3, <1>4, EmptyIsOff, NotAwaited
  <1>6. WF(c) /\ Depth(c) = 1 /\ c.stack[1].fn = fn /\ \A i \in 1..MaxDepth : c.frameExt[i] = "none"
    BY <1>1, NewStateIs
  <1> HIDE DEF c
  <1>7. Begun(th, c) /\ (\A i \in 1..MaxDepth : c.frameExt[i] \notin Threads)
        /\ c.stack[Depth(c)].fn # "pcall"
    BY <1>6, ThreadAssumption DEF Begun
  <1>8. Good([thread EXCEPT ![th] = c], CurrentThread, go, "none")
    BY <1>2, <1>3, <1>4, <1>5, <1>6, <1>7, Offstage
  <1> QED
    BY <1>1, <1>8 DEF IInv

\* The host starts an activation on an empty Go stack.
LEMMA Starts ==
    ASSUME NEW ts, NEW cur, Good(ts, cur, <<>>, "none"), NEW t \in Threads,
           NEW b \in Activations, b.t = t,
           \/ b.k = "call" /\ b.at = 0 /\ t = Main
           \/ b.k = "run" /\ t # Main,
           NEW s2, WF(s2), Poised(b, s2), s2.started, ~s2.Dead, s2.yieldState = "none",
           s2.Parent = IF t = Main THEN NoThread ELSE Main,
           s2.frameExt = ts[t].frameExt,
           \A u \in Threads, i \in 1..MaxDepth : ts[u].frameExt[i] # t,
           NEW cur2 \in Threads, cur2 = t \/ Zombie([ts EXCEPT ![t] = s2], cur2)
    PROVE  Good([ts EXCEPT ![t] = s2], cur2, <<b>>, "none")
  <1> DEFINE tt == [ts EXCEPT ![t] = s2]
             h == <<b>>
  <1>1. /\ ts \in [Threads -> LStates] /\ Awaits(ts, <<>>) /\ Rested(ts, <<>>)
        /\ \A u \in Threads : WF(ts[u])
    BY DEF Good
  <1>2. s2 \in LStates
    BY DEF WF
  <1>3. tt \in [Threads -> LStates] /\ tt[t] = s2 /\ \A u \in Threads : u # t => tt[u] = ts[u]
    BY <1>1, <1>2
  <1>4. \A u \in Threads : WF(tt[u])
    BY <1>1, <1>3
  <1>5. h \in Seq(Activations) /\ Len(h) = 1 /\ h[1] = b /\ h # <<>> /\ TopGo(h) = b
        /\ 1 \in 1..Len(h) /\ \A j \in 1..Len(h) : j = 1
    BY DEF TopGo
  <1>6. \A c : OffGo(h, c) <=> c # t
    BY <1>5 DEF OffGo
  <1>7. \A c : OffGo(<<>>, c)
    BY DEF OffGo
  <1>8. Main \in Threads
    BY DEF Threads
  <1> HIDE DEF tt, h
  <1>9. Shape(h)
    <2>1. Ends(h)
      BY <1>5 DEF Ends
    <2>2. Stepwise(h)
      BY <1>5 DEF Stepwise
    <2>3. Owned(h)
      BY <1>5 DEF Owned
    <2>4. Apart(h)
      BY <1>5 DEF Apart
    <2>5. Rooted(h)
      BY <1>5 DEF Rooted
    <2> QED
      BY <2>1, <2>2, <2>3, <2>4, <2>5, <1>5 DEF Shape
  <1>10. Held(tt, h)
    BY <1>5 DEF Held
  <1>11. Parents(tt, h, "none")
    BY <1>3, <1>5 DEF Parents, Resumer
  <1>12. Top(tt, h, "none")
    BY <1>3, <1>5 DEF Top
  <1>13. Current(tt, cur2, h, "none")
    BY <1>5 DEF Current, tt
  <1>14. Rested(tt, h)
    <2>1. \A u \in Threads : OffGo(h, u) /\ ~tt[u].Dead /\ Depth(tt[u]) > 0 =>
            /\ u # Main
            /\ tt[u].stack[Depth(tt[u])].fn = "pcall" => tt[u].frameExt[Depth(tt[u])] = "pcall"
      BY <1>1, <1>3, <1>6, <1>7 DEF Rested
    <2>2. tt[Main].Parent = NoThread /\ ~tt[Main].Dead /\ tt[Main].yieldState = "none"
      BY <1>1, <1>3, <1>8 DEF Rested
    <2>3. \A u \in Threads \ LuaThreads : ~tt[u].Dead /\ Depth(tt[u]) > 0 => tt[u].started
      BY <1>1, <1>3 DEF Rested
    <2> QED
      BY <2>1, <2>2, <2>3 DEF Rested
  <1>15. Awaits(tt, h)
    <2>1. \A u \in Threads : tt[u].frameExt = ts[u].frameExt
      BY <1>3
    <2> SUFFICES ASSUME NEW v \in Threads, NEW i \in 1..MaxDepth, tt[v].frameExt[i] \in Threads
                 PROVE  LET c == tt[v].frameExt[i] IN
                        /\ c # Main /\ tt[c].yieldState = "system" /\ OffGo(h, c)
                        /\ \A u \in Threads, j \in 1..MaxDepth : tt[u].frameExt[j] = c => u = v /\ j = i
      BY DEF Awaits
    <2> DEFINE c == tt[v].frameExt[i]
    <2>2. c = ts[v].frameExt[i] /\ c \in Threads /\ c # t
      BY <2>1
    <2> HIDE DEF c
    <2>3. /\ c # Main /\ ts[c].yieldState = "system"
          /\ \A u \in Threads, j \in 1..MaxDepth : ts[u].frameExt[j] = c => u = v /\ j = i
      BY <2>2, <1>1 DEF Awaits
    <2> QED
      BY <2>1, <2>2, <2>3, <1>3, <1>6 DEF c
  <1> QED
    BY <1>3, <1>4, <1>9, <1>10, <1>11, <1>12, <1>13, <1>14, <1>15 DEF Good, tt, h

\* The host's PCall keeps the invariant.
LEMMA HostPCallGood ==
    ASSUME IInv, hostPCall
    PROVE  IInv'
  <1> DEFINE z == thread[Main]
             y == [z EXCEPT !.started = TRUE]
             s == pushFrame(y, "lua")
             q == pushFrame(z, "lua")
             b == Activation("call", Main, 0)
  <1>1. /\ go = <<>> /\ thread' = [thread EXCEPT ![Main] = s] /\ go' = <<b>>
        /\ CurrentThread' = CurrentThread /\ sig' = sig
    BY DEF hostPCall, Idle
  <1>2. Main \in Threads /\ "lua" \in Fns /\ "lua" # "pcall" /\ 0 \in 0..MaxDepth
        /\ MaxDepth \in Nat /\ MaxDepth > 0
    BY DepthAssumption DEF Threads, Fns
  <1>3. Good(thread, CurrentThread, <<>>, "none") /\ sig = "none"
    BY <1>1 DEF IInv, Good, Top
  <1>4. /\ thread \in [Threads -> LStates] /\ WF(z) /\ Rested(thread, <<>>)
        /\ CurrentThread \in Threads /\ (CurrentThread = Main \/ Zombie(thread, CurrentThread))
    BY <1>2, <1>3 DEF Good, Current
  <1>5. z \in LStates /\ Depth(z) \in Nat
    BY <1>4, WFIs
  <1>6. ~z.Dead /\ z.yieldState = "none" /\ z.Parent = NoThread /\ Depth(z) = 0
    <2>1. OffGo(<<>>, Main)
      BY DEF OffGo
    <2> QED
      BY <2>1, <1>2, <1>4, <1>5 DEF Rested
  <1>7. WF(q)
    <2>1. Depth(z) < MaxDepth /\ ~(Depth(z) > 0)
      BY <1>2, <1>6
    <2> QED
      BY <2>1, <1>2, <1>4, <1>6, WFPush
  <1>8. q \in LStates /\ Depth(q) = Depth(z) + 1 /\ q.stack[Depth(z) + 1] = Frame("lua")
        /\ q.frameExt = z.frameExt /\ SameRest(z, q)
    BY <1>2, <1>5, PushIs
  <1>9. s = [q EXCEPT !.started = TRUE]
    BY <1>5 DEF pushFrame, LStates
  <1> HIDE DEF q
  <1>10. Depth(q) = 1 /\ q.stack[1].fn = "lua" /\ ~q.Dead /\ q.yieldState = "none"
         /\ q.Parent = NoThread
    BY <1>6, <1>8 DEF SameRest, Frame
  <1>11. /\ s \in LStates /\ s.stack = q.stack /\ s.frameExt = q.frameExt
         /\ s.yieldCont = q.yieldCont /\ s.yieldContRB = q.yieldContRB /\ s.Dead = q.Dead
         /\ s.wrapped = q.wrapped /\ s.yieldState = q.yieldState /\ s.Parent = q.Parent
         /\ s.started
    BY <1>8, <1>9 DEF LStates
  <1> HIDE DEF s, z
  <1>12. WF(s)
    <2>1. Suspended(s) /\ (s.wrapped => "wrap" \in Uses) /\ Depth(q) > 0
      BY <1>7, <1>10, <1>11 DEF Suspended, WF
    <2> QED
      BY <2>1, <1>7, <1>10, <1>11, WFRelink
  <1>13. Depth(s) = 1 /\ s.stack[1].fn = "lua"
    BY <1>10, <1>11 DEF Depth
  <1>14. b \in Activations /\ b.k = "call" /\ b.t = Main /\ b.at = 0 /\ b.ph = "enter"
         /\ baseframe(b) = 1
    BY <1>2, NewActivation
  <1> HIDE DEF b
  <1>15. Poised(b, s)
    BY <1>13, <1>14 DEF Poised
  <1>16. \A u \in Threads, i \in 1..MaxDepth : thread[u].frameExt[i] # Main
    BY <1>2, <1>3, <1>6, NotAwaited DEF z
  <1>17. CurrentThread = Main \/ Zombie([thread EXCEPT ![Main] = s], CurrentThread)
    BY <1>2, <1>4 DEF Zombie
  <1>18. Good([thread EXCEPT ![Main] = s], CurrentThread, <<b>>, "none")
    <2>1. s.frameExt = thread[Main].frameExt /\ s.Parent = NoThread /\ ~s.Dead
          /\ s.yieldState = "none"
      BY <1>8, <1>10, <1>11 DEF z
    <2> QED
      BY <2>1, <1>2, <1>3, <1>4, <1>11, <1>12, <1>14, <1>15, <1>16, <1>17, Starts
  <1> QED
    BY <1>1, <1>3, <1>18 DEF IInv

\* The end of the host's PCall keeps the invariant.
LEMMA HostPCallReturnsGood ==
    ASSUME IInv, go # <<>>, hostPCallReturns
    PROVE  IInv'
  <1> DEFINE z == thread[Main]
             u == unwindCallFrames(z, 0)
             tt == [thread EXCEPT ![Main] = u]
  <1>1. /\ TopGo(go).k = "call" /\ thread' = tt /\ go' = <<>> /\ sig' = "none"
        /\ CurrentThread' = CurrentThread
    BY DEF hostPCallReturns
  <1>2. Shape(go) /\ go \in Seq(Activations) /\ Main \in Threads
        /\ thread \in [Threads -> LStates] /\ Rested(thread, go) /\ CurrentThread \in Threads
        /\ Good(thread, CurrentThread, go, sig)
    BY DEF IInv, Good, Shape, Current, Threads
  <1>3. Len(go) \in Nat /\ Len(go) > 0 /\ Len(go) \in 1..Len(go) /\ TopGo(go) = go[Len(go)]
    BY <1>2, TopIs
  <1>4. Len(go) = 1
    <2>1. ~(Len(go) > 1)
      BY <1>1, <1>2, <1>3 DEF Shape, Stepwise, Joined
    <2> DEFINE n == Len(go)
    <2>2. n \in Nat /\ n > 0 /\ ~(n > 1)
      BY <2>1, <1>3
    <2> HIDE DEF n
    <2>3. n = 1
      BY <2>2
    <2> QED
      BY <2>3 DEF n
  <1>5. go[1].t = Main /\ TopGo(go).t = Main
    BY <1>1, <1>2, <1>3, <1>4 DEF Shape, Owned
  <1>6. WF(z) /\ ~z.Dead /\ z.yieldState = "none" /\ z.Parent = NoThread
    BY <1>2 DEF Good, Rested
  <1>7. z \in LStates /\ 0 \in Nat /\ 0 <= Depth(z)
    BY <1>6, WFIs
  <1>8. WF(u)
    BY <1>6, <1>7, WFUnwind
  <1>9. Depth(u) = 0 /\ u.Parent = NoThread /\ ~u.Dead /\ u.yieldState = "none"
    <2> HIDE DEF z
    <2> QED
      BY <1>6, <1>7, UnwindIs
  <1> HIDE DEF u, z
  <1>10. CurrentThread = Main \/ Zombie(tt, CurrentThread)
    <2>1. ~Gone(z)
      BY <1>6 DEF Gone
    <2>2. CurrentThread = Main \/ Zombie(thread, CurrentThread)
      BY <2>1, <1>2, <1>5 DEF Good, Current, z
    <2> QED
      BY <2>2, <1>2 DEF Zombie
  <1>11. Begun(Main, u)
    BY <1>9 DEF Begun
  <1>12. Good(tt, CurrentThread, <<>>, "none")
    BY <1>2, <1>4, <1>5, <1>8, <1>9, <1>10, <1>11, Empties
  <1> QED
    BY <1>1, <1>12 DEF IInv

\* The end of the host's Resume keeps the invariant.
LEMMA HostResumeReturnsGood ==
    ASSUME IInv, go # <<>>, hostResumeReturns
    PROVE  IInv'
  <1> DEFINE th == TopGo(go).t
             s == thread[th]
  <1>1. sig = "return" /\ TopGo(go).k = "run" /\ Len(go) = 1 /\ go' = <<>> /\ sig' = "none"
    BY DEF hostResumeReturns
  <1>2. /\ go \in Seq(Activations) /\ Shape(go) /\ thread \in [Threads -> LStates]
        /\ Good(thread, CurrentThread, go, "return") /\ Top(thread, go, "return")
        /\ Current(thread, CurrentThread, go, "return") /\ CurrentThread \in Threads
    BY <1>1 DEF IInv, Good, Shape, Current
  <1>3. th = go[1].t /\ th \in Threads /\ 1 \in 1..Len(go) /\ TopGo(go) = go[1]
    BY <1>1, <1>2, PopSole, TopIs
  <1>4. WF(s) /\ Gone(s) /\ th # Main
    BY <1>1, <1>2, <1>3 DEF Good, Top, Shape, Owned
  <1>5. CurrentThread = Main
    BY <1>1, <1>2, <1>3, <1>4 DEF Current, Resumer
  <1>6. ~(s.yieldState # "none" /\ Depth(s) = 0)
    BY <1>4 DEF WF, Suspended
  <1>7. thread' = thread /\ CurrentThread' = CurrentThread
    BY <1>6 DEF hostResumeReturns
  <1>8. [thread EXCEPT ![th] = s] = thread /\ Left(s, s) /\ Begun(th, s)
    BY <1>2, <1>3, <1>4, BegunIs DEF Left
  <1> HIDE DEF th
  <1>9. Good([thread EXCEPT ![th] = thread[th]], CurrentThread, <<>>, "none")
    BY <1>1, <1>2, <1>3, <1>4, <1>5, <1>8, Empties
  <1> QED
    BY <1>1, <1>7, <1>8, <1>9 DEF IInv

\* The frame Resume pushes on a dead thread it is about to refuse.
LEMMA WFDeadPush ==
    ASSUME NEW s, WF(s), s.Dead, ~s.started, NEW fn \in Fns, Depth(pushFrame(s, fn)) <= MaxDepth
    PROVE  LET p == pushFrame(s, fn) IN
           WF(p) /\ p.Dead /\ \A i \in 1..MaxDepth : p.frameExt[i] = "none"
  <1> DEFINE p == pushFrame(s, fn)
  <1>1. s \in LStates /\ Buried(s) /\ (s.wrapped => "wrap" \in Uses)
    BY DEF WF
  <1>2. /\ p \in LStates /\ p.frameExt = s.frameExt /\ p.started = s.started /\ SameRest(s, p)
    BY <1>1, PushIs
  <1> HIDE DEF p
  <1>3. /\ p.Dead /\ p.yieldState = "none" /\ p.yieldCont = 0 /\ ~p.started
        /\ (p.wrapped => "wrap" \in Uses) /\ \A i \in 1..MaxDepth : p.frameExt[i] = "none"
    BY <1>1, <1>2 DEF SameRest, Buried
  <1>4. Suspended(p) /\ Buried(p)
    BY <1>3 DEF Suspended, Buried
  <1>5. WF(p)
    BY <1>2, <1>3, <1>4 DEF WF, p
  <1> QED
    BY <1>3, <1>5 DEF p

\* What the host finds when it resumes a live thread.
LEMMA EnteredIs ==
    ASSUME Admitted, IInv, go = <<>>, NEW th \in HostThreads, NEW fn \in {"lua", "goyield"},
           MayResume(th), ~thread[th].Dead
    PROVE  LET e == entered(th, fn) IN
           /\ WF(e) /\ ~e.Dead /\ Depth(e) > 0 /\ e.frameExt = thread[th].frameExt
           /\ e.stack[Depth(e)].fn = "pcall" => e.frameExt[Depth(e)] = "pcall"
           /\ \A u \in Threads, i \in 1..MaxDepth : thread[u].frameExt[i] # th
  <1> DEFINE s == thread[th]
             e == entered(th, fn)
             p == pushFrame(s, fn)
  <1>1. th \in Threads /\ th \notin LuaThreads /\ fn \in Fns /\ fn # "pcall"
    BY ThreadAssumption DEF Threads, Fns
  <1>2. WF(s) /\ Rested(thread, go) /\ OffGo(go, th)
    BY <1>1 DEF IInv, Good, OffGo
  <1>3. \A u \in Threads, i \in 1..MaxDepth : thread[u].frameExt[i] # th
    BY DEF Admitted, MayResume, Awaited
  <1>4. s \in LStates /\ Depth(s) \in Nat /\ MaxDepth \in Nat /\ MaxDepth > 0
    BY <1>2, WFIs, DepthAssumption
  <1>5. CASE s.started
    <2>1. e = s /\ Depth(s) > 0
      BY <1>2, <1>5 DEF entered, WF
    <2> QED
      BY <2>1, <1>1, <1>2, <1>3 DEF Rested
  <1>6. CASE ~s.started
    <2>1. e = p
      BY <1>6 DEF entered
    <2>2. Depth(s) = 0
      BY <1>1, <1>2, <1>4, <1>6 DEF Rested
    <2>3. s.yieldState = "none" /\ Depth(s) < MaxDepth /\ ~(Depth(s) > 0)
      BY <2>2, <1>2, <1>4 DEF WF, Suspended
    <2>4. WF(p)
      BY <2>3, <1>1, <1>2, WFPush
    <2>5. Depth(p) = Depth(s) + 1 /\ p.stack[Depth(s) + 1] = Frame(fn)
          /\ p.frameExt = s.frameExt /\ SameRest(s, p)
      BY <1>1, <1>4, PushIs
    <2> HIDE DEF p
    <2>6. Depth(p) = 1 /\ p.stack[Depth(p)].fn # "pcall" /\ ~p.Dead
      BY <2>2, <2>5, <1>1 DEF Frame, SameRest
    <2> QED
      BY <2>1, <2>4, <2>5, <2>6, <1>3
  <1> QED
    BY <1>5, <1>6

\* The host's Resume keeps the invariant.
LEMMA HostResumeGood ==
    ASSUME Admitted, IInv, NEW th \in HostThreads, NEW fn \in {"lua", "goyield"},
           hostResume(th, fn)
    PROVE  IInv'
  <1> DEFINE s == thread[th]
             e == entered(th, fn)
             b == Activation("run", th, 0)
             x == Resumed(e, Main)
  <1>1. go = <<>> /\ MayResume(th) /\ Depth(e) <= MaxDepth
    BY DEF hostResume, Idle
  <1>2. th \in Threads /\ th # Main /\ fn \in Fns /\ Main \in Threads
    BY ThreadAssumption DEF Threads, Fns
  <1>3. /\ Good(thread, CurrentThread, <<>>, "none") /\ sig = "none" /\ WF(s)
        /\ thread \in [Threads -> LStates] /\ OffGo(<<>>, th)
        /\ (CurrentThread = Main \/ Zombie(thread, CurrentThread))
    BY <1>1, <1>2 DEF IInv, Good, Top, Current, OffGo
  <1>4. CASE CurrentThread = th \/ s.Dead
    <2>1. /\ thread' = [thread EXCEPT ![th] = e] /\ go' = go /\ sig' = sig
          /\ CurrentThread' = CurrentThread
      BY <1>4 DEF hostResume
    <2>2. s.Dead
      BY <1>2, <1>3, <1>4 DEF Zombie
    <2>3. WF(e) /\ e.Dead /\ \A i \in 1..MaxDepth : e.frameExt[i] = "none"
      <3>1. CASE s.started
        <4>1. e = s
          BY <3>1 DEF entered
        <4> QED
          BY <4>1, <2>2, <1>3 DEF WF, Buried
      <3>2. CASE ~s.started
        <4>1. e = pushFrame(s, fn)
          BY <3>2 DEF entered
        <4> QED
          BY <4>1, <3>2, <2>2, <1>1, <1>2, <1>3, WFDeadPush
      <3> QED
        BY <3>1, <3>2
    <2> HIDE DEF e
    <2>4. Begun(th, e) /\ \A i \in 1..MaxDepth : e.frameExt[i] \notin Threads
      BY <2>3, ThreadAssumption DEF Begun
    <2>5. \A u \in Threads, i \in 1..MaxDepth : thread[u].frameExt[i] # th
      BY <2>2, <1>2, <1>3, NotAwaited
    <2>6. Good([thread EXCEPT ![th] = e], CurrentThread, <<>>, "none")
      BY <2>3, <2>4, <2>5, <1>2, <1>3, Offstage
    <2> QED
      BY <2>1, <2>6, <1>1, <1>3 DEF IInv
  <1>5. CASE ~(CurrentThread = th \/ s.Dead)
    <2>1. /\ thread' = [thread EXCEPT ![th] = x] /\ go' = <<b>> /\ sig' = sig
          /\ CurrentThread' = th
      BY <1>5 DEF hostResume, Resumed
    <2>2. /\ WF(e) /\ ~e.Dead /\ Depth(e) > 0 /\ e.frameExt = s.frameExt
          /\ (e.stack[Depth(e)].fn = "pcall" => e.frameExt[Depth(e)] = "pcall")
          /\ \A u \in Threads, i \in 1..MaxDepth : thread[u].frameExt[i] # th
      BY <1>1, <1>5, EnteredIs
    <2> HIDE DEF e
    <2>3. /\ WF(x) /\ x.stack = e.stack /\ x.frameExt = e.frameExt /\ x.Parent = Main
          /\ x.yieldState = "none" /\ x.started /\ ~x.Dead /\ Depth(x) = Depth(e)
      BY <2>2, <1>2, ResumedIs
    <2> HIDE DEF x
    <2>4. b \in Activations /\ b.k = "run" /\ b.t = th /\ b.ph = "enter" /\ baseframe(b) = 0
      <3>1. 0 \in 0..MaxDepth
        BY DepthAssumption
      <3> QED
        BY <3>1, <1>2, NewActivation
    <2> HIDE DEF b
    <2>5. Poised(b, x)
      <3>1. Depth(x) \in Nat /\ Depth(x) > 0 /\ Depth(x) >= 0
        BY <2>2, <2>3, WFIs
      <3> QED
        BY <3>1, <2>2, <2>3, <2>4 DEF Poised
    <2>6. Good([thread EXCEPT ![th] = x], th, <<b>>, "none")
      BY <2>2, <2>3, <2>4, <2>5, <1>2, <1>3, Starts
    <2> QED
      BY <2>1, <2>6, <1>3 DEF IInv
  <1> QED
    BY <1>4, <1>5

\* A Resume under a cancelled context keeps the invariant.
LEMMA HostResumeCanceledGood ==
    ASSUME Admitted, IInv, NEW th \in HostThreads, NEW fn \in {"lua", "goyield"},
           hostResumeCanceled(th, fn)
    PROVE  IInv'
  <1> DEFINE e == entered(th, fn)
             x == [e EXCEPT !.Parent = NoThread, !.started = TRUE]
             k == kill(x)
             tt == [thread EXCEPT ![th] = k]
  <1>1. /\ go = <<>> /\ MayResume(th) /\ ~thread[th].Dead
        /\ thread' = tt /\ CurrentThread' = Main /\ go' = go /\ sig' = sig
    BY DEF hostResumeCanceled, Idle
  <1>2. th \in Threads /\ th # Main /\ Main \in Threads
    BY ThreadAssumption DEF Threads
  <1>3. Good(thread, CurrentThread, <<>>, "none") /\ sig = "none" /\ OffGo(<<>>, th)
    BY <1>1 DEF IInv, Good, Top, OffGo
  <1>4. /\ WF(e) /\ ~e.Dead /\ Depth(e) > 0
        /\ \A u \in Threads, i \in 1..MaxDepth : thread[u].frameExt[i] # th
    BY <1>1, EnteredIs
  <1> HIDE DEF e
  <1>5. e \in LStates
    BY <1>4, WFIs
  <1>6. /\ x \in LStates /\ x.stack = e.stack /\ x.frameExt = e.frameExt
        /\ x.yieldCont = e.yieldCont /\ x.yieldContRB = e.yieldContRB /\ x.Dead = e.Dead
        /\ x.wrapped = e.wrapped /\ x.yieldState = e.yieldState /\ x.Parent = NoThread
    BY <1>5 DEF LStates
  <1> HIDE DEF x
  <1>7. Suspended(x)
    <2>1. Depth(x) = Depth(e) /\ Last(x) = Last(e)
      BY <1>6 DEF Depth, Last
    <2>2. Suspended(e)
      BY <1>4 DEF WF
    <2> QED
      BY <2>1, <2>2, <1>6 DEF Suspended, LastIsG, HasContinuation
  <1>8. WF(x)
    <2>1. x.wrapped => "wrap" \in Uses
      BY <1>4, <1>6 DEF WF
    <2> QED
      BY <2>1, <1>4, <1>6, <1>7, WFRelink
  <1>9. WF(k) /\ k.Dead /\ \A i \in 1..MaxDepth : k.frameExt[i] = "none"
    BY <1>6, <1>8, WFKill, KillIs
  <1> HIDE DEF k
  <1>10. Begun(th, k) /\ \A i \in 1..MaxDepth : k.frameExt[i] \notin Threads
    BY <1>9, ThreadAssumption DEF Begun
  <1>11. Good(tt, CurrentThread, <<>>, "none")
    BY <1>2, <1>3, <1>4, <1>9, <1>10, Offstage
  <1> HIDE DEF tt
  <1>12. Current(tt, Main, <<>>, "none")
    BY <1>2 DEF Current
  <1>13. Good(tt, Main, <<>>, "none")
    BY <1>11, <1>12 DEF Good
  <1> QED
    BY <1>1, <1>3, <1>13 DEF IInv

-----------------------------------------------------------------------------
(* The invariant is inductive.                                             *)

\* The invariant holds before the host's first call.
LEMMA InitGood ==
    ASSUME Init
    PROVE  IInv
  <1>1. thread = [t \in Threads |-> newLState] /\ CurrentThread = Main /\ go = <<>> /\ sig = "none"
    BY DEF Init
  <1>2. WF(newLState) /\ newLState \in LStates
    <2>1. "lua" \in {"lua", "goyield"} /\ FALSE \in BOOLEAN
      OBVIOUS
    <2> QED
      BY <2>1, NewStateIs
  <1>3. /\ newLState.Parent = NoThread /\ ~newLState.Dead /\ newLState.yieldState = "none"
        /\ Depth(newLState) = 0 /\ \A i \in 1..MaxDepth : newLState.frameExt[i] = "none"
    BY DEF newLState, Depth
  <1> DEFINE z == newLState
             h == <<>>
  <1>4. h \in Seq(Activations) /\ Len(h) = 0 /\ \A j \in 1..Len(h) : FALSE
    OBVIOUS
  <1>5. thread \in [Threads -> LStates] /\ (\A t \in Threads : thread[t] = z) /\ Main \in Threads
    BY <1>1, <1>2 DEF Threads
  <1> HIDE DEF z, h
  <1>6. Shape(h)
    BY <1>4 DEF Shape, Ends, Stepwise, Owned, Apart, Rooted, h
  <1>7. Held(thread, h) /\ Parents(thread, h, "none") /\ Top(thread, h, "none")
        /\ Current(thread, Main, h, "none")
    BY <1>4, <1>5 DEF Held, Parents, Top, Current, h
  <1>8. Rested(thread, h) /\ Awaits(thread, h)
    BY <1>3, <1>5, ThreadAssumption DEF Rested, Awaits, z
  <1>9. \A t \in Threads : WF(thread[t])
    BY <1>2, <1>5 DEF z
  <1> QED
    BY <1>1, <1>5, <1>6, <1>7, <1>8, <1>9 DEF IInv, Good, h

\* Running a frame's continuation keeps the invariant.
LEMMA ContinuationGood ==
    ASSUME IInv, NEW t \in Threads, continuation(t)
    PROVE  IInv'
  BY ContinuationReturns, ContinuationResumes

\* Every opcode keeps the invariant.
LEMMA InterpretGood ==
    ASSUME Admitted, IInv, Interpret
    PROVE  IInv'
  <1>1. PICK t \in Threads :
          \/ \E fn \in Fns : OpCall(t, fn) \/ OpTailCall(t, fn)
          \/ \E fn \in {"lua", "goyield"} : OpMeta(t, fn)
          \/ handleYieldContinuation(t)
          \/ OpReturn(t)
          \/ Throw(t)
          \/ \E th \in LuaThreads, fn \in {"lua", "goyield"}, w \in BOOLEAN :
               coCreate(t, th, fn, w)
    BY DEF Interpret
  <1>2. CASE \E fn \in Fns : OpCall(t, fn) \/ OpTailCall(t, fn)
    BY <1>2, OpCallGood, OpTailCallGood
  <1>3. CASE \E fn \in {"lua", "goyield"} : OpMeta(t, fn)
    BY <1>3, OpMetaGood
  <1>4. CASE handleYieldContinuation(t)
    BY <1>4, HandleYieldContinuationGood
  <1>5. CASE OpReturn(t)
    BY <1>5, OpReturnGood
  <1>6. CASE Throw(t)
    BY <1>6, ThrowGood
  <1>7. CASE \E th \in LuaThreads, fn \in {"lua", "goyield"}, w \in BOOLEAN :
               coCreate(t, th, fn, w)
    BY <1>7, CoCreateGood
  <1> QED
    BY <1>1, <1>2, <1>3, <1>4, <1>5, <1>6, <1>7

\* Every Go function keeps the invariant.
LEMMA InvokeGoGood ==
    ASSUME Admitted, IInv, InvokeGo
    PROVE  IInv'
  <1>1. PICK t \in Threads :
          \/ pcallRefuses(t)
          \/ \E fn \in {"lua", "goyield", "pcall"} : basePCall(t, fn)
          \/ coYield(t) \/ systemYield(t)
          \/ CheckThread(t)
          \/ \E th \in Threads : coResume(t, th) \/ coResumeRefuses(t, th)
          \/ continuation(t)
    BY DEF InvokeGo
  <1>2. CASE pcallRefuses(t)
    BY <1>2, PcallRefusesGood
  <1>3. CASE \E fn \in {"lua", "goyield", "pcall"} : basePCall(t, fn)
    BY <1>3, BasePCallGood
  <1>4. CASE coYield(t) \/ systemYield(t)
    <2>1. "yield" \in {"yield", "goyield"} /\ "goyield" \in {"yield", "goyield"}
          /\ "user" \in {"user", "system"} /\ "system" \in {"user", "system"}
      OBVIOUS
    <2> QED
      BY <2>1, <1>4, GoYieldsGood DEF coYield, systemYield
  <1>5. CASE CheckThread(t)
    BY <1>5, CheckThreadGood
  <1>6. CASE \E th \in Threads : coResume(t, th) \/ coResumeRefuses(t, th)
    BY <1>6, CoResumeGood, CoResumeRefusesGood
  <1>7. CASE continuation(t)
    BY <1>7, ContinuationGood
  <1> QED
    BY <1>1, <1>2, <1>3, <1>4, <1>5, <1>6, <1>7

\* Something is on the Go stack while a loop returns or a panic unwinds it.
LEMMA SignalIsOnGo ==
    ASSUME IInv, sig # "none"
    PROVE  go # <<>>
  BY DEF IInv, Good, Top

\* Every return and error through the Go stack keeps the invariant.
LEMMA UnwindGood ==
    ASSUME IInv, Unwind
    PROVE  IInv'
  <1>1. go # <<>>
    <2>1. sig # "none"
      BY DEF Unwind, metaReturns, pcallReturns, resumeReturns, metaPanics, pcallFailed,
             handleProtectedError, threadFails, hostPCallReturns, hostResumeReturns
    <2> QED
      BY <2>1, SignalIsOnGo
  <1> QED
    BY <1>1, MetaReturnsGood, PcallReturnsGood, ResumeReturnsGood, MetaPanicsGood,
       PcallFailedGood, HandleProtectedErrorGood, ThreadFailsGood, HostPCallReturnsGood,
       HostResumeReturnsGood
    DEF Unwind

\* Every call of the host keeps the invariant.
LEMMA HostGood ==
    ASSUME Admitted, IInv, Host
    PROVE  IInv'
  BY HostPCallGood, HostResumeGood, HostResumeCanceledGood DEF Host

\* Every step keeps the invariant.
LEMMA NextGood ==
    ASSUME Admitted, IInv, [Next]_vars
    PROVE  IInv'
  <1>1. CASE UNCHANGED vars
    BY <1>1 DEF vars, IInv
  <1>2. CASE Next
    BY <1>2, EnterLoopGood, InterpretGood, InvokeGoGood, UnwindGood, HostGood DEF Next
  <1> QED
    BY <1>1, <1>2

\* The invariant holds in every reachable state.
LEMMA SpecGood ==
    ASSUME Admitted
    PROVE  Spec => []IInv
  <1>1. Init => IInv
    BY InitGood
  <1>2. Admitted /\ IInv /\ [Next]_vars => IInv'
    BY NextGood
  <1> QED
    BY <1>1, <1>2, PTL DEF Spec

-----------------------------------------------------------------------------
(* What the invariant says.                                                *)

\* Every variable keeps its type and no stack grows past MaxDepth frames.
THEOREM TypeCorrect ==
    ASSUME Admitted
    PROVE  Spec => []TypeOK
  <1>1. IInv => TypeOK
    <2> SUFFICES ASSUME IInv PROVE TypeOK
      OBVIOUS
    <2>1. /\ thread \in [Threads -> LStates] /\ (\A t \in Threads : WF(thread[t]))
          /\ go \in Seq(Activations) /\ CurrentThread \in Threads
          /\ sig \in {"none", "return", "panic"}
      BY DEF IInv, Good, Shape, Current
    <2>2. \A t \in Threads : Depth(thread[t]) <= MaxDepth
      BY <2>1 DEF WF
    <2> QED
      BY <2>1, <2>2 DEF TypeOK
  <1> QED
    BY <1>1, SpecGood, PTL

\* A thread with an activation, at a moment when no loop is returning, is
\* alive and has not yielded.
LEMMA OnGoIsAlive ==
    ASSUME IInv, sig # "return", NEW t \in Threads, OnGoStack(t)
    PROVE  ~thread[t].Dead /\ thread[t].yieldState = "none"
  <1>1. Shape(go) /\ Parents(thread, go, sig) /\ Rested(thread, go)
    BY DEF IInv, Good
  <1>2. PICK j \in 1..Len(go) : go[j].t = t
    BY DEF OnGoStack
  <1>3. PICK i \in 1..Len(go) : go[i].t = t /\ go[i].k \in {"run", "call"}
    BY <1>1, <1>2 DEF Shape, Rooted
  <1>4. CASE go[i].k = "run"
    BY <1>1, <1>3, <1>4 DEF Parents
  <1>5. CASE go[i].k = "call"
    <2>1. t = Main
      BY <1>1, <1>3, <1>5 DEF Shape, Owned
    <2> QED
      BY <2>1, <1>1 DEF Rested
  <1> QED
    BY <1>3, <1>4, <1>5

\* A killed thread keeps no pending work, whatever the program does with it.
THEOREM DeadStaysIdle ==
    ASSUME Admitted
    PROVE  Spec => []DeadHasNoWork
  <1>1. IInv => DeadHasNoWork
    <2> SUFFICES ASSUME IInv, NEW t \in Threads, thread[t].Dead
                 PROVE  /\ thread[t].yieldState = "none" /\ thread[t].yieldCont = 0
                        /\ \A i \in 1..MaxDepth : thread[t].frameExt[i] = "none"
                        /\ sig = "none" => ~OnGoStack(t)
      BY DEF DeadHasNoWork
    <2>1. Buried(thread[t])
      BY DEF IInv, Good, WF
    <2>2. sig = "none" => ~OnGoStack(t)
      BY OnGoIsAlive
    <2> QED
      BY <2>1, <2>2 DEF Buried
  <1> QED
    BY <1>1, SpecGood, PTL

\* A yielded thread has left its resumer and the Go stack and has a frame, and
\* a Go function on top of it has its continuation.
THEOREM YieldedResumable ==
    ASSUME Admitted
    PROVE  Spec => []SuspendedCanResume
  <1>1. IInv => SuspendedCanResume
    <2> SUFFICES ASSUME IInv, sig = "none", NEW t \in Threads, thread[t].yieldState # "none"
                 PROVE  /\ thread[t].Parent = NoThread /\ ~OnGoStack(t)
                        /\ Depth(thread[t]) > 0
                        /\ LastIsG(thread[t]) => HasContinuation(thread[t])
      BY DEF SuspendedCanResume
    <2>1. Suspended(thread[t])
      BY DEF IInv, Good, WF
    <2>2. ~OnGoStack(t)
      BY OnGoIsAlive
    <2> QED
      BY <2>1, <2>2 DEF Suspended
  <1> QED
    BY <1>1, SpecGood, PTL

\* While Lua code runs, each threadRun's thread has as Parent the thread that
\* resumed it, and no thread is in two of them.
THEOREM ParentsMatchGo ==
    ASSUME Admitted
    PROVE  Spec => []ParentIsResumer
  <1>1. IInv => ParentIsResumer
    <2> SUFFICES ASSUME IInv, sig = "none", NEW j \in 1..Len(go), go[j].k = "run"
                 PROVE  /\ thread[go[j].t].Parent = IF j = 1 THEN Main ELSE go[j - 1].t
                        /\ \A k \in 1..Len(go) : go[k].k = "run" /\ go[k].t = go[j].t => k = j
      BY DEF ParentIsResumer
    <2>1. Parents(thread, go, "none") /\ Apart(go) /\ Len(go) \in Nat
      BY DEF IInv, Good, Shape
    <2>2. thread[go[j].t].Parent = Resumer(go, j)
      BY <2>1 DEF Parents
    <2>3. ASSUME NEW k \in 1..Len(go), go[k].k = "run", go[k].t = go[j].t
          PROVE  k = j
      <3>1. ~(k < j) /\ ~(j < k)
        BY <2>1, <2>3 DEF Apart
      <3> QED
        BY <3>1, <2>1
    <2> QED
      BY <2>2, <2>3 DEF Resumer
  <1> QED
    BY <1>1, SpecGood, PTL

\* Without coroutine.wrap, G.CurrentThread is the thread of the running loop:
\* a wrapped thread that dies of an error leaves G.CurrentThread on itself.
THEOREM CurrentThreadExact ==
    ASSUME Admitted, Unwrapped
    PROVE  Spec => []RunningIsCurrent
  <1>1. IInv => RunningIsCurrent
    BY DEF Unwrapped, IInv, Good, Current, Zombie, RunningIsCurrent
  <1> QED
    BY <1>1, SpecGood, PTL

\* The interpreter loop never has the frame of a Go function on top.
THEOREM LoopsRunLua ==
    ASSUME Admitted
    PROVE  Spec => []OnlyLuaInterpreted
  <1>1. IInv => OnlyLuaInterpreted
    <2> SUFFICES ASSUME IInv, NEW t \in Threads, Executing(t)
                 PROVE  Depth(thread[t]) > 0 /\ ~LastIsG(thread[t])
      BY DEF OnlyLuaInterpreted
    <2>1. go # <<>> /\ sig = "none" /\ TopGo(go).t = t /\ TopGo(go).ph = "exec"
      BY DEF Executing
    <2>2. Poised(TopGo(go), thread[t])
      BY <2>1, Now
    <2> QED
      BY <2>1, <2>2 DEF Poised, LastIsG, Last, IsG, GoFns
  <1> QED
    BY <1>1, SpecGood, PTL

\* Every pcall that waits for its function, across any number of yields of
\* its thread, will be answered.
THEOREM PcallsArmed ==
    ASSUME Admitted
    PROVE  Spec => []PcallIsArmed
  <1>1. IInv => PcallIsArmed
    <2> SUFFICES ASSUME IInv, NEW t \in Threads, NEW i \in 1..Depth(thread[t]) - 1,
                        thread[t].stack[i].fn = "pcall", ~thread[t].Dead
                 PROVE  thread[t].stack[i].Protected /\ thread[t].frameExt[i] = "pcall"
      BY DEF PcallIsArmed
    <2>1. WF(thread[t])
      BY DEF IInv, Good
    <2>2. Stacked(thread[t]) /\ Depth(thread[t]) \in Nat
      BY <2>1, WFIs DEF WF
    <2>3. i \in 1..Depth(thread[t]) /\ i < Depth(thread[t])
      BY <2>2
    <2> QED
      BY <2>2, <2>3 DEF Stacked
  <1> QED
    BY <1>1, SpecGood, PTL

-----------------------------------------------------------------------------
(* The chain of threads.                                                   *)

\* c is the chain of threads from Main to cur that the Parent links spell out.
Line(ts, cur, c) ==
    /\ c \in Seq(Threads) /\ Len(c) > 0 /\ c[1] = Main /\ c[Len(c)] = cur
    /\ \A i \in 1..Len(c) : i > 1 => ts[c[i]].Parent = c[i - 1]
    /\ \A i, j \in 1..Len(c) : c[i] = c[j] => i = j

\* The threads that are dead.
DeadOf(ts) == {t \in Threads : ts[t].Dead}

-----------------------------------------------------------------------------
(* The chain is what Lineage computes.                                     *)

\* Some position is the lowest of a set.
LEMMA SmallestExists ==
    ASSUME NEW n \in Nat, NEW P \in SUBSET (1..n), P # {}
    PROVE  \E x \in P : \A y \in P : x <= y
  <1> DEFINE Q == {n + 1 - i : i \in P}
  <1>1. \A i \in P : i \in 1..n
    OBVIOUS
  <1>2. Q \in SUBSET (1..n) /\ Q # {}
    <2>1. \A i \in P : n + 1 - i \in 1..n
      BY <1>1
    <2> QED
      BY <2>1
  <1>3. \A i \in P : n + 1 - i \in Q
    OBVIOUS
  <1>4. \A z \in Q : \E i \in P : z = n + 1 - i
    OBVIOUS
  <1> HIDE DEF Q
  <1>5. PICK z \in Q : \A y \in Q : y <= z
    BY <1>2, LargestExists
  <1>6. PICK x \in P : z = n + 1 - x
    BY <1>4
  <1>7. ASSUME NEW y \in P PROVE x <= y
    BY <1>1, <1>3, <1>5, <1>6
  <1> QED
    BY <1>7

\* The n-th row of Lineage's table, from the row before: the lineages of at most
\* n threads.
Row(ts, f, n) ==
    [t \in Threads \cup {NoThread} |->
       IF n = 0 \/ t = NoThread THEN <<>> ELSE Append(f[n - 1][ts[t].Parent], t)]

\* The table's first rows.
Rows(ts, f, m) == [n \in 0..m |-> Row(ts, f, n)]

\* One more row can be added.
LEMMA RowAdded ==
    ASSUME NEW ts, NEW m \in Nat, NEW f, f = Rows(ts, f, m)
    PROVE  \E g : g = Rows(ts, g, m + 1)
  <1> DEFINE u == Row(ts, f, m + 1)
             g == [n \in 0..m + 1 |-> IF n = m + 1 THEN u ELSE f[n]]
  <1>1. ASSUME NEW n \in 0..m + 1 PROVE g[n] = Row(ts, g, n)
    <2>1. n # 0 => n - 1 \in 0..m /\ g[n - 1] = f[n - 1]
      <3> HIDE DEF u
      <3> QED
        OBVIOUS
    <2> HIDE DEF g
    <2>2. Row(ts, g, n) = Row(ts, f, n)
      BY <2>1 DEF Row
    <2>3. CASE n = m + 1
      BY <2>2, <2>3 DEF g
    <2>4. CASE n # m + 1
      <3>1. n \in 0..m
        BY <2>4
      <3>2. f[n] = Row(ts, f, n)
        BY <3>1 DEF Rows
      <3>3. g[n] = f[n]
        BY <2>4 DEF g
      <3> QED
        BY <3>2, <3>3, <2>2
    <2> QED
      BY <2>3, <2>4
  <1>2. g = [n \in 0..m + 1 |-> g[n]]
    <2> HIDE DEF u
    <2> QED
      OBVIOUS
  <1> HIDE DEF g
  <1>3. g = Rows(ts, g, m + 1)
    BY <1>1, <1>2 DEF Rows
  <1> QED
    BY <1>3

\* There is a table of any size.
LEMMA RowsExist ==
    ASSUME NEW ts, NEW k \in Nat
    PROVE  \E f : f = Rows(ts, f, k)
  <1> DEFINE P == {m \in 1..k : \E f : f = Rows(ts, f, m)}
  <1>1. \E f : f = Rows(ts, f, 0)
    <2> DEFINE g == [n \in 0..0 |-> [t \in Threads \cup {NoThread} |-> <<>>]]
    <2>1. \A n \in 0..0 : n = 0
      OBVIOUS
    <2>2. \A n \in 0..0 : Row(ts, g, n) = [t \in Threads \cup {NoThread} |-> <<>>]
      BY <2>1 DEF Row
    <2>3. g = Rows(ts, g, 0)
      BY <2>2 DEF Rows
    <2> QED
      BY <2>3
  <1>2. CASE k = 0
    BY <1>1, <1>2
  <1>3. CASE k # 0
    <2>1. 1 \in P
      <3>1. \E g : g = Rows(ts, g, 0 + 1)
        BY <1>1, RowAdded
      <3> QED
        BY <3>1, <1>3
    <2>2. P \in SUBSET (1..k)
      OBVIOUS
    <2> HIDE DEF P
    <2>3. PICK m \in P : \A y \in P : y <= m
      BY <2>1, <2>2, LargestExists
    <2>4. m \in 1..k /\ \E f : f = Rows(ts, f, m)
      BY DEF P
    <2>5. CASE m = k
      BY <2>4, <2>5
    <2>6. CASE m # k
      <3>1. m \in Nat /\ m + 1 \in 1..k
        BY <2>4, <2>6
      <3>2. \E g : g = Rows(ts, g, m + 1)
        BY <2>4, <3>1, RowAdded
      <3>3. m + 1 \in P
        BY <3>1, <3>2 DEF P
      <3> QED
        BY <2>3, <3>1, <3>3
    <2> QED
      BY <2>5, <2>6
  <1> QED
    BY <1>2, <1>3

\* No chain is longer than the number of threads.
LEMMA LineFits ==
    ASSUME IsFiniteSet(Threads), NEW ts, NEW cur, NEW c, Line(ts, cur, c)
    PROVE  Cardinality(Threads) \in Nat /\ Len(c) <= Cardinality(Threads)
  <1>1. Len(c) \in Nat /\ c \in [1..Len(c) -> Threads]
    BY DEF Line
  <1>2. c \in Injection(1..Len(c), Threads)
    BY <1>1 DEF Injection, IsInjective, Line
  <1>3. Cardinality(1..Len(c)) <= Cardinality(Threads)
    BY <1>2, FS_Injection
  <1>4. Cardinality(1..Len(c)) = Len(c)
    <2>1. 1 \in Int /\ Len(c) \in Int
      BY <1>1
    <2>2. Cardinality(1..Len(c)) = IF 1 > Len(c) THEN 0 ELSE Len(c) - 1 + 1
      BY <2>1, FS_Interval
    <2> QED
      BY <2>2, <1>1
  <1> QED
    BY <1>3, <1>4, FS_CardinalityType

\* The chain is the lineage of its last thread.
LEMMA LineageIs ==
    ASSUME IsFiniteSet(Threads), NEW ts, NEW cur, NEW c, Line(ts, cur, c),
           ts[Main].Parent = NoThread
    PROVE  Lineage(ts, cur) = c
  <1> DEFINE K == Cardinality(Threads)
             T == Threads \cup {NoThread}
             up == CHOOSE f : f = Rows(ts, f, K)
             L == Len(c)
  <1>1. K \in Nat /\ L \in Nat /\ L > 0
    BY LineFits DEF Line
  <1>2. L <= K
    BY LineFits
  <1>3. Lineage(ts, cur) = up[K][cur]
    BY DEF Lineage, Rows, Row
  <1>4. \E f : f = Rows(ts, f, K)
    BY <1>1, RowsExist
  <1>5. up = Rows(ts, up, K)
    BY <1>4
  <1> HIDE DEF up, K
  <1>6. \A n \in 0..K, t \in T :
          up[n][t] = IF n = 0 \/ t = NoThread THEN <<>> ELSE Append(up[n - 1][ts[t].Parent], t)
    <2>1. \A n \in 0..K : up[n] = Row(ts, up, n)
      BY <1>5 DEF Rows
    <2> SUFFICES ASSUME NEW n \in 0..K, NEW t \in T
                 PROVE  Row(ts, up, n)[t] = IF n = 0 \/ t = NoThread THEN <<>>
                                            ELSE Append(up[n - 1][ts[t].Parent], t)
      BY <2>1
    <2> QED
      BY DEF Row
  <1>7. NoThread \notin Threads /\ \A i \in 1..L : c[i] \in Threads
    BY ThreadAssumption DEF Line
  <1> DEFINE R(i) == up[K - (L - i)][c[i]] = SubSeq(c, 1, i)
             B == {i \in 1..L : ~R(i)}
  <1>8. R(1)
    <2>1. K - (L - 1) \in 0..K /\ K - (L - 1) # 0 /\ c[1] = Main /\ Main \in T /\ Main # NoThread
      BY <1>1, <1>2, <1>7 DEF Line
    <2>2. up[K - (L - 1)][Main] = Append(up[K - (L - 1) - 1][NoThread], Main)
      BY <2>1, <1>6
    <2>3. up[K - (L - 1) - 1][NoThread] = <<>>
      <3>1. K - (L - 1) - 1 \in 0..K /\ NoThread \in T
        BY <1>1, <1>2
      <3> QED
        BY <3>1, <1>6
    <2>4. SubSeq(c, 1, 1) = <<Main>>
      <3> DEFINE q == SubSeq(c, 1, 1)
      <3>1. q \in Seq(Threads) /\ Len(q) = 1 /\ q[1] = Main
        BY <1>1 DEF Line
      <3> HIDE DEF q
      <3>2. q = <<Main>>
        BY <3>1
      <3> QED
        BY <3>2 DEF q
    <2>5. Append(<<>>, Main) = <<Main>>
      OBVIOUS
    <2> QED
      BY <2>1, <2>2, <2>3, <2>4, <2>5
  <1>9. ASSUME NEW i \in 1..L, i > 1, R(i - 1) PROVE R(i)
    <2> DEFINE n == K - (L - i)
    <2>1. n \in 0..K /\ n # 0 /\ n - 1 = K - (L - (i - 1)) /\ i - 1 \in 1..L
      BY <1>1, <1>2, <1>9
    <2>2. c[i] \in T /\ c[i] # NoThread /\ ts[c[i]].Parent = c[i - 1]
      BY <1>7, <1>9 DEF Line
    <2>3. up[n][c[i]] = Append(up[n - 1][c[i - 1]], c[i])
      BY <2>1, <2>2, <1>6
    <2>4. up[n - 1][c[i - 1]] = SubSeq(c, 1, i - 1)
      BY <2>1, <1>9
    <2>5. SubSeq(c, 1, i) = Append(SubSeq(c, 1, i - 1), c[i])
      BY <1>1, <1>9 DEF Line
    <2> QED
      BY <2>3, <2>4, <2>5
  <1> HIDE DEF R
  <1>10. R(L)
    <2>1. CASE B = {}
      BY <2>1, <1>1
    <2>2. CASE B # {}
      <3>1. B \in SUBSET (1..L)
        OBVIOUS
      <3> HIDE DEF B
      <3>2. PICK x \in B : \A y \in B : x <= y
        BY <2>2, <3>1, <1>1, SmallestExists
      <3>3. x \in 1..L /\ ~R(x)
        BY DEF B
      <3>4. x # 1
        BY <3>3, <1>8
      <3>5. x - 1 \in 1..L
        BY <3>3, <3>4
      <3>6. R(x - 1)
        BY <3>2, <3>5, <3>3 DEF B
      <3> QED
        BY <3>3, <3>4, <3>6, <1>9
    <2> QED
      BY <2>1, <2>2
  <1>11. SubSeq(c, 1, L) = c /\ c[L] = cur /\ K - (L - L) = K
    BY <1>1 DEF Line
  <1> QED
    BY <1>3, <1>10, <1>11 DEF R

-----------------------------------------------------------------------------
(* What a step does to the chain.                                          *)

\* The step leaves a chain behind and is one of CoroutineChain from c, or none.
Steps(c) ==
    \E c2 :
      /\ Line(thread', CurrentThread', c2)
      /\ \/ c2 = c /\ DeadOf(thread') = DeadOf(thread)
         \/ \E t \in Threads \ {Main} :
              /\ \A i \in 1..Len(c) : c[i] # t
              /\ t \notin DeadOf(thread)
              /\ \/ c2 = Append(c, t) /\ DeadOf(thread') = DeadOf(thread)
                 \/ c2 = c /\ DeadOf(thread') = DeadOf(thread) \cup {t}
         \/ /\ Len(c) > 1 /\ c2 = SubSeq(c, 1, Len(c) - 1)
            /\ \/ DeadOf(thread') = DeadOf(thread)
               \/ DeadOf(thread') = DeadOf(thread) \cup {c[Len(c)]}

\* A thread without a Parent, other than Main, is not in the chain.
LEMMA NotInLine ==
    ASSUME NEW ts, NEW cur, NEW c, Line(ts, cur, c), NEW th, th # Main, ts[th].Parent = NoThread
    PROVE  \A i \in 1..Len(c) : c[i] # th
  <1> SUFFICES ASSUME NEW i \in 1..Len(c), c[i] = th PROVE FALSE
    OBVIOUS
  <1>1. i > 1
    BY DEF Line
  <1>2. ts[th].Parent = c[i - 1] /\ i - 1 \in 1..Len(c) /\ c \in Seq(Threads)
    BY <1>1 DEF Line
  <1>3. c[i - 1] \in Threads
    BY <1>2
  <1> QED
    BY <1>2, <1>3, ThreadAssumption

\* The chain stays as it is.
LEMMA StepStays ==
    ASSUME NEW c, Line(thread, CurrentThread, c), CurrentThread' = CurrentThread,
           \A i \in 1..Len(c) : i > 1 => thread'[c[i]].Parent = thread[c[i]].Parent,
           \A u \in Threads : thread'[u].Dead = thread[u].Dead
    PROVE  Steps(c)
  <1>1. Line(thread', CurrentThread', c)
    BY DEF Line
  <1>2. DeadOf(thread') = DeadOf(thread)
    BY DEF DeadOf
  <1> QED
    BY <1>1, <1>2 DEF Steps

\* A thread outside the chain is put at its end.
LEMMA StepEnters ==
    ASSUME NEW c, Line(thread, CurrentThread, c), NEW th \in Threads, th # Main,
           thread[th].Parent = NoThread, ~thread[th].Dead, CurrentThread' = th,
           thread'[th].Parent = CurrentThread,
           \A u \in Threads : u # th => thread'[u].Parent = thread[u].Parent,
           \A u \in Threads : thread'[u].Dead = thread[u].Dead
    PROVE  Steps(c)
  <1> DEFINE c2 == Append(c, th)
             n == Len(c)
  <1>1. c \in Seq(Threads) /\ n \in Nat /\ n > 0 /\ \A i \in 1..n : c[i] \in Threads /\ c[i] # th
    BY NotInLine DEF Line
  <1>2. c2 \in Seq(Threads) /\ Len(c2) = n + 1 /\ c2[n + 1] = th
        /\ \A i \in 1..n : c2[i] = c[i]
    BY <1>1
  <1> HIDE DEF c2, n
  <1>3. Line(thread', th, c2)
    <2>1. \A i \in 1..n + 1 : i > 1 => thread'[c2[i]].Parent = c2[i - 1]
      <3> SUFFICES ASSUME NEW i \in 1..n + 1, i > 1
                   PROVE  thread'[c2[i]].Parent = c2[i - 1]
        OBVIOUS
      <3>1. i - 1 \in 1..n /\ c2[i - 1] = c[i - 1]
        BY <1>1, <1>2
      <3>2. CASE i = n + 1
        BY <3>1, <3>2, <1>1, <1>2 DEF Line, n
      <3>3. CASE i # n + 1
        <4>1. i \in 1..n
          BY <3>3, <1>1
        <4>2. thread[c[i]].Parent = c[i - 1]
          BY <4>1 DEF Line, n
        <4> QED
          BY <4>1, <4>2, <3>1, <1>1, <1>2
      <3> QED
        BY <3>2, <3>3
    <2>2. \A i, j \in 1..n + 1 : c2[i] = c2[j] => i = j
      <3> SUFFICES ASSUME NEW i \in 1..n + 1, NEW j \in 1..n + 1, c2[i] = c2[j] PROVE i = j
        OBVIOUS
      <3>1. CASE i = n + 1 \/ j = n + 1
        BY <3>1, <1>1, <1>2
      <3>2. CASE i # n + 1 /\ j # n + 1
        <4>1. i \in 1..n /\ j \in 1..n
          BY <3>2, <1>1
        <4> QED
          BY <4>1, <1>2 DEF Line, n
      <3> QED
        BY <3>1, <3>2
    <2>3. c2[1] = Main /\ c2[Len(c2)] = th /\ Len(c2) > 0
      BY <1>1, <1>2 DEF Line
    <2> QED
      BY <2>1, <2>2, <2>3, <1>2 DEF Line
  <1>4. DeadOf(thread') = DeadOf(thread) /\ th \notin DeadOf(thread)
    BY DEF DeadOf
  <1> QED
    BY <1>1, <1>3, <1>4 DEF Steps, c2, n

\* The thread at the end of the chain leaves it, suspended or dead.
LEMMA StepLeaves ==
    ASSUME NEW c, Line(thread, CurrentThread, c), NEW t \in Threads, t = CurrentThread,
           thread[Main].Parent = NoThread, thread[t].Parent # NoThread,
           CurrentThread' = thread[t].Parent, thread[t].Dead => thread'[t].Dead,
           \A u \in Threads : u # t => thread'[u].Parent = thread[u].Parent
                                    /\ thread'[u].Dead = thread[u].Dead
    PROVE  Steps(c)
  <1> DEFINE n == Len(c)
             c2 == SubSeq(c, 1, n - 1)
  <1>1. c \in Seq(Threads) /\ n \in Nat /\ n > 0 /\ c[n] = t /\ c[1] = Main
        /\ \A i \in 1..n : c[i] \in Threads
    BY DEF Line
  <1>2. n > 1 /\ c[n - 1] = CurrentThread'
    <2>1. n # 1
      BY <1>1
    <2> QED
      BY <2>1, <1>1 DEF Line
  <1>3. c2 \in Seq(Threads) /\ Len(c2) = n - 1 /\ \A i \in 1..n - 1 : c2[i] = c[i]
    BY <1>1, <1>2
  <1>4. \A i \in 1..n - 1 : i \in 1..n /\ c[i] # t
    <2> SUFFICES ASSUME NEW i \in 1..n - 1 PROVE i \in 1..n /\ c[i] # t
      OBVIOUS
    <2>1. i \in 1..n /\ n \in 1..n /\ i # n
      BY <1>1, <1>2
    <2> QED
      BY <2>1, <1>1 DEF Line
  <1>5. \A i, j \in 1..n : c[i] = c[j] => i = j
    BY DEF Line
  <1>6. \A i \in 1..n : i > 1 => thread[c[i]].Parent = c[i - 1]
    BY DEF Line
  <1> HIDE DEF c2, n
  <1>7. Line(thread', CurrentThread', c2)
    <2>1. \A i \in 1..n - 1 : i > 1 => thread'[c2[i]].Parent = c2[i - 1]
      <3> SUFFICES ASSUME NEW i \in 1..n - 1, i > 1
                   PROVE  thread'[c2[i]].Parent = c2[i - 1]
        OBVIOUS
      <3>1. i - 1 \in 1..n - 1 /\ c2[i] = c[i] /\ c2[i - 1] = c[i - 1]
        BY <1>1, <1>3
      <3>2. thread'[c[i]].Parent = thread[c[i]].Parent
        BY <1>1, <1>4
      <3> QED
        BY <3>1, <3>2, <1>4, <1>6
    <2>2. \A i, j \in 1..n - 1 : c2[i] = c2[j] => i = j
      BY <1>3, <1>4, <1>5
    <2>3. c2[1] = Main /\ c2[Len(c2)] = CurrentThread' /\ Len(c2) > 0
      BY <1>1, <1>2, <1>3
    <2> QED
      BY <2>1, <2>2, <2>3, <1>3 DEF Line
  <1>8. DeadOf(thread') = DeadOf(thread) \/ DeadOf(thread') = DeadOf(thread) \cup {c[n]}
    <2>1. CASE thread'[t].Dead
      BY <2>1, <1>1 DEF DeadOf
    <2>2. CASE ~thread'[t].Dead
      BY <2>2 DEF DeadOf
    <2> QED
      BY <2>1, <2>2
  <1> QED
    BY <1>2, <1>7, <1>8 DEF Steps, c2, n

\* A thread outside the chain is cancelled.
LEMMA StepCancels ==
    ASSUME NEW c, Line(thread, CurrentThread, c), NEW th \in Threads, th # Main,
           thread[th].Parent = NoThread, ~thread[th].Dead, CurrentThread' = CurrentThread,
           thread'[th].Dead,
           \A u \in Threads : u # th => thread'[u].Parent = thread[u].Parent
                                     /\ thread'[u].Dead = thread[u].Dead
    PROVE  Steps(c)
  <1>1. \A i \in 1..Len(c) : c[i] \in Threads /\ c[i] # th
    <2>1. \A i \in 1..Len(c) : c[i] # th
      BY NotInLine
    <2> QED
      BY <2>1 DEF Line
  <1>2. Line(thread', CurrentThread', c)
    BY <1>1 DEF Line
  <1>3. DeadOf(thread') = DeadOf(thread) \cup {th} /\ th \notin DeadOf(thread)
    BY DEF DeadOf
  <1> QED
    BY <1>1, <1>2, <1>3 DEF Steps

-----------------------------------------------------------------------------
(* Most operations leave a thread's Parent alone, and its death.           *)

\* A thread's state, of which these proofs only read two fields.
Linked(s) == "Parent" \in DOMAIN s /\ "Dead" \in DOMAIN s

\* s2 has the Parent of s and is as dead.
Kin(s, s2) == Linked(s2) /\ s2.Parent = s.Parent /\ s2.Dead = s.Dead

\* Every LState has them.
LEMMA LStateLinked ==
    ASSUME NEW s \in LStates
    PROVE  Linked(s) /\ Kin(s, s)
  BY DEF LStates, Linked, Kin

\* Neither does a push change them,
LEMMA PushKin ==
    ASSUME NEW s, Linked(s), NEW fn
    PROVE  Kin(s, pushFrame(s, fn))
  BY DEF pushFrame, Linked, Kin

\* nor a pop,
LEMMA PopKin ==
    ASSUME NEW s, Linked(s)
    PROVE  Kin(s, popFrame(s))
  <1> DEFINE q == SubSeq(s.stack, 1, Depth(s) - 1)
             e == [s.frameExt EXCEPT ![Depth(s)] = "none"]
             b == Depth(s) > 1
  <1>1. popFrame(s) = [s EXCEPT !.stack = q, !.frameExt = e, !.started = b]
    BY DEF popFrame
  <1> HIDE DEF q, e, b
  <1> QED
    BY <1>1 DEF Linked, Kin

\* nor an unwinding of frames,
LEMMA UnwindKin ==
    ASSUME NEW s, Linked(s), NEW sp
    PROVE  Kin(s, unwindCallFrames(s, sp))
  BY DEF unwindCallFrames, Linked, Kin

\* nor the removal of a tail caller.
LEMMA TailKin ==
    ASSUME NEW s, Linked(s), NEW a
    PROVE  Kin(s, afterTail(s, a))
  <1> DEFINE n == Depth(s)
             q == Append(SubSeq(s.stack, 1, n - 2), s.stack[n])
             e == [[s.frameExt EXCEPT ![n - 1] = s.frameExt[n]] EXCEPT ![n] = "none"]
  <1>1. removeCallerFrame(s) = [s EXCEPT !.stack = q, !.frameExt = e]
    BY DEF removeCallerFrame
  <1> HIDE DEF n, q, e
  <1>2. Kin(s, removeCallerFrame(s))
    BY <1>1 DEF Linked, Kin
  <1>3. Kin(s, s)
    BY DEF Kin
  <1> QED
    BY <1>2, <1>3 DEF afterTail

\* A killed thread is dead.
LEMMA KillsIt ==
    ASSUME NEW s, "Dead" \in DOMAIN s
    PROVE  kill(s).Dead
  <1> DEFINE e == [i \in 1..MaxDepth |-> "none"]
  <1>1. kill(s) = [s EXCEPT !.yieldCont = 0, !.yieldContRB = 0, !.yieldState = "none",
                            !.frameExt = e, !.Dead = TRUE]
    BY DEF kill
  <1> HIDE DEF e
  <1> QED
    BY <1>1

\* What giving up a frame and the control leaves of the Parent and of life.
LEMMA DiedIs ==
    ASSUME NEW s, Linked(s), NEW how
    PROVE  LET p == [popFrame(s) EXCEPT !.Parent = NoThread] IN
           kill(p).Dead /\ [p EXCEPT !.yieldState = how].Dead = s.Dead
  <1> DEFINE q == popFrame(s)
             p == [q EXCEPT !.Parent = NoThread]
  <1>1. Kin(s, q)
    BY PopKin
  <1> HIDE DEF q
  <1>2. "Dead" \in DOMAIN p /\ p.Dead = s.Dead
    BY <1>1 DEF Kin, Linked
  <1> HIDE DEF p
  <1>3. kill(p).Dead /\ [p EXCEPT !.yieldState = how].Dead = s.Dead
    BY <1>2, KillsIt
  <1> QED
    BY <1>3 DEF p, q

-----------------------------------------------------------------------------
(* Steps that touch one thread.                                            *)

\* The running thread has not yielded.
LEMMA RunningAwake ==
    ASSUME IInv, go # <<>>, sig # "return", NEW t, t = TopGo(go).t
    PROVE  thread[t].yieldState = "none" /\ t \in Threads
  BY Running DEF IInv

\* The loop on top is that of G.CurrentThread.
LEMMA OnTop ==
    ASSUME Unwrapped, IInv, go # <<>>, sig # "return"
    PROVE  /\ CurrentThread = TopGo(go).t /\ CurrentThread \in Threads
           /\ Linked(thread[CurrentThread])
  <1>1. CurrentThread = TopGo(go).t /\ CurrentThread \in Threads
    BY DEF Unwrapped, IInv, Good, Current, Zombie
  <1>2. thread[CurrentThread] \in LStates
    BY <1>1 DEF IInv, Good
  <1> QED
    BY <1>1, <1>2, LStateLinked

\* A step that changes neither Parent nor Dead of the one thread it touches.
LEMMA StepTouches ==
    ASSUME IInv, NEW c, Line(thread, CurrentThread, c), NEW t, NEW x,
           thread' = [thread EXCEPT ![t] = x], t \in Threads => Kin(thread[t], x),
           CurrentThread' = CurrentThread
    PROVE  Steps(c)
  <1>1. thread \in [Threads -> LStates]
    BY DEF IInv, Good
  <1>2. \A u \in Threads : thread'[u].Parent = thread[u].Parent /\ thread'[u].Dead = thread[u].Dead
    BY <1>1 DEF Kin
  <1>3. \A i \in 1..Len(c) : c[i] \in Threads
    BY DEF Line
  <1> QED
    BY <1>2, <1>3, StepStays

\* A step that changes no thread.
LEMMA StepIdles ==
    ASSUME NEW c, Line(thread, CurrentThread, c), thread' = thread, CurrentThread' = CurrentThread
    PROVE  Steps(c)
  BY StepStays

\* The running thread is unlinked.
LEMMA StepUnlinks ==
    ASSUME IInv, NEW c, Line(thread, CurrentThread, c), NEW t \in Threads, t = CurrentThread,
           NEW x, thread' = [thread EXCEPT ![t] = x], thread[t].Parent # NoThread,
           CurrentThread' = thread[t].Parent, thread[t].Dead => x.Dead
    PROVE  Steps(c)
  <1>1. thread \in [Threads -> LStates] /\ thread[Main].Parent = NoThread
    BY DEF IInv, Good, Rested
  <1>2. \A u \in Threads : u # t => thread'[u] = thread[u]
    BY <1>1
  <1>3. thread'[t] = x
    BY <1>1
  <1> QED
    BY <1>1, <1>2, <1>3, StepLeaves

\* The running thread switches to its parent.
LEMMA StepSwitches ==
    ASSUME IInv, NEW c, Line(thread, CurrentThread, c), NEW t \in Threads, t = CurrentThread,
           NEW s, Kin(thread[t], s), s.Parent # NoThread, NEW how, switchToParentThread(t, s, how)
    PROVE  Steps(c)
  <1> DEFINE p == [popFrame(s) EXCEPT !.Parent = NoThread]
             x == IF how = "dies" THEN kill(p) ELSE [p EXCEPT !.yieldState = how]
  <1>1. thread' = [thread EXCEPT ![t] = x] /\ CurrentThread' = s.Parent
    BY DEF switchToParentThread
  <1>2. kill(p).Dead /\ [p EXCEPT !.yieldState = how].Dead = s.Dead
    BY DiedIs DEF Kin
  <1> HIDE DEF p
  <1>3. s.Dead => x.Dead
    BY <1>2
  <1> HIDE DEF x
  <1>4. s.Parent = thread[t].Parent /\ s.Dead = thread[t].Dead
    BY DEF Kin
  <1> QED
    BY <1>1, <1>3, <1>4, StepUnlinks

\* A Go function of the running thread returned.
LEMMA StepGoReturns ==
    ASSUME IInv, NEW c, Line(thread, CurrentThread, c), NEW t \in Threads, t = CurrentThread,
           NEW s0, Kin(thread[t], s0), NEW g, goReturns(t, s0, g)
    PROVE  Steps(c)
  <1> DEFINE s == afterTail(s0, TopGo(g))
  <1>1. Kin(thread[t], s) /\ Kin(thread[t], popFrame(s))
    <2>1. Kin(s0, s)
      BY TailKin DEF Kin
    <2> HIDE DEF s
    <2>2. Kin(s, popFrame(s))
      BY <2>1, PopKin DEF Kin
    <2> QED
      BY <2>1, <2>2 DEF Kin
  <1>2. CASE s.Parent # NoThread /\ Depth(s) = 1
    <2>1. switchToParentThread(t, s, "dies")
      BY <1>2 DEF goReturns
    <2> HIDE DEF s
    <2> QED
      BY <2>1, <1>1, <1>2, StepSwitches
  <1>3. CASE ~(s.Parent # NoThread /\ Depth(s) = 1)
    <2>1. thread' = [thread EXCEPT ![t] = popFrame(s)] /\ CurrentThread' = CurrentThread
      BY <1>3 DEF goReturns
    <2> HIDE DEF s
    <2> QED
      BY <2>1, <1>1, StepTouches
  <1> QED
    BY <1>2, <1>3

\* A thread off the chain starts to run.
LEMMA StepRuns ==
    ASSUME IInv, NEW c, Line(thread, CurrentThread, c), NEW t \in Threads, t = CurrentThread,
           NEW s, Kin(thread[t], s), NEW th \in Threads, th # Main, thread[th].Parent = NoThread,
           ~thread[th].Dead, th # t, runThread(t, th, [thread EXCEPT ![t] = s])
    PROVE  Steps(c)
  <1> DEFINE ts == [thread EXCEPT ![t] = s]
             x == [ts[th] EXCEPT !.Parent = t, !.yieldState = "none", !.started = TRUE]
  <1>1. thread \in [Threads -> LStates]
    BY DEF IInv, Good
  <1>2. DOMAIN ts = Threads /\ ts[t] = s /\ \A u \in Threads : u # t => ts[u] = thread[u]
    BY <1>1
  <1>3. thread' = [ts EXCEPT ![th].Parent = t, ![th].yieldState = "none", ![th].started = TRUE]
        /\ CurrentThread' = th
    BY DEF runThread
  <1> HIDE DEF ts
  <1>4. thread' = [ts EXCEPT ![th] = x]
    BY <1>2, <1>3
  <1>5. x.Parent = t /\ x.Dead = thread[th].Dead
    <2>1. ts[th] \in LStates /\ ts[th] = thread[th]
      BY <1>1, <1>2
    <2> QED
      BY <2>1 DEF LStates
  <1> HIDE DEF x
  <1>6. thread'[th] = x /\ \A u \in Threads : u # th => thread'[u] = ts[u]
    BY <1>2, <1>4
  <1>7. \A u \in Threads : u # th => thread'[u].Parent = thread[u].Parent
                                  /\ thread'[u].Dead = thread[u].Dead
    BY <1>2, <1>6 DEF Kin
  <1> QED
    BY <1>3, <1>5, <1>6, <1>7, StepEnters

-----------------------------------------------------------------------------
(* Every step of the runtime.                                              *)

\* While Lua code runs, every thread of the chain but Main is on the Go stack.
LEMMA LineIsOnGo ==
    ASSUME IInv, sig = "none", go # <<>>, NEW c, Line(thread, CurrentThread, c),
           CurrentThread = TopGo(go).t, NEW i \in 1..Len(c), c[i] # Main
    PROVE  ~OffGo(go, c[i])
  <1> DEFINE n == Len(c)
             P == {k \in 1..n : c[k] # Main /\ OffGo(go, c[k])}
  <1>1. Good(thread, CurrentThread, go, "none") /\ go \in Seq(Activations)
    BY DEF IInv, Good, Shape
  <1>2. c \in Seq(Threads) /\ n \in Nat /\ n > 0 /\ c[n] = CurrentThread /\ c[1] = Main
    BY DEF Line
  <1>3. CASE P = {}
    BY <1>3
  <1>4. CASE P # {}
    <2>1. P \in SUBSET (1..n)
      OBVIOUS
    <2> HIDE DEF P
    <2>2. PICK x \in P : \A y \in P : y <= x
      BY <1>2, <1>4, <2>1, LargestExists
    <2>3. x \in 1..n /\ c[x] # Main /\ OffGo(go, c[x])
      BY DEF P
    <2>4. x # n
      <3>1. Len(go) \in 1..Len(go) /\ TopGo(go) = go[Len(go)]
        BY <1>1, TopIs
      <3> QED
        BY <3>1, <2>3, <1>2 DEF OffGo
    <2>5. x + 1 \in 1..n /\ x > 0 /\ x + 1 \notin P
      BY <1>2, <2>2, <2>3, <2>4
    <2>6. c[x + 1] # Main
      <3>1. 1 \in 1..n /\ x + 1 # 1
        BY <1>2, <2>3
      <3> QED
        BY <3>1, <2>5, <1>2 DEF Line
    <2>7. PICK k \in 1..Len(go) : go[k].t = c[x + 1]
      BY <2>5, <2>6 DEF P, OffGo
    <2>8. PICK j \in 1..Len(go) : go[j].t = go[k].t /\ go[j].k \in {"run", "call"}
      BY <1>1 DEF Good, Shape, Rooted
    <2>9. go[j].k = "run"
      BY <1>1, <2>6, <2>7, <2>8 DEF Good, Shape, Owned
    <2>10. thread[c[x + 1]].Parent = Resumer(go, j)
      BY <1>1, <2>7, <2>8, <2>9 DEF Good, Parents
    <2>11. thread[c[x + 1]].Parent = c[x]
      <3>1. PICK y \in 1..Len(c) : y = x + 1
        BY <2>5
      <3>2. y > 1 /\ y - 1 = x
        BY <3>1, <2>3
      <3>3. thread[c[y]].Parent = c[y - 1]
        BY <3>2 DEF Line
      <3> QED
        BY <3>1, <3>2, <3>3
    <2>12. j # 1 /\ c[x] = go[j - 1].t
      BY <2>3, <2>10, <2>11 DEF Resumer
    <2>13. j - 1 \in 1..Len(go)
      <3>1. Len(go) \in Nat
        BY <1>1
      <3> QED
        BY <3>1, <2>12
    <2> QED
      BY <2>3, <2>12, <2>13 DEF OffGo
  <1> QED
    BY <1>3, <1>4

\* An opcode,
LEMMA InterpretSteps ==
    ASSUME Admitted, Unwrapped, IInv, NEW c, Line(thread, CurrentThread, c), Interpret
    PROVE  Steps(c)
  <1>1. PICK t \in Threads :
          \/ \E fn \in Fns : OpCall(t, fn) \/ OpTailCall(t, fn)
          \/ \E fn \in {"lua", "goyield"} : OpMeta(t, fn)
          \/ handleYieldContinuation(t)
          \/ OpReturn(t)
          \/ Throw(t)
          \/ \E th \in LuaThreads, fn \in {"lua", "goyield"}, w \in BOOLEAN :
               coCreate(t, th, fn, w)
    BY DEF Interpret
  <1>2. go # <<>> /\ sig = "none" /\ t = TopGo(go).t
    BY <1>1 DEF OpCall, OpTailCall, OpMeta, handleYieldContinuation, OpReturn, Throw, coCreate,
                AtOpcode, Executing
  <1>3. t = CurrentThread /\ thread[t] \in LStates /\ thread \in [Threads -> LStates]
    BY <1>2, OnTop DEF IInv, Good
  <1>4. Linked(thread[t]) /\ Kin(thread[t], thread[t])
    BY <1>3, LStateLinked
  <1>5. CASE \E fn \in Fns : OpCall(t, fn) \/ OpTailCall(t, fn)
    <2>1. PICK fn \in Fns : OpCall(t, fn) \/ OpTailCall(t, fn)
      BY <1>5
    <2>2. thread' = [thread EXCEPT ![t] = pushFrame(thread[t], fn)] /\ CurrentThread' = CurrentThread
      BY <2>1 DEF OpCall, OpTailCall
    <2> QED
      BY <2>2, <1>4, PushKin, StepTouches
  <1>6. CASE \E fn \in {"lua", "goyield"} : OpMeta(t, fn)
    <2>1. PICK fn \in {"lua", "goyield"} : OpMeta(t, fn)
      BY <1>6
    <2> DEFINE n == Depth(thread[t])
               s == [thread[t] EXCEPT !.stack[n].op = "call"]
    <2>2. thread' = [thread EXCEPT ![t] = pushFrame(s, fn)] /\ CurrentThread' = CurrentThread
      BY <2>1 DEF OpMeta
    <2>3. Kin(thread[t], s)
      <3> HIDE DEF n
      <3> QED
        BY <1>4 DEF Kin, Linked
    <2> HIDE DEF s
    <2>4. Kin(s, pushFrame(s, fn))
      BY <2>3, PushKin DEF Kin
    <2>5. Kin(thread[t], pushFrame(s, fn))
      BY <2>3, <2>4 DEF Kin
    <2> QED
      BY <2>2, <2>5, StepTouches
  <1>7. CASE handleYieldContinuation(t)
    <2> DEFINE n == Depth(thread[t])
               x == [thread[t] EXCEPT !.yieldCont = 0, !.yieldContRB = 0, !.stack[n].op = "none"]
    <2>1. thread' = [thread EXCEPT ![t].yieldCont = 0, ![t].yieldContRB = 0, ![t].stack[n].op = "none"]
          /\ CurrentThread' = CurrentThread
      BY <1>7 DEF handleYieldContinuation
    <2> HIDE DEF n
    <2>2. thread' = [thread EXCEPT ![t] = x]
      BY <2>1, <1>3
    <2>3. Kin(thread[t], x)
      BY <1>4 DEF Kin, Linked
    <2> HIDE DEF x
    <2> QED
      BY <2>1, <2>2, <2>3, StepTouches
  <1>8. CASE OpReturn(t)
    <2>1. CASE thread[t].Parent # NoThread /\ switchToParentThread(t, thread[t], "dies")
      BY <2>1, <1>3, <1>4, StepSwitches
    <2>2. CASE thread' = [thread EXCEPT ![t] = popFrame(thread[t])] /\ CurrentThread' = CurrentThread
      BY <2>2, <1>4, PopKin, StepTouches
    <2> QED
      BY <2>1, <2>2, <1>8 DEF OpReturn
  <1>9. CASE Throw(t)
    BY <1>9, StepIdles DEF Throw
  <1>10. CASE \E th \in LuaThreads, fn \in {"lua", "goyield"}, w \in BOOLEAN :
               coCreate(t, th, fn, w)
    <2>1. PICK th \in LuaThreads, fn \in {"lua", "goyield"}, w \in BOOLEAN : coCreate(t, th, fn, w)
      BY <1>10
    <2> DEFINE x == [pushFrame(newLState, fn) EXCEPT !.wrapped = w]
    <2>2. thread' = [thread EXCEPT ![th] = x] /\ CurrentThread' = CurrentThread /\ ~Known(th)
      BY <2>1 DEF coCreate
    <2>3. th \in Threads /\ th # Main
      BY ThreadAssumption DEF Threads
    <2>4. Depth(thread[th]) = 0 /\ ~thread[th].Dead
      <3>1. thread[th] \in LStates
        BY <1>3, <2>3
      <3>2. Depth(thread[th]) \in Nat
        BY <3>1, StateIs
      <3> QED
        BY <3>2, <2>2, <2>3 DEF Known
    <2>5. OffGo(go, th)
      <3>1. Good(thread, CurrentThread, go, "none")
        BY <1>2 DEF IInv
      <3> QED
        BY <3>1, <2>3, <2>4, EmptyIsOff
    <2>6. \A i \in 1..Len(c) : c[i] \in Threads /\ c[i] # th
      <3>1. \A i \in 1..Len(c) : c[i] # th
        BY <1>2, <1>3, <2>3, <2>5, LineIsOnGo
      <3> QED
        BY <3>1 DEF Line
    <2>7. x.Dead = FALSE
      BY DEF pushFrame, newLState
    <2> HIDE DEF x
    <2>8. \A u \in Threads : thread'[u].Dead = thread[u].Dead
      <3>1. thread[th].Dead = FALSE
        <4>1. thread[th] \in LStates
          BY <1>3, <2>3
        <4>2. thread[th].Dead \in BOOLEAN
          BY <4>1, StateIs
        <4> QED
          BY <4>2, <2>4
      <3> QED
        BY <3>1, <1>3, <2>2, <2>3, <2>7
    <2>9. \A i \in 1..Len(c) : thread'[c[i]] = thread[c[i]]
      BY <1>3, <2>2, <2>6
    <2> QED
      BY <2>2, <2>8, <2>9, StepStays
  <1> QED
    BY <1>1, <1>5, <1>6, <1>7, <1>8, <1>9, <1>10

\* a Go function that is called or continued,
LEMMA InvokeGoSteps ==
    ASSUME Admitted, Unwrapped, IInv, NEW c, Line(thread, CurrentThread, c), InvokeGo
    PROVE  Steps(c)
  <1>1. PICK t \in Threads :
          \/ pcallRefuses(t)
          \/ \E fn \in {"lua", "goyield", "pcall"} : basePCall(t, fn)
          \/ coYield(t) \/ systemYield(t)
          \/ CheckThread(t)
          \/ \E th \in Threads : coResume(t, th) \/ coResumeRefuses(t, th)
          \/ continuation(t)
    BY DEF InvokeGo
  <1>2. go # <<>> /\ sig = "none" /\ t = TopGo(go).t
    BY <1>1 DEF pcallRefuses, basePCall, coYield, systemYield, goYields, CheckThread, coResume,
                coResumeRefuses, continuation, Calling, Invoking
  <1>3. t = CurrentThread /\ thread[t] \in LStates /\ thread \in [Threads -> LStates]
        /\ Good(thread, CurrentThread, go, "none")
    BY <1>2, OnTop DEF IInv, Good
  <1>4. Linked(thread[t]) /\ Kin(thread[t], thread[t])
    BY <1>3, LStateLinked
  <1>5. CASE pcallRefuses(t)
    BY <1>3, <1>4, <1>5, StepGoReturns DEF pcallRefuses
  <1>6. CASE \E fn \in {"lua", "goyield", "pcall"} : basePCall(t, fn)
    <2>1. PICK fn \in {"lua", "goyield", "pcall"} : basePCall(t, fn)
      BY <1>6
    <2> DEFINE n == Depth(thread[t])
               s == [thread[t] EXCEPT !.stack[n].Protected = TRUE, !.frameExt[n] = "pcall"]
    <2>2. thread' = [thread EXCEPT ![t] = pushFrame(s, fn)] /\ CurrentThread' = CurrentThread
      BY <2>1 DEF basePCall
    <2> HIDE DEF n
    <2>3. Kin(thread[t], s)
      BY <1>4 DEF Kin, Linked
    <2> HIDE DEF s
    <2>4. Kin(s, pushFrame(s, fn))
      BY <2>3, PushKin DEF Kin
    <2>5. Kin(thread[t], pushFrame(s, fn))
      BY <2>3, <2>4 DEF Kin
    <2> QED
      BY <2>2, <2>5, StepTouches
  <1>7. CASE coYield(t) \/ systemYield(t)
    <2>1. PICK fn, how : goYields(t, fn, how)
      BY <1>7 DEF coYield, systemYield
    <2> DEFINE s == afterTail(thread[t], TopGo(go))
               x == [s EXCEPT !.Parent = NoThread, !.yieldState = how, !.frameExt[Depth(s)] = "sole"]
    <2>2. Kin(thread[t], s)
      BY <1>4, TailKin
    <2>3. \/ thread' = [thread EXCEPT ![t] = s] /\ CurrentThread' = CurrentThread
          \/ s.Parent # NoThread /\ thread' = [thread EXCEPT ![t] = x] /\ CurrentThread' = s.Parent
          \/ s.Parent # NoThread /\ switchToParentThread(t, s, how)
      BY <2>1 DEF goYields, preserveSoleGoYield
    <2> HIDE DEF s
    <2>4. x.Dead = s.Dead
      <3> DEFINE e == [s.frameExt EXCEPT ![Depth(s)] = "sole"]
      <3>1. x = [s EXCEPT !.Parent = NoThread, !.yieldState = how, !.frameExt = e]
        OBVIOUS
      <3> HIDE DEF e, x
      <3> QED
        BY <3>1, <2>2 DEF Kin, Linked
    <2> HIDE DEF x
    <2>5. s.Parent = thread[t].Parent /\ s.Dead = thread[t].Dead
      BY <2>2 DEF Kin
    <2> QED
      BY <2>2, <2>3, <2>4, <2>5, <1>3, StepTouches, StepUnlinks, StepSwitches
  <1>8. CASE CheckThread(t)
    BY <1>8, StepIdles DEF CheckThread
  <1>9. CASE \E th \in Threads : coResume(t, th) \/ coResumeRefuses(t, th)
    <2>1. PICK th \in Threads : coResume(t, th) \/ coResumeRefuses(t, th)
      BY <1>9
    <2>2. CASE coResume(t, th)
      <3>1. th # Main /\ th # t /\ ~thread[th].Dead /\ thread[th].Parent = NoThread
            /\ runThread(t, th, thread)
        BY <2>2, <1>3 DEF coResume, Known, MayResume, Admitted
      <3>2. [thread EXCEPT ![t] = thread[t]] = thread
        BY <1>3
      <3> QED
        BY <3>1, <3>2, <1>3, <1>4, StepRuns
    <2>3. CASE coResumeRefuses(t, th)
      <3>1. \/ thread' = thread /\ CurrentThread' = CurrentThread
            \/ goReturns(t, thread[t], go)
        BY <2>3 DEF coResumeRefuses
      <3> QED
        BY <3>1, <1>3, <1>4, StepIdles, StepGoReturns
    <2> QED
      BY <2>1, <2>2, <2>3
  <1>10. CASE continuation(t)
    <2> DEFINE n == Depth(thread[t])
               th == thread[t].frameExt[n]
               s == [thread[t] EXCEPT !.frameExt[n] = "none"]
    <2>1. IF th \in Threads THEN runThread(t, th, [thread EXCEPT ![t] = s]) ELSE goReturns(t, s, go)
      BY <1>10 DEF continuation
    <2>2. Kin(thread[t], s)
      BY <1>4 DEF Kin, Linked
    <2>3. CASE th \notin Threads
      <3> HIDE DEF s, th
      <3> QED
        BY <2>1, <2>2, <2>3, <1>3, StepGoReturns
    <2>4. CASE th \in Threads
      <3>1. n \in 1..MaxDepth
        <4>1. WF(thread[t])
          BY <1>3 DEF Good
        <4>2. n > 0
          BY <1>2, <1>3, Now DEF Poised
        <4> QED
          BY <4>1, <4>2, WFIs
      <3>2. th # Main /\ thread[th].yieldState = "system" /\ OffGo(go, th)
        BY <3>1, <2>4, <1>3 DEF Good, Awaits
      <3>3. WF(thread[th])
        BY <2>4, <1>3 DEF Good
      <3>4. thread[th].Parent = NoThread /\ ~thread[th].Dead
        BY <3>2, <3>3 DEF WF, Suspended
      <3>5. th # t
        <4>1. thread[t].yieldState = "none"
          BY <1>2, RunningAwake
        <4> QED
          BY <4>1, <3>2
      <3> HIDE DEF s, th
      <3> QED
        BY <2>1, <2>2, <2>4, <3>2, <3>4, <3>5, <1>3, StepRuns
    <2> QED
      BY <2>3, <2>4
  <1> QED
    BY <1>1, <1>5, <1>6, <1>7, <1>8, <1>9, <1>10

\* the return of a loop,
LEMMA ReturnSteps ==
    ASSUME Admitted, Unwrapped, IInv, NEW c, Line(thread, CurrentThread, c),
           go # <<>>, metaReturns \/ pcallReturns
    PROVE  Steps(c)
  <1> DEFINE a == TopGo(go)
             t == a.t
             s == thread[t]
  <1>1. sig = "return" /\ a.k \in {"meta", "pcall"}
    BY DEF metaReturns, pcallReturns
  <1>2. t \in Threads /\ s \in LStates /\ thread \in [Threads -> LStates]
        /\ (s.yieldState = "none" => ~Gone(s))
    BY <1>1, Returning
  <1>3. Linked(s) /\ Kin(s, s)
    BY <1>2, LStateLinked
  <1>4. CASE metaReturns /\ s.yieldState # "none"
    <2> DEFINE x == [s EXCEPT !.stack[a.at].op = "redo", !.yieldCont = a.at, !.yieldContRB = a.at + 1]
    <2>1. thread' = [thread EXCEPT ![t].stack[a.at].op = "redo", ![t].yieldCont = a.at,
                                   ![t].yieldContRB = a.at + 1] /\ CurrentThread' = CurrentThread
      BY <1>4 DEF metaReturns
    <2>2. thread' = [thread EXCEPT ![t] = x]
      BY <2>1, <1>2
    <2> HIDE DEF s, a
    <2>3. Kin(s, x)
      BY <1>3 DEF Kin, Linked
    <2> HIDE DEF x
    <2> QED
      BY <2>1, <2>2, <2>3, StepTouches DEF s
  <1>5. CASE metaReturns /\ s.yieldState = "none"
    <2> DEFINE x == [s EXCEPT !.stack[a.at].op = "none"]
    <2>1. thread' = [thread EXCEPT ![t].stack[a.at].op = "none"] /\ CurrentThread' = CurrentThread
      BY <1>5 DEF metaReturns
    <2>2. thread' = [thread EXCEPT ![t] = x]
      BY <2>1, <1>2
    <2> HIDE DEF s, a
    <2>3. Kin(s, x)
      BY <1>3 DEF Kin, Linked
    <2> HIDE DEF x
    <2> QED
      BY <2>1, <2>2, <2>3, StepTouches DEF s
  <1>6. CASE pcallReturns /\ s.yieldState # "none"
    <2> DEFINE r == [s EXCEPT !.yieldContRB = a.at + 1]
               x == afterTail(r, TopGo(PopGo(go)))
    <2>1. thread' = [thread EXCEPT ![t] = x] /\ CurrentThread' = CurrentThread
      BY <1>6 DEF pcallReturns
    <2> HIDE DEF s, a
    <2>2. Kin(s, r)
      BY <1>3 DEF Kin, Linked
    <2> HIDE DEF r
    <2>3. Kin(r, x)
      BY <2>2, TailKin DEF Kin
    <2> HIDE DEF x
    <2>4. Kin(s, x)
      BY <2>2, <2>3 DEF Kin
    <2> QED
      BY <2>1, <2>4, StepTouches DEF s
  <1>7. CASE pcallReturns /\ s.yieldState = "none"
    <2> DEFINE r == [s EXCEPT !.stack[a.at].Protected = FALSE, !.frameExt[a.at] = "none"]
    <2>1. goReturns(t, r, PopGo(go))
      BY <1>7 DEF pcallReturns
    <2>2. t = CurrentThread
      <3>1. ~Gone(s)
        BY <1>2, <1>7
      <3> QED
        BY <3>1 DEF Unwrapped, IInv, Good, Current, Zombie
    <2> HIDE DEF s, a
    <2>3. Kin(s, r)
      BY <1>3 DEF Kin, Linked
    <2> HIDE DEF r
    <2> QED
      BY <2>1, <2>2, <2>3, <1>2, StepGoReturns DEF s
  <1> QED
    BY <1>4, <1>5, <1>6, <1>7

\* of a coroutine to the coResume that runs it,
LEMMA ResumeReturnsSteps ==
    ASSUME Admitted, Unwrapped, IInv, NEW c, Line(thread, CurrentThread, c), resumeReturns
    PROVE  Steps(c)
  <1> DEFINE r == TopGo(PopGo(go))
             g == PopGo(PopGo(go))
             t == r.t
             s == thread[t]
             n == Len(go)
  <1>1. sig = "return" /\ TopGo(go).k = "run" /\ n > 1
        /\ Good(thread, CurrentThread, go, "return")
    BY DEF resumeReturns, IInv
  <1>2. n \in Nat /\ r = go[n - 1] /\ TopGo(go) = go[n] /\ t \in Threads /\ go # <<>>
    <2>1. /\ n \in Nat /\ r = go[n - 1] /\ TopGo(go) = go[n] /\ t \in Threads
      BY <1>1, ResumerIs
    <2>2. go # <<>>
      BY <1>1
    <2> QED
      BY <2>1, <2>2
  <1>3. t = CurrentThread
    <2>1. Gone(thread[TopGo(go).t])
      BY <1>1, <1>2 DEF Good, Top
    <2>2. CurrentThread = Resumer(go, n)
      BY <2>1, <1>1, <1>2 DEF Good, Current
    <2> QED
      BY <2>2, <1>1, <1>2 DEF Resumer
  <1>4. s \in LStates /\ thread \in [Threads -> LStates]
    BY <1>1, <1>2 DEF Good
  <1>5. Linked(s) /\ Kin(s, s)
    BY <1>4, LStateLinked
  <1>6. CASE goReturns(t, s, g)
    BY <1>2, <1>3, <1>5, <1>6, StepGoReturns
  <1>7. CASE ~goReturns(t, s, g)
    <2> DEFINE x == [s EXCEPT !.Parent = NoThread, !.yieldState = "system",
                              !.frameExt[Depth(s)] = r.th]
               y == afterTail(x, TopGo(g))
    <2>1. thread' = [thread EXCEPT ![t] = y] /\ CurrentThread' = s.Parent /\ s.Parent # NoThread
      BY <1>7 DEF resumeReturns
    <2>2. Linked(x) /\ x.Dead = s.Dead
      <3> DEFINE e == [s.frameExt EXCEPT ![Depth(s)] = r.th]
      <3>1. x = [s EXCEPT !.Parent = NoThread, !.yieldState = "system", !.frameExt = e]
        OBVIOUS
      <3> HIDE DEF e, s, x
      <3> QED
        BY <3>1, <1>5 DEF Linked
    <2> HIDE DEF x, g
    <2>3. y.Dead = x.Dead
      BY <2>2, TailKin DEF Kin
    <2> HIDE DEF y
    <2> QED
      BY <2>1, <2>2, <2>3, <1>2, <1>3, StepUnlinks
  <1> QED
    BY <1>6, <1>7

\* a panic that unwinds a loop,
LEMMA PanicSteps ==
    ASSUME Admitted, Unwrapped, IInv, NEW c, Line(thread, CurrentThread, c),
           go # <<>>, metaPanics \/ pcallFailed \/ handleProtectedError \/ threadFails
    PROVE  Steps(c)
  <1> DEFINE t == TopGo(go).t
             s == thread[t]
  <1>1. sig = "panic"
    BY DEF metaPanics, pcallFailed, handleProtectedError, threadFails
  <1>2. t = CurrentThread /\ t \in Threads /\ Linked(s)
    BY <1>1, OnTop
  <1>3. CASE metaPanics
    BY <1>3, StepIdles DEF metaPanics
  <1>4. CASE pcallFailed
    <2> DEFINE at == TopGo(go).at
               u == unwindCallFrames(s, at)
               r == [u EXCEPT !.stack[at].Protected = FALSE, !.frameExt[at] = "none"]
    <2>1. goReturns(t, r, PopGo(go))
      BY <1>4 DEF pcallFailed
    <2>2. Kin(s, u)
      BY <1>2, UnwindKin
    <2> HIDE DEF u, at
    <2>3. Kin(s, r)
      BY <2>2 DEF Kin, Linked
    <2> HIDE DEF r
    <2> QED
      BY <2>1, <2>3, <1>2, StepGoReturns
  <1>5. CASE handleProtectedError
    <2>1. PICK sp : thread' = [thread EXCEPT ![t] = unwindCallFrames(s, sp)]
      BY <1>5 DEF handleProtectedError
    <2>2. CurrentThread' = CurrentThread
      BY <1>5 DEF handleProtectedError
    <2> QED
      BY <2>1, <2>2, <1>2, UnwindKin, StepTouches
  <1>6. CASE threadFails
    <2>1. s.Parent # NoThread /\ ~s.wrapped
      <3>1. TopGo(go).k = "run" /\ Good(thread, CurrentThread, go, "panic")
        BY <1>1, <1>6 DEF threadFails, IInv
      <3>2. s.Parent # NoThread /\ WF(s)
        BY <3>1, Running
      <3> QED
        BY <3>2 DEF WF, Unwrapped
    <2>2. switchToParentThread(t, s, "dies")
      BY <2>1, <1>6 DEF threadFails
    <2>3. Kin(s, s)
      BY <1>2 DEF Kin
    <2> QED
      BY <2>1, <2>2, <2>3, <1>2, StepSwitches
  <1> QED
    BY <1>3, <1>4, <1>5, <1>6

\* or a call of the host.
LEMMA HostSteps ==
    ASSUME Admitted, Unwrapped, IInv, NEW c, Line(thread, CurrentThread, c),
           Host \/ hostPCallReturns \/ (hostResumeReturns /\ go # <<>>)
    PROVE  Steps(c)
  <1>1. thread \in [Threads -> LStates] /\ (\A t \in Threads : WF(thread[t])) /\ Main \in Threads
    BY DEF IInv, Good, Threads
  <1>2. \A t \in Threads : Linked(thread[t]) /\ Kin(thread[t], thread[t])
    BY <1>1, LStateLinked
  <1>3. CASE hostPCall
    <2> DEFINE s == [thread[Main] EXCEPT !.started = TRUE]
    <2>1. thread' = [thread EXCEPT ![Main] = pushFrame(s, "lua")] /\ CurrentThread' = CurrentThread
      BY <1>3 DEF hostPCall
    <2>2. Kin(thread[Main], s)
      BY <1>1, <1>2 DEF Kin, Linked
    <2> HIDE DEF s
    <2>3. Kin(thread[Main], pushFrame(s, "lua"))
      BY <2>2, PushKin DEF Kin
    <2> QED
      BY <2>1, <2>3, StepTouches
  <1>4. CASE hostPCallReturns
    <2>1. thread' = [thread EXCEPT ![Main] = unwindCallFrames(thread[Main], 0)]
          /\ CurrentThread' = CurrentThread
      BY <1>4 DEF hostPCallReturns
    <2> QED
      BY <2>1, <1>1, <1>2, UnwindKin, StepTouches
  <1>5. CASE \E th \in HostThreads, fn \in {"lua", "goyield"} :
               hostResume(th, fn) \/ hostResumeCanceled(th, fn)
    <2>1. PICK th \in HostThreads, fn \in {"lua", "goyield"} :
                 hostResume(th, fn) \/ hostResumeCanceled(th, fn)
      BY <1>5
    <2> DEFINE s == thread[th]
               e == entered(th, fn)
               x == [e EXCEPT !.Parent = Main, !.yieldState = "none", !.started = TRUE]
               y == [e EXCEPT !.Parent = NoThread, !.started = TRUE]
    <2>2. th \in Threads /\ th # Main
      BY ThreadAssumption DEF Threads
    <2>3. CurrentThread = Main /\ s.Parent = NoThread
      <3>1. go = <<>>
        BY <2>1 DEF hostResume, hostResumeCanceled, Idle
      <3>2. CurrentThread = Main
        BY <3>1 DEF Unwrapped, IInv, Good, Current, Zombie
      <3>3. s.Parent = NoThread
        BY <2>1 DEF hostResume, hostResumeCanceled, MayResume, Admitted
      <3> QED
        BY <3>2, <3>3
    <2>4. Kin(s, e)
      BY <2>2, <1>2, PushKin DEF entered
    <2>5. x.Parent = Main /\ x.Dead = s.Dead /\ "Dead" \in DOMAIN y
      <3> HIDE DEF e, s
      <3> QED
        BY <2>4 DEF Kin, Linked
    <2>6. CASE hostResume(th, fn) /\ ~(CurrentThread = th \/ s.Dead)
      <3>1. thread' = [thread EXCEPT ![th] = x] /\ CurrentThread' = th
        BY <2>6 DEF hostResume
      <3> HIDE DEF x
      <3>2. thread'[th] = x /\ \A u \in Threads : u # th => thread'[u] = thread[u]
        BY <3>1, <2>2, <1>1
      <3> QED
        BY <3>1, <3>2, <2>2, <2>3, <2>5, <2>6, StepEnters
    <2>7. CASE hostResume(th, fn) /\ (CurrentThread = th \/ s.Dead)
      <3>1. thread' = [thread EXCEPT ![th] = e] /\ CurrentThread' = CurrentThread
        BY <2>7 DEF hostResume
      <3> QED
        BY <3>1, <2>4, StepTouches
    <2>8. CASE hostResumeCanceled(th, fn)
      <3>1. thread' = [thread EXCEPT ![th] = kill(y)] /\ CurrentThread' = Main /\ ~s.Dead
        BY <2>8 DEF hostResumeCanceled
      <3> HIDE DEF y
      <3>2. kill(y).Dead
        BY <2>5, KillsIt
      <3>3. thread'[th] = kill(y) /\ \A u \in Threads : u # th => thread'[u] = thread[u]
        BY <3>1, <2>2, <1>1
      <3> QED
        BY <3>1, <3>2, <3>3, <2>2, <2>3, StepCancels
    <2> QED
      BY <2>1, <2>6, <2>7, <2>8
  <1>6. CASE hostResumeReturns /\ go # <<>>
    <2>1. TopGo(go).t \in Threads
      <3>1. go \in Seq(Activations)
        BY DEF IInv, Good, Shape
      <3> QED
        BY <3>1, <1>6, TopIs
    <2>2. ~(thread[TopGo(go).t].yieldState # "none" /\ Depth(thread[TopGo(go).t]) = 0)
      BY <2>1, <1>1 DEF WF, Suspended
    <2>3. thread' = thread /\ CurrentThread' = CurrentThread
      BY <2>2, <1>6 DEF hostResumeReturns
    <2> QED
      BY <2>3, StepIdles
  <1> QED
    BY <1>3, <1>4, <1>5, <1>6 DEF Host

\* Every step moves the chain as CoroutineChain allows.
LEMMA NextSteps ==
    ASSUME Admitted, Unwrapped, IInv, NEW c, Line(thread, CurrentThread, c), [Next]_vars
    PROVE  Steps(c)
  <1>1. CASE UNCHANGED vars
    BY <1>1, StepIdles DEF vars
  <1>2. CASE EnterLoop
    BY <1>2, StepIdles DEF EnterLoop
  <1>3. CASE Interpret \/ InvokeGo
    BY <1>3, InterpretSteps, InvokeGoSteps
  <1>4. CASE Unwind
    <2>1. sig # "none"
      BY <1>4 DEF Unwind, metaReturns, pcallReturns, resumeReturns, metaPanics, pcallFailed,
                  handleProtectedError, threadFails, hostPCallReturns, hostResumeReturns
    <2>2. go # <<>>
      BY <2>1, SignalIsOnGo
    <2> QED
      BY <2>2, <1>4, ReturnSteps, ResumeReturnsSteps, PanicSteps, HostSteps DEF Unwind
  <1>5. CASE Host
    BY <1>5, HostSteps
  <1> QED
    BY <1>1, <1>2, <1>3, <1>4, <1>5 DEF Next

\* The Parent links always spell out a chain from Main to the running thread.
Chained == \E c : Line(thread, CurrentThread, c)

\* A step on the chain is one of the abstract chain.
LEMMA StepRefines ==
    ASSUME IsFiniteSet(Threads), Admitted, Unwrapped, IInv, IInv', Chained, [Next]_vars
    PROVE  Chained' /\ [Chain!Next]_(Chain!vars)
  <1>1. PICK c : Line(thread, CurrentThread, c)
    BY DEF Chained
  <1>2. PICK c2 :
          /\ Line(thread', CurrentThread', c2)
          /\ \/ c2 = c /\ DeadOf(thread') = DeadOf(thread)
             \/ \E t \in Threads \ {Main} :
                  /\ \A i \in 1..Len(c) : c[i] # t
                  /\ t \notin DeadOf(thread)
                  /\ \/ c2 = Append(c, t) /\ DeadOf(thread') = DeadOf(thread)
                     \/ c2 = c /\ DeadOf(thread') = DeadOf(thread) \cup {t}
             \/ /\ Len(c) > 1 /\ c2 = SubSeq(c, 1, Len(c) - 1)
                /\ \/ DeadOf(thread') = DeadOf(thread)
                   \/ DeadOf(thread') = DeadOf(thread) \cup {c[Len(c)]}
    BY <1>1, NextSteps DEF Steps
  <1>3. thread[Main].Parent = NoThread /\ thread'[Main].Parent = NoThread
    BY DEF IInv, Good, Rested
  <1>4. Ancestry = c /\ Ancestry' = c2
    BY <1>1, <1>2, <1>3, LineageIs DEF Ancestry
  <1>5. Chained'
    BY <1>2 DEF Chained
  <1>6. CASE c2 = c /\ DeadOf(thread') = DeadOf(thread)
    <2>1. Chain!vars' = Chain!vars
      BY <1>4, <1>6 DEF Chain!vars, DeadOf
    <2> QED
      BY <1>5, <2>1
  <1>7. ASSUME NEW t \in Threads \ {Main}, \A i \in 1..Len(c) : c[i] # t, t \notin DeadOf(thread),
               \/ c2 = Append(c, t) /\ DeadOf(thread') = DeadOf(thread)
               \/ c2 = c /\ DeadOf(thread') = DeadOf(thread) \cup {t}
        PROVE  Chain!Next
    <2>1. ~Chain!InChain(t)
      BY <1>4, <1>7 DEF Chain!InChain
    <2>2. Chain!Resume(t) \/ Chain!Cancel(t)
      BY <2>1, <1>4, <1>7 DEF Chain!Resume, Chain!Cancel, DeadOf
    <2> QED
      BY <2>2 DEF Chain!Next
  <1>8. ASSUME Len(c) > 1, c2 = SubSeq(c, 1, Len(c) - 1),
               \/ DeadOf(thread') = DeadOf(thread)
               \/ DeadOf(thread') = DeadOf(thread) \cup {c[Len(c)]}
        PROVE  Chain!Next
    <2>1. Chain!Suspend \/ Chain!Finish
      BY <1>4, <1>8 DEF Chain!Suspend, Chain!Finish, Chain!Leave, DeadOf
    <2> QED
      BY <2>1 DEF Chain!Next
  <1> QED
    BY <1>2, <1>5, <1>6, <1>7, <1>8

\* At first Main runs and no thread is dead.
LEMMA InitRefines ==
    ASSUME IsFiniteSet(Threads), Init
    PROVE  Chained /\ Chain!Init
  <1> DEFINE c == <<Main>>
  <1>1. Main \in Threads
    BY DEF Threads
  <1>2. \A t \in Threads : thread[t].Parent = NoThread /\ ~thread[t].Dead
    BY DEF Init, newLState
  <1>3. c \in Seq(Threads) /\ Len(c) = 1 /\ c[1] = Main
    BY <1>1
  <1>4. CurrentThread = Main
    BY DEF Init
  <1> HIDE DEF c
  <1>5. Line(thread, CurrentThread, c)
    BY <1>3, <1>4 DEF Line
  <1>6. Ancestry = c
    BY <1>1, <1>2, <1>5, LineageIs DEF Ancestry
  <1> QED
    BY <1>2, <1>5, <1>6 DEF Chained, Chain!Init, c

\* The Parent links and G.CurrentThread implement the chain of CoroutineChain:
\* resume appends one suspended thread, yield, return and error take the last one
\* off, a system yield takes them off one by one, and nothing revives the dead.
THEOREM ChainRefined ==
    ASSUME IsFiniteSet(Threads), Admitted, Unwrapped
    PROVE  Spec => RefinesChain
  <1>1. Init => Chained /\ Chain!Init
    BY InitRefines
  <1>2. IInv /\ IInv' /\ Chained /\ [Next]_vars => Chained' /\ [Chain!Next]_(Chain!vars)
    BY StepRefines
  <1>3. Spec => []IInv
    BY SpecGood
  <1> QED
    BY <1>1, <1>2, <1>3, PTL DEF Spec, RefinesChain, Chain!Spec

=============================================================================
