------------------------ MODULE SegmentedFrameStack -------------------------
(***************************************************************************)
(* autoGrowingCallFrameStack (state.go), the call frame stack of a state   *)
(* created with MinimizeStackMemory.  Frames live in fixed-size segments   *)
(* that are taken from, and given back to, one process-wide sync.Pool, so  *)
(* a segment a thread returned is soon written by another thread.          *)
(***************************************************************************)
EXTENDS Integers, Sequences

CONSTANTS
    Stack,              \* stacks of the live and future threads
    Segment,            \* segment identities (memory addresses)
    Frame,              \* what a frame carries: function, base, ...
    FramesPerSegment,
    MaxSize,            \* Options.CallStackSize
    IdxLimit,           \* 2^15: callFrame.Idx is an int16
    UnwindInPlace,      \* may a caller unwind to the depth it already is at?
    nil

ASSUME SizeAssumption ==
    /\ FramesPerSegment \in Nat \ {0}
    /\ MaxSize \in Nat \ {0}
    /\ UnwindInPlace \in BOOLEAN
    /\ nil \notin Segment

NumSegments == (MaxSize + (FramesPerSegment - 1)) \div FramesPerSegment

SegIdx == 0 .. NumSegments - 1
Slot == 0 .. FramesPerSegment - 1

\* No stack is deep enough for an int16 frame index to wrap around.
ASSUME DepthAssumption ==
    /\ IdxLimit \in Nat
    /\ NumSegments \in Nat \ {0}
    /\ FramesPerSegment * NumSegments =< IdxLimit

VARIABLES
    live,       \* live[s]: created, and its memory not given back
    segments,   \* segments[s][i]: the i-th segment of s, or nil
    segIdx,     \* segIdx[s]: index of the segment the stack ends in
    segSp,      \* segSp[s]: frames of that segment in use
    array,      \* array[g][k]: the k-th frame of segment g
    pool,       \* segmentPool: segments waiting to be reused
    overflowed  \* overflowed[s]: the last push panicked with "stack overflow"

vars == <<live, segments, segIdx, segSp, array, pool, overflowed>>

-----------------------------------------------------------------------------

\* int16(n) for the positions a stack can have (n below 2^16).
Int16(n) == IF n < IdxLimit THEN n ELSE n - 2 * IdxLimit

ZeroFrame == [fn |-> nil, Idx |-> 0]
CallFrame == [fn : Frame \cup {nil}, Idx : Int]

Sp(s) == segSp[s] + segIdx[s] * FramesPerSegment

At(s, sp) == array[segments[s][sp \div FramesPerSegment]][sp % FramesPerSegment]

Owned == {segments[s][i] : s \in Stack, i \in SegIdx} \ {nil}

\* newCallFrameStackSegment: a pooled segment keeps whatever its last owner
\* wrote; a newly allocated one is zeroed.
NewCallFrameStackSegment(g) ==
    /\ g \in Segment \ Owned
    /\ array' = IF g \in pool THEN array
                ELSE [array EXCEPT ![g] = [k \in Slot |-> ZeroFrame]]
    /\ pool' = pool \ {g}

-----------------------------------------------------------------------------

Init ==
    /\ live = [s \in Stack |-> FALSE]
    /\ segments = [s \in Stack |-> [i \in SegIdx |-> nil]]
    /\ segIdx = [s \in Stack |-> 0]
    /\ segSp = [s \in Stack |-> 0]
    /\ array = [g \in Segment |-> [k \in Slot |-> ZeroFrame]]
    /\ pool = {}
    /\ overflowed = [s \in Stack |-> FALSE]

\* newAutoGrowingCallFrameStack
New(s) == \E g \in Segment :
    /\ ~live[s]
    /\ NewCallFrameStackSegment(g)
    /\ live' = [live EXCEPT ![s] = TRUE]
    /\ segments' = [segments EXCEPT ![s] = [i \in SegIdx |-> IF i = 0 THEN g ELSE nil]]
    /\ segIdx' = [segIdx EXCEPT ![s] = 0]
    /\ segSp' = [segSp EXCEPT ![s] = 0]
    /\ overflowed' = [overflowed EXCEPT ![s] = FALSE]

\* Push into the segment the stack ends in.
PushHere(s, f) ==
    /\ live[s]
    /\ segSp[s] < FramesPerSegment
    /\ array' = [array EXCEPT ![segments[s][segIdx[s]]][segSp[s]] =
                    [fn |-> f, Idx |-> Int16(Sp(s))]]
    /\ segSp' = [segSp EXCEPT ![s] = @ + 1]
    /\ overflowed' = [overflowed EXCEPT ![s] = FALSE]
    /\ UNCHANGED <<live, segments, segIdx, pool>>

\* Push when that segment is full: the frame becomes slot 0 of a new segment.
PushNewSegment(s, f) == \E g \in Segment \ Owned :
    /\ live[s]
    /\ segSp[s] >= FramesPerSegment
    /\ segIdx[s] < NumSegments - 1
    /\ pool' = pool \ {g}
    /\ segIdx' = [segIdx EXCEPT ![s] = @ + 1]
    /\ segments' = [segments EXCEPT ![s][segIdx[s] + 1] = g]
    /\ array' = [array EXCEPT ![g] = [k \in Slot |->
                    IF k = 0
                    THEN [fn |-> f, Idx |-> Int16(FramesPerSegment * (segIdx[s] + 1))]
                    ELSE IF g \in pool THEN array[g][k] ELSE ZeroFrame]]
    /\ segSp' = [segSp EXCEPT ![s] = 1]
    /\ overflowed' = [overflowed EXCEPT ![s] = FALSE]
    /\ UNCHANGED live

\* The last segment is full, which is when Push panics.  (IsFull, which
\* pushCallFrame asks first, compares segIdx with NumSegments: never true.)
NoRoom(s) == segSp[s] >= FramesPerSegment /\ segIdx[s] >= NumSegments - 1

\* Push on a full stack panics and leaves the stack as it was.
PushOverflow(s) ==
    /\ live[s]
    /\ NoRoom(s)
    /\ overflowed' = [overflowed EXCEPT ![s] = TRUE]
    /\ UNCHANGED <<live, segments, segIdx, segSp, array, pool>>

\* Mutant: the freed entries of the segment table keep their pointers.
FreeAboveKeepsPointers(s, i) ==
    /\ pool' = pool \cup {segments[s][j] : j \in {k \in SegIdx : k > i /\ k =< segIdx[s]}}
    /\ UNCHANGED segments

\* Mutant: entries that hold no segment are given back too.
FreeAboveFreesNil(s, i) ==
    /\ segments' = [segments EXCEPT ![s] =
                       [j \in SegIdx |-> IF j > i THEN nil ELSE segments[s][j]]]
    /\ pool' = pool \cup {segments[s][j] : j \in {k \in SegIdx : k > i}}

\* The segments of s above index i go back to the pool.
FreeAbove(s, i) ==
    /\ segments' = [segments EXCEPT ![s] =
                       [j \in SegIdx |-> IF j > i THEN nil ELSE segments[s][j]]]
    /\ pool' = pool \cup {segments[s][j] : j \in {k \in SegIdx : k > i /\ k =< segIdx[s]}}

\* Mutant: stepping back into a segment forgets to leave its last frame.
LeaveTopFrameLate(s) ==
    \/ /\ segSp[s] > 0
       /\ segSp' = [segSp EXCEPT ![s] = @ - 1]
       /\ UNCHANGED <<segments, segIdx, pool>>
    \/ /\ segSp[s] = 0
       /\ FreeAbove(s, segIdx[s] - 1)
       /\ segIdx' = [segIdx EXCEPT ![s] = @ - 1]
       /\ segSp' = [segSp EXCEPT ![s] = FramesPerSegment]

\* Leaving the top frame frees a segment only when that segment is already
\* empty, that is, when the frame left is the last one of the segment before.
LeaveTopFrame(s) ==
    \/ /\ segSp[s] > 0
       /\ segSp' = [segSp EXCEPT ![s] = @ - 1]
       /\ UNCHANGED <<segments, segIdx, pool>>
    \/ /\ segSp[s] = 0
       /\ FreeAbove(s, segIdx[s] - 1)
       /\ segIdx' = [segIdx EXCEPT ![s] = @ - 1]
       /\ segSp' = [segSp EXCEPT ![s] = FramesPerSegment - 1]

\* Pop; on an empty stack it returns nil and changes nothing.
Pop(s) ==
    /\ live[s]
    /\ Sp(s) > 0
    /\ LeaveTopFrame(s)
    /\ UNCHANGED <<live, array, overflowed>>

\* Mutant: the loop over the segments to free stops one too early.
SetSpStopsEarly(s, sp) ==
    LET desiredSegIdx == sp \div FramesPerSegment IN
    /\ live[s]
    /\ sp =< Sp(s)
    /\ UnwindInPlace \/ sp < Sp(s) \/ segSp[s] < FramesPerSegment
    /\ FreeAbove(s, desiredSegIdx + 1)
    /\ segIdx' = [segIdx EXCEPT ![s] =
                    IF @ > desiredSegIdx + 1 THEN desiredSegIdx + 1 ELSE @]
    /\ segSp' = [segSp EXCEPT ![s] = sp % FramesPerSegment]
    /\ UNCHANGED <<live, array, overflowed>>

\* SetSp, as unwindCallFrames calls it: sp is a depth recorded earlier.
SetSp(s, sp) ==
    LET desiredSegIdx == sp \div FramesPerSegment IN
    /\ live[s]
    /\ sp =< Sp(s)
    /\ UnwindInPlace \/ sp < Sp(s) \/ segSp[s] < FramesPerSegment
    /\ FreeAbove(s, desiredSegIdx)
    /\ segIdx' = [segIdx EXCEPT ![s] = IF @ > desiredSegIdx THEN desiredSegIdx ELSE @]
    /\ segSp' = [segSp EXCEPT ![s] = sp % FramesPerSegment]
    /\ UNCHANGED <<live, array, overflowed>>

\* Mutant: the copied frame brings its own index along.
TailCallFrameOwnIdx(callee, caller) == callee

\* The callee's frame in the caller's place: only the index is the caller's.
TailCallFrame(callee, caller) == [callee EXCEPT !.Idx = caller.Idx]

\* removeCallerFrame: the callee's frame is copied over the caller's, which
\* keeps its own Idx, and the copy on top is popped.
RemoveCallerFrame(s) ==
    LET parent == Sp(s) - 2
        g == segments[s][parent \div FramesPerSegment]
        k == parent % FramesPerSegment IN
    /\ live[s]
    /\ Sp(s) >= 2
    /\ array' = [array EXCEPT ![g][k] = TailCallFrame(At(s, parent + 1), At(s, parent))]
    /\ LeaveTopFrame(s)
    /\ UNCHANGED <<live, overflowed>>

\* FreeAll: the owner drops the stack, which keeps segIdx but no segment.
FreeAll(s) ==
    /\ live[s]
    /\ live' = [live EXCEPT ![s] = FALSE]
    /\ FreeAbove(s, -1)
    /\ UNCHANGED <<segIdx, segSp, array, overflowed>>

\* sync.Pool may drop what it holds at any garbage collection.
PoolDrop(g) ==
    /\ g \in pool
    /\ pool' = pool \ {g}
    /\ UNCHANGED <<live, segments, segIdx, segSp, array, overflowed>>

Next ==
    \/ \E s \in Stack :
          \/ New(s)
          \/ \E f \in Frame : PushHere(s, f) \/ PushNewSegment(s, f)
          \/ PushOverflow(s)
          \/ Pop(s)
          \/ \E sp \in 0 .. Sp(s) : SetSp(s, sp)
          \/ RemoveCallerFrame(s)
          \/ FreeAll(s)
    \/ \E g \in pool : PoolDrop(g)

Spec == Init /\ [][Next]_vars

-----------------------------------------------------------------------------
(***************************************************************************)
(* Properties                                                              *)
(***************************************************************************)

TypeOK ==
    /\ live \in [Stack -> BOOLEAN]
    /\ segments \in [Stack -> [SegIdx -> Segment \cup {nil}]]
    /\ segIdx \in [Stack -> SegIdx]
    /\ segSp \in [Stack -> 0 .. FramesPerSegment]
    /\ array \in [Segment -> [Slot -> CallFrame]]
    /\ pool \in SUBSET Segment
    /\ overflowed \in [Stack -> BOOLEAN]

\* A live stack owns exactly the segments up to the one it ends in.
SegmentsInUse == \A s \in Stack, i \in SegIdx :
    segments[s][i] # nil <=> live[s] /\ i =< segIdx[s]

\* No segment belongs to two places at once: not to two stacks, not twice to
\* one stack, not to a stack and the pool (Push, Pop, SetSp and FreeAll trade
\* segments through segmentPool).
SegmentsExclusive ==
    /\ \A s, t \in Stack, i, j \in SegIdx :
          segments[s][i] = segments[t][j] /\ segments[s][i] # nil => s = t /\ i = j
    /\ \A s \in Stack, i \in SegIdx : segments[s][i] \notin pool

\* callFrame.Idx, which ParentOf and the frame extensions trust, is the
\* frame's position whatever mix of calls, tail calls and unwinds led here.
FrameIdxIsPosition == \A s \in Stack :
    live[s] => \A sp \in 0 .. Sp(s) - 1 : At(s, sp).Idx = sp

\* The frames pushed on s, the oldest first.
FramesOf(s) == [i \in 1 .. (IF live[s] THEN Sp(s) ELSE 0) |-> At(s, i - 1).fn]

\* The stacks are independent bounded stacks: no interleaving of threads that
\* trade segments through the pool is visible in any of them.
Abstract == INSTANCE FrameStack WITH
    Capacity <- FramesPerSegment * NumSegments,
    frames <- [s \in Stack |-> FramesOf(s)]
RefinesFrameStack == Abstract!Spec

\* Each operation is the abstract one of the same name and argument, not just
\* some step of a bounded stack: in particular unwindCallFrames discards frames
\* down to the depth it was given and no further.
OperationsRefine == [][\A s \in Stack :
    /\ \A f \in Frame : PushHere(s, f) \/ PushNewSegment(s, f) => Abstract!Push(s, f)
    /\ Pop(s) => Abstract!Pop(s)
    /\ \A sp \in 0 .. Sp(s) : SetSp(s, sp) => Abstract!SetSp(s, sp)
    /\ RemoveCallerFrame(s) => Abstract!RemoveCallerFrame(s)]_vars
=============================================================================
