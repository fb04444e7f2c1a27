----------------------------- MODULE FrameStack -----------------------------
(***************************************************************************)
(* What the callFrameStack interface of state.go promises the rest of the  *)
(* virtual machine: every thread owns a bounded last-in-first-out sequence *)
(* of call frames, untouched by what other threads do with theirs.         *)
(***************************************************************************)
EXTENDS Naturals, Sequences

CONSTANTS
    Stack,      \* the call frame stacks of the program's threads
    Frame,      \* what a pushed frame carries
    Capacity    \* frames a stack can hold

VARIABLES
    live,       \* live[s]: the stack has been created and not freed
    frames,     \* frames[s]: the frames pushed, the oldest first
    overflowed  \* overflowed[s]: the last push on s was refused

vars == <<live, frames, overflowed>>

Init ==
    /\ live = [s \in Stack |-> FALSE]
    /\ frames = [s \in Stack |-> <<>>]
    /\ overflowed = [s \in Stack |-> FALSE]

\* Only a push changes overflowed; every other operation on s rewrites its frames.
Become(s, fs) ==
    /\ live[s]
    /\ frames' = [frames EXCEPT ![s] = fs]
    /\ UNCHANGED <<live, overflowed>>

New(s) ==
    /\ ~live[s]
    /\ live' = [live EXCEPT ![s] = TRUE]
    /\ overflowed' = [overflowed EXCEPT ![s] = FALSE]
    /\ UNCHANGED frames

Push(s, f) ==
    /\ live[s]
    /\ Len(frames[s]) < Capacity
    /\ frames' = [frames EXCEPT ![s] = Append(@, f)]
    /\ overflowed' = [overflowed EXCEPT ![s] = FALSE]
    /\ UNCHANGED live

PushRefused(s) ==
    /\ live[s]
    /\ Len(frames[s]) = Capacity
    /\ overflowed' = [overflowed EXCEPT ![s] = TRUE]
    /\ UNCHANGED <<live, frames>>

Pop(s) ==
    /\ frames[s] # <<>>
    /\ Become(s, SubSeq(frames[s], 1, Len(frames[s]) - 1))

SetSp(s, sp) ==
    /\ sp \in 0 .. Len(frames[s])
    /\ Become(s, SubSeq(frames[s], 1, sp))

\* A tail call replaces the caller's frame by the callee's.
RemoveCallerFrame(s) ==
    LET n == Len(frames[s]) IN
    /\ n >= 2
    /\ Become(s, Append(SubSeq(frames[s], 1, n - 2), frames[s][n]))

FreeAll(s) ==
    /\ live[s]
    /\ live' = [live EXCEPT ![s] = FALSE]
    /\ frames' = [frames EXCEPT ![s] = <<>>]
    /\ UNCHANGED overflowed

Next == \E s \in Stack :
    \/ New(s)
    \/ \E f \in Frame : Push(s, f)
    \/ PushRefused(s)
    \/ Pop(s)
    \/ \E sp \in 0 .. Len(frames[s]) : SetSp(s, sp)
    \/ RemoveCallerFrame(s)
    \/ FreeAll(s)

Spec == Init /\ [][Next]_vars
=============================================================================
