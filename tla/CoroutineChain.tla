--------------------------- MODULE CoroutineChain ---------------------------
(***************************************************************************)
(* What coroutines promise: control is a chain of threads, the host's at   *)
(* one end and the running one at the other.  A thread that is neither in  *)
(* the chain nor dead can be put at its end; the thread at the end goes    *)
(* back to the one before it, suspended or dead; the dead stay dead.       *)
(***************************************************************************)
EXTENDS Naturals, Sequences

CONSTANTS Main, Coroutines

VARIABLES chain,  \* the threads from Main to the running one
          dead    \* the threads that finished, failed or were cancelled

vars == <<chain, dead>>

Init == chain = <<Main>> /\ dead = {}

InChain(t) == \E i \in 1..Len(chain) : chain[i] = t

Resume(t) ==
    /\ ~InChain(t) /\ t \notin dead
    /\ chain' = Append(chain, t)
    /\ UNCHANGED dead

Leave == /\ Len(chain) > 1
         /\ chain' = SubSeq(chain, 1, Len(chain) - 1)

Suspend == Leave /\ UNCHANGED dead

Finish == Leave /\ dead' = dead \cup {chain[Len(chain)]}

\* A suspended thread is cancelled without running again.
Cancel(t) ==
    /\ ~InChain(t) /\ t \notin dead
    /\ dead' = dead \cup {t}
    /\ UNCHANGED chain

Next == \/ \E t \in Coroutines : Resume(t) \/ Cancel(t)
        \/ Suspend
        \/ Finish

Spec == Init /\ [][Next]_vars
=============================================================================
