----------------------- MODULE MCSegmentedFrameStack ------------------------
(* Two threads, three segments of two frames: enough for a segment one      *)
(* thread gives back to be taken, still full of stale frames, by the other. *)
EXTENDS SegmentedFrameStack, TLC

Symmetry == Permutations(Stack) \cup Permutations(Segment) \cup Permutations(Frame)
=============================================================================
