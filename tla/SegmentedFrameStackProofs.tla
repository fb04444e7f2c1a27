--------------------- MODULE SegmentedFrameStackProofs ----------------------
(***************************************************************************)
(* Proofs about the auto-growing call frame stack, for any number of       *)
(* threads, any segment size and any call stack size.                      *)
(***************************************************************************)
EXTENDS SegmentedFrameStack, SequenceTheorems, TLAPS

(***************************************************************************)
(* Positions and segments: position k + i * FramesPerSegment is slot k of  *)
(* segment i, and every position is one of that form.                      *)
(***************************************************************************)
\* Slot k of segment i is position k + i * FramesPerSegment, and back.
LEMMA DivMod ==
    ASSUME NEW i \in Nat, NEW k \in Nat, k < FramesPerSegment
    PROVE  /\ (k + i * FramesPerSegment) \div FramesPerSegment = i
           /\ (k + i * FramesPerSegment) % FramesPerSegment = k
BY SizeAssumption, SMTT(30)

\* Every position has a segment and a slot, and they determine it.
LEMMA DivModBack ==
    ASSUME NEW n \in Nat
    PROVE  /\ n \div FramesPerSegment \in Nat
           /\ n % FramesPerSegment \in Slot
           /\ n = (n % FramesPerSegment) + (n \div FramesPerSegment) * FramesPerSegment
BY SizeAssumption, SMTT(30) DEF Slot

\* Where the next segment begins.
LEMMA NextMultiple ==
    ASSUME NEW a \in Nat, NEW b \in Nat
    PROVE  /\ (a + 1) * b = b + a * b
           /\ b * (a + 1) = b + a * b
           /\ a * b \in Nat
OBVIOUS

\* A position below segment i lies in an earlier segment.
LEMMA SegmentOf ==
    ASSUME NEW i \in Nat, NEW n \in Nat, n < i * FramesPerSegment
    PROVE  n \div FramesPerSegment < i
BY SizeAssumption, SMTT(30)

-----------------------------------------------------------------------------
(***************************************************************************)
(* Memory safety: which segments a stack owns, and that it owns them alone *)
(***************************************************************************)

\* Exclusive ownership is inductive only together with the knowledge of which
\* entries of the segment table are in use.
MemoryInv == TypeOK /\ SegmentsInUse /\ SegmentsExclusive

\* Types of the derived quantities.
LEMMA SpType ==
    ASSUME TypeOK, NEW s \in Stack
    PROVE  Sp(s) \in Nat
<1>1. segSp[s] \in Nat /\ segIdx[s] \in Nat /\ FramesPerSegment \in Nat
  BY SizeAssumption, DepthAssumption DEF TypeOK, SegIdx
<1>2. segIdx[s] * FramesPerSegment \in Nat
  BY <1>1
<1> QED
  BY <1>1, <1>2 DEF Sp

\* A position below Sp lies in a segment the stack owns, at a valid slot.
LEMMA AtType ==
    ASSUME MemoryInv, NEW s \in Stack, live[s], NEW sp \in Nat, sp < Sp(s)
    PROVE  /\ sp \div FramesPerSegment \in SegIdx
           /\ sp \div FramesPerSegment =< segIdx[s]
           /\ segments[s][sp \div FramesPerSegment] \in Segment
           /\ sp % FramesPerSegment \in Slot
           /\ At(s, sp) \in CallFrame
<1>1. /\ segIdx[s] \in SegIdx /\ segSp[s] \in 0 .. FramesPerSegment
      /\ segIdx[s] \in Nat /\ segSp[s] \in Nat /\ FramesPerSegment \in Nat
  BY SizeAssumption, DepthAssumption DEF MemoryInv, TypeOK, SegIdx
<1>2. sp \div FramesPerSegment \in Nat /\ sp % FramesPerSegment \in Slot
  BY DivModBack
<1>3. sp < (segIdx[s] + 1) * FramesPerSegment
  BY <1>1, SizeAssumption DEF Sp
<1>4. sp \div FramesPerSegment < segIdx[s] + 1
  BY <1>1, <1>3, SegmentOf
<1>5. sp \div FramesPerSegment \in SegIdx /\ sp \div FramesPerSegment =< segIdx[s]
  BY <1>1, <1>2, <1>4, DepthAssumption DEF SegIdx
<1>6. segments[s][sp \div FramesPerSegment] \in Segment
  BY <1>5 DEF MemoryInv, TypeOK, SegmentsInUse
<1> QED
  BY <1>2, <1>5, <1>6 DEF At, MemoryInv, TypeOK

\* No stack is live at first, so none owns a segment.
LEMMA MemoryInvInit == Init => MemoryInv
BY SizeAssumption, DepthAssumption DEF Init, MemoryInv, TypeOK, SegmentsInUse, SegmentsExclusive,
   SegIdx, CallFrame, ZeroFrame

\* Giving segments back keeps the ones that remain exclusive.
LEMMA FreeAboveMemory ==
    ASSUME MemoryInv, NEW s \in Stack, live[s], NEW i \in Int, FreeAbove(s, i)
    PROVE  /\ segments' \in [Stack -> [SegIdx -> Segment \cup {nil}]]
           /\ pool' \in SUBSET Segment
           /\ SegmentsExclusive'
           /\ \A t \in Stack, j \in SegIdx :
                 segments'[t][j] = IF t = s /\ j > i THEN nil ELSE segments[t][j]
<1> USE SizeAssumption, DepthAssumption DEF MemoryInv
<1>1. \A t \in Stack, j \in SegIdx :
         segments'[t][j] = IF t = s /\ j > i THEN nil ELSE segments[t][j]
  BY DEF FreeAbove, TypeOK
<1>2. segments' \in [Stack -> [SegIdx -> Segment \cup {nil}]]
  BY DEF FreeAbove, TypeOK
<1>3. ASSUME NEW g \in pool' PROVE g \in pool \/ \E j \in SegIdx : j > i /\ j =< segIdx[s] /\ g = segments[s][j]
  BY <1>3 DEF FreeAbove
<1>4. pool' \in SUBSET Segment
  BY <1>3 DEF SegmentsInUse, TypeOK
<1>5. ASSUME NEW t \in Stack, NEW u \in Stack, NEW j \in SegIdx, NEW k \in SegIdx,
             segments'[t][j] = segments'[u][k], segments'[t][j] # nil
      PROVE  t = u /\ j = k
  BY <1>1, <1>5 DEF SegmentsExclusive
<1>6. ASSUME NEW t \in Stack, NEW j \in SegIdx, segments'[t][j] \in pool'
      PROVE  FALSE
  <2>1. segments'[t][j] # nil
    BY <1>4, <1>6
  <2>2. segments[t][j] = segments'[t][j] /\ ~(t = s /\ j > i)
    BY <1>1, <2>1
  <2> QED
    BY <1>3, <1>6, <2>1, <2>2 DEF SegmentsExclusive
<1>7. SegmentsExclusive'
  BY <1>5, <1>6 DEF SegmentsExclusive
<1> QED
  BY <1>1, <1>2, <1>4, <1>7

\* Every method of the stack keeps the segments' ownership in order.
LEMMA MemoryInvStep == MemoryInv /\ [Next]_vars => MemoryInv'
<1> SUFFICES ASSUME MemoryInv, [Next]_vars
             PROVE  MemoryInv'
  OBVIOUS
<1> USE SizeAssumption, DepthAssumption
<1>1. ASSUME NEW s \in Stack, New(s)
      PROVE  MemoryInv'
  <2> PICK g \in Segment :
         /\ ~live[s]
         /\ NewCallFrameStackSegment(g)
         /\ live' = [live EXCEPT ![s] = TRUE]
         /\ segments' = [segments EXCEPT ![s] = [i \in SegIdx |-> IF i = 0 THEN g ELSE nil]]
         /\ segIdx' = [segIdx EXCEPT ![s] = 0]
         /\ segSp' = [segSp EXCEPT ![s] = 0]
         /\ overflowed' = [overflowed EXCEPT ![s] = FALSE]
    BY <1>1 DEF New
  <2>1. \A t \in Stack, i \in SegIdx : segments[t][i] # g
    BY DEF NewCallFrameStackSegment, Owned
  <2>2. TypeOK'
    BY DEF MemoryInv, TypeOK, NewCallFrameStackSegment, SegIdx, CallFrame, ZeroFrame
  <2>3. SegmentsInUse'
    BY DEF MemoryInv, TypeOK, SegmentsInUse, SegIdx
  <2>4. SegmentsExclusive'
    BY <2>1 DEF MemoryInv, TypeOK, SegmentsExclusive, NewCallFrameStackSegment
  <2> QED
    BY <2>2, <2>3, <2>4 DEF MemoryInv
<1>2. ASSUME NEW s \in Stack, NEW f \in Frame, PushHere(s, f)
      PROVE  MemoryInv'
  <2>1. Int16(Sp(s)) \in Int
    BY SpType DEF MemoryInv, Int16
  <2>2. [fn |-> f, Idx |-> Int16(Sp(s))] \in CallFrame
    BY <2>1 DEF CallFrame
  <2>3. array' \in [Segment -> [Slot -> CallFrame]]
    BY <1>2, <2>2 DEF PushHere, MemoryInv, TypeOK
  <2>4. segSp' \in [Stack -> 0 .. FramesPerSegment]
    BY <1>2 DEF PushHere, MemoryInv, TypeOK
  <2> QED
    BY <1>2, <2>3, <2>4 DEF PushHere, MemoryInv, TypeOK, SegmentsInUse, SegmentsExclusive
<1>3. ASSUME NEW s \in Stack, NEW f \in Frame, PushNewSegment(s, f)
      PROVE  MemoryInv'
  <2> DEFINE fresh(g) == [k \in Slot |->
                 IF k = 0
                 THEN [fn |-> f, Idx |-> Int16(FramesPerSegment * (segIdx[s] + 1))]
                 ELSE IF g \in pool THEN array[g][k] ELSE ZeroFrame]
  <2> PICK g \in Segment \ Owned :
         /\ live[s]
         /\ segSp[s] >= FramesPerSegment
         /\ segIdx[s] < NumSegments - 1
         /\ pool' = pool \ {g}
         /\ segIdx' = [segIdx EXCEPT ![s] = @ + 1]
         /\ segments' = [segments EXCEPT ![s][segIdx[s] + 1] = g]
         /\ array' = [array EXCEPT ![g] = fresh(g)]
         /\ segSp' = [segSp EXCEPT ![s] = 1]
         /\ overflowed' = [overflowed EXCEPT ![s] = FALSE]
         /\ UNCHANGED live
    BY <1>3 DEF PushNewSegment
  <2>1. \A t \in Stack, i \in SegIdx : segments[t][i] # g
    BY DEF Owned
  <2>2. segIdx[s] \in Nat /\ segIdx[s] + 1 \in SegIdx
    BY DEF MemoryInv, TypeOK, SegIdx
  <2>3. FramesPerSegment * (segIdx[s] + 1) \in Int
    BY <2>2
  <2>4. [fn |-> f, Idx |-> Int16(FramesPerSegment * (segIdx[s] + 1))] \in CallFrame
    BY <2>3 DEF CallFrame, Int16
  <2>5. fresh(g) \in [Slot -> CallFrame]
    BY <2>4 DEF MemoryInv, TypeOK, CallFrame, ZeroFrame
  <2> HIDE DEF fresh
  <2>6. TypeOK'
    BY <2>2, <2>5 DEF MemoryInv, TypeOK
  <2>7. SegmentsInUse'
    BY <2>2 DEF MemoryInv, TypeOK, SegmentsInUse, SegIdx
  <2>8. SegmentsExclusive'
    BY <2>1, <2>2 DEF MemoryInv, TypeOK, SegmentsExclusive
  <2> QED
    BY <2>6, <2>7, <2>8 DEF MemoryInv
<1>4. ASSUME NEW s \in Stack, PushOverflow(s)
      PROVE  MemoryInv'
  BY <1>4 DEF PushOverflow, MemoryInv, TypeOK, SegmentsInUse, SegmentsExclusive
<1>5. ASSUME NEW s \in Stack, live[s], Sp(s) > 0, LeaveTopFrame(s),
             array' \in [Segment -> [Slot -> CallFrame]], UNCHANGED <<live, overflowed>>
      PROVE  MemoryInv'
  <2>1. CASE segSp[s] > 0
    <3>1. /\ segSp' = [segSp EXCEPT ![s] = @ - 1]
          /\ UNCHANGED <<segments, segIdx, pool>>
      BY <1>5, <2>1 DEF LeaveTopFrame
    <3>2. segSp' \in [Stack -> 0 .. FramesPerSegment]
      BY <2>1, <3>1 DEF MemoryInv, TypeOK
    <3> QED
      BY <1>5, <3>1, <3>2 DEF MemoryInv, TypeOK, SegmentsInUse, SegmentsExclusive
  <2>2. CASE segSp[s] = 0
    <3>1. segIdx[s] \in Nat \ {0}
      BY <1>5, <2>2 DEF MemoryInv, TypeOK, Sp, SegIdx
    <3>2. /\ FreeAbove(s, segIdx[s] - 1)
          /\ segIdx' = [segIdx EXCEPT ![s] = @ - 1]
          /\ segSp' = [segSp EXCEPT ![s] = FramesPerSegment - 1]
      BY <1>5, <2>2 DEF LeaveTopFrame
    <3>3. /\ segments' \in [Stack -> [SegIdx -> Segment \cup {nil}]]
          /\ pool' \in SUBSET Segment
          /\ SegmentsExclusive'
          /\ \A t \in Stack, j \in SegIdx :
                segments'[t][j] = IF t = s /\ j > segIdx[s] - 1 THEN nil ELSE segments[t][j]
      <4> DEFINE i == segIdx[s] - 1
      <4>1. i \in Int /\ FreeAbove(s, i)
        BY <3>1, <3>2
      <4> HIDE DEF i
      <4>2. /\ segments' \in [Stack -> [SegIdx -> Segment \cup {nil}]]
            /\ pool' \in SUBSET Segment
            /\ SegmentsExclusive'
            /\ \A t \in Stack, j \in SegIdx :
                  segments'[t][j] = IF t = s /\ j > i THEN nil ELSE segments[t][j]
        BY <1>5, <4>1, FreeAboveMemory
      <4> QED
        BY <4>2 DEF i
    <3>4. TypeOK'
      <4>1. segIdx[s] - 1 \in SegIdx /\ FramesPerSegment - 1 \in 0 .. FramesPerSegment
        BY <3>1 DEF MemoryInv, TypeOK, SegIdx
      <4> QED
        BY <1>5, <3>2, <3>3, <4>1 DEF MemoryInv, TypeOK
    <3>5. SegmentsInUse'
      BY <1>5, <3>1, <3>2, <3>3 DEF MemoryInv, TypeOK, SegmentsInUse, SegIdx
    <3> QED
      BY <3>3, <3>4, <3>5 DEF MemoryInv
  <2> QED
    BY <2>1, <2>2 DEF MemoryInv, TypeOK
<1>6. ASSUME NEW s \in Stack, Pop(s)
      PROVE  MemoryInv'
  BY <1>5, <1>6 DEF Pop, MemoryInv, TypeOK
<1>7. ASSUME NEW s \in Stack, NEW sp \in 0 .. Sp(s), SetSp(s, sp)
      PROVE  MemoryInv'
  <2> DEFINE d == sp \div FramesPerSegment
  <2>1. sp \in Nat
    BY SpType DEF MemoryInv
  <2>2. d \in Nat /\ sp % FramesPerSegment \in Slot
    BY <2>1, DivModBack
  <2>3. /\ live[s]
        /\ FreeAbove(s, d)
        /\ segIdx' = [segIdx EXCEPT ![s] = IF @ > d THEN d ELSE @]
        /\ segSp' = [segSp EXCEPT ![s] = sp % FramesPerSegment]
        /\ UNCHANGED <<live, array, overflowed>>
    BY <1>7 DEF SetSp
  <2> HIDE DEF d
  <2>4. /\ segments' \in [Stack -> [SegIdx -> Segment \cup {nil}]]
        /\ pool' \in SUBSET Segment
        /\ SegmentsExclusive'
        /\ \A t \in Stack, j \in SegIdx :
              segments'[t][j] = IF t = s /\ j > d THEN nil ELSE segments[t][j]
    BY <2>2, <2>3, FreeAboveMemory
  <2>5. TypeOK'
    <3>1. segIdx[s] > d => d \in SegIdx
      BY <2>2 DEF MemoryInv, TypeOK, SegIdx
    <3>2. sp % FramesPerSegment \in 0 .. FramesPerSegment
      BY <2>2 DEF Slot
    <3> QED
      BY <2>3, <2>4, <3>1, <3>2 DEF MemoryInv, TypeOK
  <2>6. SegmentsInUse'
    BY <2>2, <2>3, <2>4 DEF MemoryInv, TypeOK, SegmentsInUse, SegIdx
  <2> QED
    BY <2>4, <2>5, <2>6 DEF MemoryInv
<1>8. ASSUME NEW s \in Stack, RemoveCallerFrame(s)
      PROVE  MemoryInv'
  <2> DEFINE parent == Sp(s) - 2
             g == segments[s][parent \div FramesPerSegment]
             k == parent % FramesPerSegment
  <2>1. Sp(s) \in Nat /\ live[s] /\ Sp(s) >= 2
    BY <1>8, SpType DEF MemoryInv, RemoveCallerFrame
  <2>2. parent \in Nat /\ parent + 1 \in Nat /\ parent < Sp(s) /\ parent + 1 < Sp(s)
    BY <2>1
  <2>3. g \in Segment /\ k \in Slot /\ At(s, parent) \in CallFrame /\ At(s, parent + 1) \in CallFrame
    <3> HIDE DEF parent
    <3> QED
      BY <2>1, <2>2, AtType
  <2>4. TailCallFrame(At(s, parent + 1), At(s, parent)) \in CallFrame
    <3> HIDE DEF parent
    <3> QED
      BY <2>3 DEF CallFrame, TailCallFrame
  <2>5. array' = [array EXCEPT ![g][k] = TailCallFrame(At(s, parent + 1), At(s, parent))]
    BY <1>8 DEF RemoveCallerFrame
  <2>6. array' \in [Segment -> [Slot -> CallFrame]]
    <3> HIDE DEF parent, g, k
    <3> QED
      BY <2>3, <2>4, <2>5 DEF MemoryInv, TypeOK
  <2> QED
    BY <1>5, <1>8, <2>1, <2>6 DEF RemoveCallerFrame
<1>9. ASSUME NEW s \in Stack, FreeAll(s)
      PROVE  MemoryInv'
  <2>1. /\ segments' \in [Stack -> [SegIdx -> Segment \cup {nil}]]
        /\ pool' \in SUBSET Segment
        /\ SegmentsExclusive'
        /\ \A t \in Stack, j \in SegIdx :
              segments'[t][j] = IF t = s /\ j > -1 THEN nil ELSE segments[t][j]
    BY <1>9, FreeAboveMemory DEF FreeAll
  <2>2. TypeOK'
    BY <1>9, <2>1 DEF FreeAll, MemoryInv, TypeOK
  <2>3. \A j \in SegIdx : j > -1
    BY DEF SegIdx
  <2>4. SegmentsInUse'
    BY <1>9, <2>1, <2>3 DEF FreeAll, MemoryInv, TypeOK, SegmentsInUse
  <2> QED
    BY <2>1, <2>2, <2>4 DEF MemoryInv
<1>10. ASSUME NEW g \in pool, PoolDrop(g)
       PROVE  MemoryInv'
  BY <1>10 DEF PoolDrop, MemoryInv, TypeOK, SegmentsInUse, SegmentsExclusive
<1>11. CASE UNCHANGED vars
  BY <1>11 DEF vars, MemoryInv, TypeOK, SegmentsInUse, SegmentsExclusive
<1> QED
  BY <1>1, <1>2, <1>3, <1>4, <1>6, <1>7, <1>8, <1>9, <1>10, <1>11 DEF Next

\* TypeOK holds in every reachable state of the stacks and their pool.
THEOREM TypeCorrect == Spec => []TypeOK
<1>1. MemoryInv => TypeOK
  BY DEF MemoryInv
<1> QED
  BY <1>1, MemoryInvInit, MemoryInvStep, PTL DEF Spec

\* SegmentsExclusive holds: however many threads push, pop, unwind and die, a
\* segment of segmentPool never has two owners.
THEOREM Exclusive == Spec => []SegmentsExclusive
<1>1. MemoryInv => SegmentsExclusive
  BY DEF MemoryInv
<1> QED
  BY <1>1, MemoryInvInit, MemoryInvStep, PTL DEF Spec

-----------------------------------------------------------------------------
(***************************************************************************)
(* What each operation does to the frames of every stack                   *)
(***************************************************************************)

\* The frames that stack t had before a step are still there after it.
Kept(t, n) == \A sp \in 0 .. n - 1 : At(t, sp)' = At(t, sp)

\* A stack with room in its last segment has a depth that fits an int16.
LEMMA RoomBelowLimit ==
    ASSUME MemoryInv, NEW s \in Stack, segSp[s] < FramesPerSegment
    PROVE  Int16(Sp(s)) = Sp(s)
<1>1. /\ segIdx[s] \in Nat /\ segSp[s] \in Nat /\ FramesPerSegment \in Nat \ {0}
      /\ NumSegments \in Nat /\ segIdx[s] + 1 =< NumSegments
  BY SizeAssumption, DepthAssumption DEF MemoryInv, TypeOK, SegIdx
<1>2. (segIdx[s] + 1) * FramesPerSegment =< NumSegments * FramesPerSegment
  BY <1>1
<1>3. Sp(s) < NumSegments * FramesPerSegment
  BY <1>1, <1>2 DEF Sp
<1> QED
  BY <1>1, <1>3, DepthAssumption DEF Int16, Sp

\* Push within a segment adds one frame on top, with its position as Idx.
LEMMA PushHereEffect ==
    ASSUME MemoryInv, NEW s \in Stack, NEW f \in Frame, PushHere(s, f)
    PROVE  /\ Sp(s)' = Sp(s) + 1
           /\ \A n \in Nat : n = Sp(s) => At(s, n)' = [fn |-> f, Idx |-> n]
           /\ \A t \in Stack : live[t] => Kept(t, Sp(t))
           /\ \A t \in Stack \ {s} : Sp(t)' = Sp(t)
<1> DEFINE new == [fn |-> f, Idx |-> Int16(Sp(s))]
           g == segments[s][segIdx[s]]
<1>1. /\ segIdx[s] \in SegIdx /\ segIdx[s] \in Nat /\ segSp[s] \in Nat /\ FramesPerSegment \in Nat
      /\ segSp[s] < FramesPerSegment /\ segSp[s] \in Slot /\ live[s]
  BY SizeAssumption, DepthAssumption DEF MemoryInv, TypeOK, SegIdx, Slot, PushHere
<1>2. g \in Segment
  BY <1>1 DEF MemoryInv, TypeOK, SegmentsInUse
<1>3. array' = [array EXCEPT ![g][segSp[s]] = new] /\ UNCHANGED <<segments, segIdx>>
  BY DEF PushHere
<1>4. Sp(s) \div FramesPerSegment = segIdx[s] /\ Sp(s) % FramesPerSegment = segSp[s]
  BY <1>1, DivMod DEF Sp
<1>5. /\ Sp(s)' = Sp(s) + 1
      /\ \A t \in Stack \ {s} : Sp(t)' = Sp(t)
  BY <1>1 DEF Sp, PushHere, MemoryInv, TypeOK
<1>6. ASSUME NEW n, n = Sp(s)
      PROVE  At(s, n)' = new
  BY <1>1, <1>2, <1>3, <1>4, <1>6 DEF At, MemoryInv, TypeOK
<1>7. ASSUME NEW t \in Stack, live[t], NEW sp \in 0 .. Sp(t) - 1
      PROVE  At(t, sp)' = At(t, sp)
  <2> DEFINE i == sp \div FramesPerSegment
             k == sp % FramesPerSegment
  <2>1. sp \in Nat /\ sp < Sp(t)
    BY <1>7, SpType DEF MemoryInv
  <2>2. i \in SegIdx /\ segments[t][i] \in Segment /\ k \in Slot
    BY <1>7, <2>1, AtType
  <2>3. i \in Nat /\ sp = k + i * FramesPerSegment
    BY <2>1, DivModBack
  <2>4. ~(segments[t][i] = g /\ k = segSp[s])
    <3> SUFFICES ASSUME segments[t][i] = g, k = segSp[s]
                 PROVE  FALSE
      OBVIOUS
    <3>1. t = s /\ i = segIdx[s]
      <4> HIDE DEF i
      <4> QED
        BY <1>1, <1>2, <2>2, SizeAssumption DEF MemoryInv, SegmentsExclusive
    <3> QED
      BY <2>1, <2>3, <3>1, SpType DEF Sp, MemoryInv
  <2> HIDE DEF i, k
  <2>5. array'[segments[t][i]][k] = array[segments[t][i]][k]
    BY <1>2, <1>3, <2>2, <2>4 DEF MemoryInv, TypeOK
  <2> QED
    BY <1>3, <2>5 DEF At, i, k
<1>8. \A n \in Nat : n = Sp(s) => At(s, n)' = [fn |-> f, Idx |-> n]
  BY <1>1, <1>6, RoomBelowLimit
<1> QED
  BY <1>5, <1>7, <1>8 DEF Kept

\* Push into a new segment does the same, whatever the pooled segment held.
LEMMA PushNewSegmentEffect ==
    ASSUME MemoryInv, NEW s \in Stack, NEW f \in Frame, PushNewSegment(s, f)
    PROVE  /\ Sp(s)' = Sp(s) + 1
           /\ \A n \in Nat : n = Sp(s) => At(s, n)' = [fn |-> f, Idx |-> n]
           /\ \A t \in Stack : live[t] => Kept(t, Sp(t))
           /\ \A t \in Stack \ {s} : Sp(t)' = Sp(t)
<1> DEFINE top == segIdx[s] + 1
           new == [fn |-> f, Idx |-> Int16(FramesPerSegment * top)]
<1>1. /\ segIdx[s] \in SegIdx /\ segIdx[s] \in Nat /\ segSp[s] = FramesPerSegment
      /\ FramesPerSegment \in Nat \ {0} /\ top \in SegIdx /\ top \in Nat /\ 0 \in Slot
      /\ top + 1 =< NumSegments /\ NumSegments \in Nat
  BY SizeAssumption, DepthAssumption DEF MemoryInv, TypeOK, SegIdx, Slot, PushNewSegment
<1>2. PICK g \in Segment \ Owned :
         /\ segIdx' = [segIdx EXCEPT ![s] = @ + 1]
         /\ segments' = [segments EXCEPT ![s][top] = g]
         /\ array' = [array EXCEPT ![g] = [k \in Slot |->
                        IF k = 0 THEN new
                        ELSE IF g \in pool THEN array[g][k] ELSE ZeroFrame]]
         /\ segSp' = [segSp EXCEPT ![s] = 1]
  BY DEF PushNewSegment
<1>3. Sp(s) = FramesPerSegment * top /\ Sp(s) = 0 + top * FramesPerSegment
  <2>1. /\ (segIdx[s] + 1) * FramesPerSegment = FramesPerSegment + segIdx[s] * FramesPerSegment
        /\ FramesPerSegment * (segIdx[s] + 1) = FramesPerSegment + segIdx[s] * FramesPerSegment
        /\ segIdx[s] * FramesPerSegment \in Nat
    BY <1>1, NextMultiple
  <2> QED
    BY <1>1, <2>1 DEF Sp
<1>4. Sp(s) \div FramesPerSegment = top /\ Sp(s) % FramesPerSegment = 0
  <2> HIDE DEF top
  <2>1. 0 \in Nat /\ 0 < FramesPerSegment
    BY <1>1
  <2>2. /\ (0 + top * FramesPerSegment) \div FramesPerSegment = top
        /\ (0 + top * FramesPerSegment) % FramesPerSegment = 0
    BY <1>1, <2>1, DivMod
  <2> QED
    BY <1>3, <2>2
<1>5. /\ Sp(s)' = Sp(s) + 1
      /\ \A t \in Stack \ {s} : Sp(t)' = Sp(t)
  BY <1>1, <1>2, <1>3 DEF Sp, MemoryInv, TypeOK
<1>6. Int16(FramesPerSegment * top) = Sp(s)
  <2>1. FramesPerSegment * (top + 1) =< FramesPerSegment * NumSegments
    BY <1>1
  <2>2. FramesPerSegment * top < FramesPerSegment * NumSegments
    BY <1>1, <2>1
  <2> QED
    BY <1>1, <1>3, <2>2, DepthAssumption DEF Int16
<1>7. ASSUME NEW n \in Nat, n = Sp(s)
      PROVE  At(s, n)' = [fn |-> f, Idx |-> n]
  <2>1. segments'[s][top] = g
    BY <1>1, <1>2 DEF MemoryInv, TypeOK
  <2>2. array'[g][0] = new
    BY <1>1, <1>2 DEF MemoryInv, TypeOK
  <2> QED
    BY <1>4, <1>6, <1>7, <2>1, <2>2 DEF At
<1>8. ASSUME NEW t \in Stack, live[t], NEW sp \in 0 .. Sp(t) - 1
      PROVE  At(t, sp)' = At(t, sp)
  <2> DEFINE i == sp \div FramesPerSegment
             k == sp % FramesPerSegment
  <2>1. sp \in Nat /\ sp < Sp(t)
    BY <1>8, SpType DEF MemoryInv
  <2>2. i \in SegIdx /\ i =< segIdx[t] /\ segments[t][i] \in Segment /\ k \in Slot
    BY <1>8, <2>1, AtType
  <2> HIDE DEF i, k
  <2>3. segments[t][i] # g /\ i \in Int
    BY <2>2, SizeAssumption DEF Owned, SegIdx
  <2>4. segments'[t][i] = segments[t][i]
    BY <1>1, <1>2, <2>2, <2>3 DEF MemoryInv, TypeOK
  <2>5. array'[segments[t][i]] = array[segments[t][i]]
    BY <1>2, <2>2, <2>3 DEF MemoryInv, TypeOK
  <2> QED
    BY <2>4, <2>5 DEF At, i, k
<1> QED
  BY <1>5, <1>7, <1>8 DEF Kept

\* Leaving the top frame lowers Sp by one and no other stack's, also when it steps
\* back over a segment boundary.
LEMMA LeaveTopFrameEffect ==
    ASSUME MemoryInv, NEW s \in Stack, live[s], Sp(s) > 0, LeaveTopFrame(s)
    PROVE  /\ Sp(s)' = Sp(s) - 1
           /\ \A t \in Stack \ {s} : Sp(t)' = Sp(t)
           /\ \A t \in Stack : live[t] => \A sp \in 0 .. Sp(t) - 1 :
                 (t = s => sp < Sp(s) - 1)
                 => segments'[t][sp \div FramesPerSegment] = segments[t][sp \div FramesPerSegment]
<1>1. /\ segIdx[s] \in SegIdx /\ segIdx[s] \in Nat /\ segSp[s] \in Nat
      /\ FramesPerSegment \in Nat \ {0}
  BY SizeAssumption, DepthAssumption DEF MemoryInv, TypeOK, SegIdx
<1>2. CASE segSp[s] > 0
  BY <1>1, <1>2 DEF LeaveTopFrame, Sp, MemoryInv, TypeOK
<1>3. CASE segSp[s] = 0
  <2>1. /\ FreeAbove(s, segIdx[s] - 1)
        /\ segIdx' = [segIdx EXCEPT ![s] = @ - 1]
        /\ segSp' = [segSp EXCEPT ![s] = FramesPerSegment - 1]
    BY <1>3 DEF LeaveTopFrame
  <2>2. Sp(s)' = Sp(s) - 1 /\ \A t \in Stack \ {s} : Sp(t)' = Sp(t)
    BY <1>1, <1>3, <2>1 DEF Sp, MemoryInv, TypeOK
  <2>3. ASSUME NEW t \in Stack, live[t], NEW sp \in 0 .. Sp(t) - 1, t = s => sp < Sp(s) - 1
        PROVE  segments'[t][sp \div FramesPerSegment] = segments[t][sp \div FramesPerSegment]
    <3> DEFINE i == sp \div FramesPerSegment
    <3>1. sp \in Nat /\ sp < Sp(t)
      BY <2>3, SpType DEF MemoryInv
    <3>2. i \in SegIdx /\ i \in Int
      BY <2>3, <3>1, AtType DEF SegIdx
    <3>3. t = s => i < segIdx[s]
      <4> SUFFICES ASSUME t = s PROVE i < segIdx[s]
        OBVIOUS
      <4>1. sp < segIdx[s] * FramesPerSegment
        BY <1>1, <1>3, <2>3, <3>1 DEF Sp
      <4> QED
        BY <1>1, <3>1, <4>1, SegmentOf
    <3> HIDE DEF i
    <3>4. segments'[t][i] = segments[t][i]
      BY <1>1, <2>1, <3>2, <3>3 DEF FreeAbove, MemoryInv, TypeOK
    <3> QED
      BY <3>4 DEF i
  <2> QED
    BY <2>2, <2>3
<1> QED
  BY <1>1, <1>2, <1>3

\* Unwinding keeps the frames below the depth it reaches, and reaches the
\* depth asked for unless the stack is already there with a full segment.
LEMMA SetSpEffect ==
    ASSUME MemoryInv, NEW s \in Stack, NEW sp \in 0 .. Sp(s), SetSp(s, sp)
    PROVE  /\ Sp(s)' =< sp
           /\ Sp(s)' \in Nat
           /\ ~UnwindInPlace => Sp(s)' = sp
           /\ \A t \in Stack \ {s} : Sp(t)' = Sp(t)
           /\ \A t \in Stack \ {s} : live[t] => Kept(t, Sp(t))
           /\ Kept(s, sp)
<1> DEFINE d == sp \div FramesPerSegment
<1>1. /\ segIdx[s] \in SegIdx /\ segIdx[s] \in Nat /\ segSp[s] \in 0 .. FramesPerSegment
      /\ FramesPerSegment \in Nat \ {0} /\ sp \in Nat /\ Sp(s) \in Nat /\ live[s] /\ sp =< Sp(s)
  BY SizeAssumption, DepthAssumption, SpType DEF MemoryInv, TypeOK, SegIdx, SetSp
<1>2. d \in Nat /\ sp % FramesPerSegment \in Slot /\ sp % FramesPerSegment \in Nat
      /\ sp = (sp % FramesPerSegment) + d * FramesPerSegment
  BY <1>1, DivModBack DEF Slot
<1>3. /\ FreeAbove(s, d)
      /\ segIdx' = [segIdx EXCEPT ![s] = IF @ > d THEN d ELSE @]
      /\ segSp' = [segSp EXCEPT ![s] = sp % FramesPerSegment]
      /\ UNCHANGED <<live, array, overflowed>>
      /\ UnwindInPlace \/ sp < Sp(s) \/ segSp[s] < FramesPerSegment
  BY DEF SetSp
<1>4. \A t \in Stack \ {s} : Sp(t)' = Sp(t)
  BY <1>3 DEF Sp, MemoryInv, TypeOK
<1>5. Sp(s)' = (sp % FramesPerSegment) + (IF segIdx[s] > d THEN d ELSE segIdx[s]) * FramesPerSegment
  BY <1>3 DEF Sp, MemoryInv, TypeOK
<1> HIDE DEF d
<1>6. Sp(s)' =< sp /\ Sp(s)' \in Nat
  <2>1. CASE segIdx[s] >= d
    BY <1>1, <1>2, <1>5, <2>1
  <2>2. CASE segIdx[s] < d
    <3>1. segIdx[s] * FramesPerSegment =< d * FramesPerSegment /\ segIdx[s] * FramesPerSegment \in Nat
      BY <1>1, <1>2, <2>2
    <3> QED
      BY <1>1, <1>2, <1>5, <2>2, <3>1
  <2> QED
    BY <1>1, <1>2, <2>1, <2>2
<1>7. ASSUME ~UnwindInPlace
      PROVE  Sp(s)' = sp
  <2>1. d =< segIdx[s]
    <3> SUFFICES ASSUME d > segIdx[s] PROVE FALSE
      BY <1>1, <1>2
    <3>1. d * FramesPerSegment >= (segIdx[s] + 1) * FramesPerSegment
      BY <1>1, <1>2
    <3>2. sp >= segIdx[s] * FramesPerSegment + FramesPerSegment
      BY <1>1, <1>2, <3>1
    <3>3. Sp(s) =< segIdx[s] * FramesPerSegment + FramesPerSegment
      BY <1>1 DEF Sp
    <3>4. segSp[s] = FramesPerSegment /\ sp = Sp(s)
      BY <1>1, <3>2, <3>3 DEF Sp
    <3> QED
      BY <1>1, <1>3, <1>7, <3>4
  <2>2. segIdx[s] \in Nat /\ d \in Nat
    BY <1>1, <1>2
  <2>3. (IF segIdx[s] > d THEN d ELSE segIdx[s]) = d
    BY <2>1, <2>2
  <2> QED
    BY <1>2, <1>5, <2>3
<1>8. ASSUME NEW t \in Stack, live[t], NEW n \in 0 .. Sp(t) - 1, t = s => n < sp
      PROVE  At(t, n)' = At(t, n)
  <2> DEFINE i == n \div FramesPerSegment
  <2>1. n \in Nat /\ n < Sp(t)
    BY <1>8, SpType DEF MemoryInv
  <2>2. i \in SegIdx /\ i \in Nat
    BY <1>8, <2>1, AtType DEF SegIdx
  <2>3. t = s => i =< d
    <3> SUFFICES ASSUME t = s PROVE i < d + 1
      BY <1>2, <2>2
    <3>1. n < (d + 1) * FramesPerSegment
      BY <1>1, <1>2, <1>8, <2>1 DEF Slot
    <3> QED
      BY <1>2, <2>1, <3>1, SegmentOf
  <2> HIDE DEF i
  <2>4. segments'[t][i] = segments[t][i]
    BY <1>2, <1>3, <2>2, <2>3 DEF FreeAbove, MemoryInv, TypeOK
  <2> QED
    BY <1>3, <2>4 DEF At, i
<1>9. Kept(s, sp)
  BY <1>1, <1>8 DEF Kept
<1> QED
  BY <1>4, <1>6, <1>7, <1>8, <1>9 DEF Kept

\* removeCallerFrame puts the top frame in its caller's place, with the caller's Idx.
LEMMA RemoveCallerFrameEffect ==
    ASSUME MemoryInv, NEW s \in Stack, RemoveCallerFrame(s)
    PROVE  /\ Sp(s)' = Sp(s) - 1
           /\ \A n \in Nat : n = Sp(s) - 2 =>
                 At(s, n)' = TailCallFrame(At(s, n + 1), At(s, n))
           /\ Kept(s, Sp(s) - 2)
           /\ \A t \in Stack \ {s} : Sp(t)' = Sp(t)
           /\ \A t \in Stack \ {s} : live[t] => Kept(t, Sp(t))
<1>1. Sp(s) \in Nat /\ live[s] /\ Sp(s) >= 2 /\ Sp(s) > 0 /\ LeaveTopFrame(s)
  BY SpType DEF MemoryInv, RemoveCallerFrame
<1>2. PICK parent \in Nat : parent = Sp(s) - 2
  BY <1>1
<1> DEFINE g == segments[s][parent \div FramesPerSegment]
           k == parent % FramesPerSegment
           new == TailCallFrame(At(s, parent + 1), At(s, parent))
<1>3. array' = [array EXCEPT ![g][k] = new]
  BY <1>2 DEF RemoveCallerFrame
<1>4. parent < Sp(s) /\ g \in Segment /\ k \in Slot /\ parent \div FramesPerSegment \in SegIdx
  BY <1>1, <1>2, AtType
<1>5. /\ Sp(s)' = Sp(s) - 1
      /\ \A t \in Stack \ {s} : Sp(t)' = Sp(t)
      /\ \A t \in Stack : live[t] => \A sp \in 0 .. Sp(t) - 1 :
            (t = s => sp < Sp(s) - 1)
            => segments'[t][sp \div FramesPerSegment] = segments[t][sp \div FramesPerSegment]
  BY <1>1, LeaveTopFrameEffect
<1>6. At(s, parent)' = new
  <2>1. segments'[s][parent \div FramesPerSegment] = g
    BY <1>1, <1>2, <1>4, <1>5
  <2>2. array'[g][k] = new
    <3> HIDE DEF g, k, new
    <3> QED
      BY <1>3, <1>4 DEF MemoryInv, TypeOK
  <2> QED
    BY <2>1, <2>2 DEF At
<1>7. ASSUME NEW t \in Stack, live[t], NEW sp \in 0 .. Sp(t) - 1, t = s => sp < parent
      PROVE  At(t, sp)' = At(t, sp)
  <2> DEFINE i == sp \div FramesPerSegment
             j == sp % FramesPerSegment
  <2>1. sp \in Nat /\ sp < Sp(t)
    BY <1>7, SpType DEF MemoryInv
  <2>2. i \in SegIdx /\ segments[t][i] \in Segment /\ j \in Slot
    BY <1>7, <2>1, AtType
  <2>3. sp = j + i * FramesPerSegment /\ parent = k + (parent \div FramesPerSegment) * FramesPerSegment
    BY <1>2, <2>1, DivModBack
  <2>4. ~(segments[t][i] = g /\ j = k)
    <3> SUFFICES ASSUME segments[t][i] = g, j = k
                 PROVE  FALSE
      OBVIOUS
    <3>1. t = s /\ i = parent \div FramesPerSegment
      <4> HIDE DEF i
      <4> QED
        BY <1>4, <2>2, SizeAssumption DEF MemoryInv, SegmentsExclusive
    <3> QED
      BY <1>2, <1>7, <2>1, <2>3, <3>1
  <2>5. segments'[t][i] = segments[t][i]
    BY <1>1, <1>2, <1>5, <1>7, <2>1
  <2>6. array'[segments[t][i]][j] = array[segments[t][i]][j]
    <3> HIDE DEF g, k, i, j, new
    <3> QED
      BY <1>3, <1>4, <2>2, <2>4 DEF MemoryInv, TypeOK
  <2> HIDE DEF i, j
  <2> QED
    BY <2>5, <2>6 DEF At, i, j
<1>8. Kept(s, Sp(s) - 2)
  BY <1>1, <1>2, <1>7 DEF Kept
<1>9. \A t \in Stack \ {s} : live[t] => Kept(t, Sp(t))
  BY <1>7 DEF Kept
<1> QED
  BY <1>2, <1>5, <1>6, <1>8, <1>9

\* Pop takes off the top frame and keeps all others.
LEMMA PopEffect ==
    ASSUME MemoryInv, NEW s \in Stack, Pop(s)
    PROVE  /\ Sp(s)' = Sp(s) - 1
           /\ Kept(s, Sp(s) - 1)
           /\ \A t \in Stack \ {s} : Sp(t)' = Sp(t)
           /\ \A t \in Stack \ {s} : live[t] => Kept(t, Sp(t))
<1>1. Sp(s) \in Nat /\ live[s] /\ Sp(s) > 0 /\ LeaveTopFrame(s) /\ UNCHANGED array
  BY SpType DEF MemoryInv, Pop
<1>2. /\ Sp(s)' = Sp(s) - 1
      /\ \A t \in Stack \ {s} : Sp(t)' = Sp(t)
      /\ \A t \in Stack : live[t] => \A sp \in 0 .. Sp(t) - 1 :
            (t = s => sp < Sp(s) - 1)
            => segments'[t][sp \div FramesPerSegment] = segments[t][sp \div FramesPerSegment]
  BY <1>1, LeaveTopFrameEffect
<1>3. ASSUME NEW t \in Stack, live[t], NEW sp \in 0 .. Sp(t) - 1, t = s => sp < Sp(s) - 1
      PROVE  At(t, sp)' = At(t, sp)
  BY <1>1, <1>2, <1>3 DEF At
<1> QED
  BY <1>1, <1>2, <1>3 DEF Kept

\* Every other step leaves the frames of every live stack as they were.
LEMMA OtherEffect ==
    ASSUME MemoryInv, NEW s \in Stack,
           New(s) \/ PushOverflow(s) \/ FreeAll(s) \/ (\E g \in pool : PoolDrop(g)) \/ UNCHANGED vars
    PROVE  /\ \A t \in Stack : live[t] /\ live'[t] => Sp(t)' = Sp(t) /\ Kept(t, Sp(t))
           /\ \A t \in Stack : ~live[t] /\ live'[t] => Sp(t)' = 0
<1>1. CASE New(s)
  <2> PICK g \in Segment :
         /\ ~live[s]
         /\ NewCallFrameStackSegment(g)
         /\ live' = [live EXCEPT ![s] = TRUE]
         /\ segments' = [segments EXCEPT ![s] = [i \in SegIdx |-> IF i = 0 THEN g ELSE nil]]
         /\ segIdx' = [segIdx EXCEPT ![s] = 0]
         /\ segSp' = [segSp EXCEPT ![s] = 0]
    BY <1>1 DEF New
  <2>1. Sp(s)' = 0
    BY SizeAssumption DEF Sp, MemoryInv, TypeOK
  <2>2. \A t \in Stack \ {s} : Sp(t)' = Sp(t) /\ segments'[t] = segments[t] /\ live'[t] = live[t]
    BY DEF Sp, MemoryInv, TypeOK
  <2>3. ASSUME NEW t \in Stack \ {s}, live[t], NEW sp \in 0 .. Sp(t) - 1
        PROVE  At(t, sp)' = At(t, sp)
    <3> DEFINE i == sp \div FramesPerSegment
    <3>1. sp \in Nat /\ sp < Sp(t)
      BY SpType DEF MemoryInv
    <3>2. i \in SegIdx /\ segments[t][i] \in Segment
      BY <2>3, <3>1, AtType
    <3> HIDE DEF i
    <3>3. segments[t][i] # g
      BY <3>2, SizeAssumption DEF NewCallFrameStackSegment, Owned
    <3>4. array'[segments[t][i]] = array[segments[t][i]]
      BY <3>2, <3>3 DEF NewCallFrameStackSegment, MemoryInv, TypeOK
    <3> QED
      BY <2>2, <3>4 DEF At, i
  <2> QED
    BY <2>1, <2>2, <2>3 DEF Kept
<1>2. CASE FreeAll(s)
  <2>1. \A t \in Stack : live[t] /\ live'[t] => t # s
    BY <1>2 DEF FreeAll, MemoryInv, TypeOK
  <2>2. \A t \in Stack \ {s} : segments'[t] = segments[t]
    BY <1>2 DEF FreeAll, FreeAbove, MemoryInv, TypeOK
  <2>3. UNCHANGED <<segIdx, segSp, array>> /\ \A t \in Stack : live'[t] => live[t]
    BY <1>2 DEF FreeAll, MemoryInv, TypeOK
  <2> QED
    BY <2>1, <2>2, <2>3 DEF Kept, At, Sp
<1>3. CASE PushOverflow(s) \/ (\E g \in pool : PoolDrop(g)) \/ UNCHANGED vars
  BY <1>3 DEF PushOverflow, PoolDrop, vars, Kept, At, Sp
<1> QED
  BY <1>1, <1>2, <1>3

-----------------------------------------------------------------------------
(***************************************************************************)
(* Frame indices                                                           *)
(***************************************************************************)

\* Every step keeps the frames' indices equal to their positions.
LEMMA FrameIdxStep ==
    ASSUME MemoryInv, FrameIdxIsPosition, [Next]_vars
    PROVE  FrameIdxIsPosition'
<1> SUFFICES ASSUME NEW t \in Stack, live'[t], NEW sp \in 0 .. Sp(t)' - 1
             PROVE  (At(t, sp).Idx)' = sp
  BY DEF FrameIdxIsPosition
<1>1. Sp(t) \in Nat
  BY SpType DEF MemoryInv
<1>2. \A n \in 0 .. Sp(t) - 1 : live[t] => At(t, n).Idx = n
  BY DEF FrameIdxIsPosition
<1>3. ASSUME NEW s \in Stack, NEW f \in Frame, PushHere(s, f) \/ PushNewSegment(s, f)
      PROVE  (At(t, sp).Idx)' = sp
  <2>1. /\ Sp(s)' = Sp(s) + 1
        /\ \A n \in Nat : n = Sp(s) => At(s, n)' = [fn |-> f, Idx |-> n]
        /\ \A u \in Stack : live[u] => Kept(u, Sp(u))
        /\ \A u \in Stack \ {s} : Sp(u)' = Sp(u)
    BY <1>3, PushHereEffect, PushNewSegmentEffect
  <2>2. live[t]
    BY <1>3 DEF PushHere, PushNewSegment
  <2>3. CASE sp \in 0 .. Sp(t) - 1
    BY <1>2, <2>1, <2>2, <2>3 DEF Kept
  <2>4. CASE sp \notin 0 .. Sp(t) - 1
    <3>1. t = s /\ sp = Sp(s) /\ sp \in Nat
      BY <1>1, <2>1, <2>4
    <3> QED
      BY <2>1, <3>1
  <2> QED
    BY <2>3, <2>4
<1>4. ASSUME NEW s \in Stack, Pop(s)
      PROVE  (At(t, sp).Idx)' = sp
  <2>1. /\ Sp(s)' = Sp(s) - 1
        /\ Kept(s, Sp(s) - 1)
        /\ \A u \in Stack \ {s} : Sp(u)' = Sp(u)
        /\ \A u \in Stack \ {s} : live[u] => Kept(u, Sp(u))
    BY <1>4, PopEffect
  <2>2. live[t]
    BY <1>4 DEF Pop
  <2>3. sp \in 0 .. Sp(t) - 1 /\ At(t, sp)' = At(t, sp)
    BY <1>1, <2>1, <2>2 DEF Kept
  <2> QED
    BY <1>2, <2>2, <2>3
<1>5. ASSUME NEW s \in Stack, NEW d \in 0 .. Sp(s), SetSp(s, d)
      PROVE  (At(t, sp).Idx)' = sp
  <2>1. /\ Sp(s)' =< d
        /\ Sp(s)' \in Nat
        /\ \A u \in Stack \ {s} : Sp(u)' = Sp(u)
        /\ \A u \in Stack \ {s} : live[u] => Kept(u, Sp(u))
        /\ Kept(s, d)
    BY <1>5, SetSpEffect
  <2>2. live[t] /\ d =< Sp(s) /\ d \in Int
    BY <1>5 DEF SetSp
  <2>3. sp \in 0 .. Sp(t) - 1 /\ At(t, sp)' = At(t, sp)
    BY <1>1, <2>1, <2>2 DEF Kept
  <2> QED
    BY <1>2, <2>2, <2>3
<1>6. ASSUME NEW s \in Stack, RemoveCallerFrame(s)
      PROVE  (At(t, sp).Idx)' = sp
  <2>1. /\ Sp(s)' = Sp(s) - 1
        /\ \A n \in Nat : n = Sp(s) - 2 =>
              At(s, n)' = TailCallFrame(At(s, n + 1), At(s, n))
        /\ Kept(s, Sp(s) - 2)
        /\ \A u \in Stack \ {s} : Sp(u)' = Sp(u)
        /\ \A u \in Stack \ {s} : live[u] => Kept(u, Sp(u))
    BY <1>6, RemoveCallerFrameEffect
  <2>2. live[t] /\ live[s] /\ Sp(s) >= 2 /\ Sp(s) \in Nat
    BY <1>6, SpType DEF RemoveCallerFrame, MemoryInv
  <2>3. CASE t = s /\ sp = Sp(s) - 2
    <3>1. sp \in Nat /\ sp + 1 \in Nat /\ sp + 1 < Sp(s) /\ sp \in 0 .. Sp(t) - 1
      BY <2>2, <2>3
    <3>2. At(s, sp + 1) \in CallFrame
      BY <2>2, <3>1, AtType
    <3>3. At(s, sp)' = TailCallFrame(At(s, sp + 1), At(s, sp))
      BY <2>1, <2>3, <3>1
    <3>4. At(s, sp).Idx = sp
      BY <1>2, <2>2, <2>3, <3>1
    <3> QED
      BY <2>3, <3>2, <3>3, <3>4 DEF CallFrame, TailCallFrame
  <2>4. CASE ~(t = s /\ sp = Sp(s) - 2)
    <3>1. sp \in 0 .. Sp(t) - 1 /\ At(t, sp)' = At(t, sp)
      BY <1>1, <2>1, <2>2, <2>4 DEF Kept
    <3> QED
      BY <1>2, <2>2, <3>1
  <2> QED
    BY <2>3, <2>4
<1>7. ASSUME NEW s \in Stack,
             New(s) \/ PushOverflow(s) \/ FreeAll(s) \/ (\E g \in pool : PoolDrop(g)) \/ UNCHANGED vars
      PROVE  (At(t, sp).Idx)' = sp
  <2>1. /\ live[t] => Sp(t)' = Sp(t) /\ Kept(t, Sp(t))
        /\ ~live[t] => Sp(t)' = 0
    BY <1>7, OtherEffect DEF MemoryInv, TypeOK
  <2>2. live[t] /\ sp \in 0 .. Sp(t) - 1
    BY <2>1 DEF MemoryInv, TypeOK
  <2> QED
    BY <1>2, <2>1, <2>2 DEF Kept
<1> QED
  BY <1>3, <1>4, <1>5, <1>6, <1>7 DEF Next

\* FrameIdxIsPosition holds: every frame knows its own position, which is what
\* ParentOf and the frame extension table rely on.
THEOREM FrameIndices == Spec => []FrameIdxIsPosition
<1>1. Init => FrameIdxIsPosition
  BY DEF Init, FrameIdxIsPosition
<1>2. MemoryInv /\ FrameIdxIsPosition /\ [Next]_vars => FrameIdxIsPosition'
  BY FrameIdxStep
<1> QED
  BY <1>1, <1>2, MemoryInvInit, MemoryInvStep, PTL DEF Spec

-----------------------------------------------------------------------------
(***************************************************************************)
(* Refinement of FrameStack                                                *)
(***************************************************************************)

Content == [s \in Stack |-> FramesOf(s)]
Payload == Frame \cup {nil}

\* The abstract value of a live stack is a sequence of Sp payloads.
LEMMA FramesOfLive ==
    ASSUME MemoryInv, NEW s \in Stack, live[s]
    PROVE  /\ FramesOf(s) \in Seq(Payload)
           /\ Len(FramesOf(s)) = Sp(s)
           /\ \A i \in 1 .. Sp(s) : FramesOf(s)[i] = At(s, i - 1).fn
<1>1. Sp(s) \in Nat
  BY SpType DEF MemoryInv
<1>2. ASSUME NEW i \in 1 .. Sp(s)
      PROVE  At(s, i - 1).fn \in Payload
  <2>1. i - 1 \in Nat /\ i - 1 < Sp(s)
    BY <1>1
  <2>2. At(s, i - 1) \in CallFrame
    BY <2>1, AtType
  <2> QED
    BY <2>2 DEF CallFrame, Payload
<1>3. FramesOf(s) \in [1 .. Sp(s) -> Payload]
  BY <1>2 DEF FramesOf
<1> QED
  BY <1>1, <1>3 DEF FramesOf

\* After a step, a sequence is the content of a stack when it agrees with it
\* frame by frame.
LEMMA FramesOfBecomes ==
    ASSUME NEW s \in Stack, live'[s], NEW q \in Seq(Payload), Sp(s)' = Len(q),
           \A n \in 0 .. Len(q) - 1 : (At(s, n)').fn = q[n + 1]
    PROVE  FramesOf(s)' = q
<1>1. Len(q) \in Nat
  BY LenProperties
<1>2. FramesOf(s)' = [i \in 1 .. Len(q) |-> (At(s, i - 1)').fn]
  BY DEF FramesOf
<1>3. \A i \in 1 .. Len(q) : (At(s, i - 1)').fn = q[i]
  <2> TAKE i \in 1 .. Len(q)
  <2>1. i - 1 \in 0 .. Len(q) - 1 /\ (i - 1) + 1 = i
    BY <1>1
  <2> QED
    BY <2>1
<1>4. \A i \in 1 .. Len(q) : q[i] \in Payload
  BY ElementOfSeq
<1>5. FramesOf(s)' \in [1 .. Len(q) -> Payload] /\ \A i \in 1 .. Len(q) : FramesOf(s)'[i] = q[i]
  BY <1>2, <1>3, <1>4
<1>6. FramesOf(s)' \in Seq(Payload) /\ Len(FramesOf(s)') = Len(q)
  BY <1>1, <1>5
<1> QED
  BY <1>5, <1>6, SeqEqual

\* A stack that is not live is the empty sequence.
LEMMA FramesOfDead ==
    ASSUME NEW s \in Stack, ~live[s]
    PROVE  FramesOf(s) = <<>>
BY DEF FramesOf

\* A stack whose depth and frames are kept keeps its abstract value.
LEMMA FramesOfKept ==
    ASSUME MemoryInv, MemoryInv', NEW s \in Stack, live'[s] = live[s],
           live[s] => Sp(s)' = Sp(s) /\ Kept(s, Sp(s))
    PROVE  FramesOf(s)' = FramesOf(s)
<1>1. CASE live[s]
  <2>1. Sp(s) \in Nat /\ live'[s] /\ Sp(s)' = Sp(s)
    BY <1>1, SpType DEF MemoryInv
  <2>2. \A i \in 1 .. Sp(s) : i - 1 \in 0 .. Sp(s) - 1
    BY <2>1
  <2>3. \A i \in 1 .. Sp(s) : At(s, i - 1)' = At(s, i - 1)
    BY <1>1, <2>2 DEF Kept
  <2> QED
    BY <1>1, <2>1, <2>3 DEF FramesOf
<1>2. CASE ~live[s]
  BY <1>2, FramesOfDead DEF FramesOf
<1> QED
  BY <1>1, <1>2

\* If only one stack's frames change, so does the abstract function, at it.
LEMMA ContentExcept ==
    ASSUME NEW s \in Stack, NEW q,
           \A t \in Stack \ {s} : FramesOf(t)' = FramesOf(t), FramesOf(s)' = q
    PROVE  Content' = [Content EXCEPT ![s] = q]
BY DEF Content

\* Either Push is a push of the abstract stack.
LEMMA PushRefines ==
    ASSUME MemoryInv, MemoryInv', NEW s \in Stack, NEW f \in Frame,
           PushHere(s, f) \/ PushNewSegment(s, f)
    PROVE  Abstract!Push(s, f)
<1>1. /\ Sp(s)' = Sp(s) + 1
      /\ \A n \in Nat : n = Sp(s) => At(s, n)' = [fn |-> f, Idx |-> n]
      /\ \A t \in Stack : live[t] => Kept(t, Sp(t))
      /\ \A t \in Stack \ {s} : Sp(t)' = Sp(t)
  BY PushHereEffect, PushNewSegmentEffect
<1>2. /\ live[s] /\ live' = live
      /\ overflowed' = [overflowed EXCEPT ![s] = FALSE]
  BY DEF PushHere, PushNewSegment
<1>3. Sp(s) \in Nat
  BY SpType DEF MemoryInv
<1>4. Sp(s) < FramesPerSegment * NumSegments
  <2>1. Sp(s)' \in Nat /\ segIdx'[s] \in Nat /\ segSp'[s] \in Nat /\ FramesPerSegment \in Nat
        /\ NumSegments \in Nat /\ segIdx'[s] + 1 =< NumSegments /\ segSp'[s] =< FramesPerSegment
    BY <1>1, <1>3, SizeAssumption, DepthAssumption DEF MemoryInv, TypeOK, SegIdx
  <2>2. FramesPerSegment * (segIdx'[s] + 1) =< FramesPerSegment * NumSegments
    BY <2>1
  <2>3. Sp(s)' =< FramesPerSegment * (segIdx'[s] + 1)
    BY <2>1, NextMultiple DEF Sp
  <2> QED
    BY <1>1, <1>3, <2>1, <2>2, <2>3
<1>5. \A t \in Stack \ {s} : FramesOf(t)' = FramesOf(t)
  BY <1>1, <1>2, FramesOfKept
<1>6. FramesOf(s)' = Append(FramesOf(s), f)
  <2> DEFINE q == Append(FramesOf(s), f)
  <2>1. /\ FramesOf(s) \in Seq(Payload)
        /\ Len(FramesOf(s)) = Sp(s)
        /\ \A i \in 1 .. Sp(s) : FramesOf(s)[i] = At(s, i - 1).fn
    BY <1>2, FramesOfLive
  <2>2. f \in Payload
    BY DEF Payload
  <2>3. /\ q \in Seq(Payload) /\ Len(q) = Sp(s) + 1
        /\ \A i \in 1 .. Sp(s) : q[i] = FramesOf(s)[i]
        /\ q[Sp(s) + 1] = f
    BY <1>3, <2>1, <2>2, AppendProperties
  <2> HIDE DEF q
  <2>4. ASSUME NEW n \in 0 .. Sp(s)
        PROVE  (At(s, n)').fn = q[n + 1]
    <3>1. CASE n = Sp(s)
      BY <1>1, <1>3, <2>3, <3>1
    <3>2. CASE n # Sp(s)
      <4>1. n \in 0 .. Sp(s) - 1 /\ n + 1 \in 1 .. Sp(s) /\ (n + 1) - 1 = n
        BY <1>3, <3>2
      <4>2. q[n + 1] = At(s, (n + 1) - 1).fn
        BY <2>1, <2>3, <4>1
      <4> QED
        BY <1>1, <1>2, <4>1, <4>2 DEF Kept
    <3> QED
      BY <3>1, <3>2
  <2>5. FramesOf(s)' = q
    BY <1>1, <1>2, <1>3, <2>3, <2>4, FramesOfBecomes
  <2> QED
    BY <2>5 DEF q
<1>7. Content' = [Content EXCEPT ![s] = Append(FramesOf(s), f)]
  BY <1>5, <1>6, ContentExcept
<1>8. Content[s] = FramesOf(s) /\ Len(FramesOf(s)) = Sp(s)
  BY <1>2, FramesOfLive DEF Content
<1> QED
  BY <1>2, <1>4, <1>7, <1>8 DEF Abstract!Push, Content

\* A step that cuts stack s down to its first n frames.
LEMMA CutRefines ==
    ASSUME MemoryInv, MemoryInv', NEW s \in Stack, live[s], live' = live,
           NEW n \in 0 .. Sp(s), Sp(s)' = n, Kept(s, n),
           \A t \in Stack \ {s} : Sp(t)' = Sp(t) /\ (live[t] => Kept(t, Sp(t)))
    PROVE  /\ Content' = [Content EXCEPT ![s] = SubSeq(Content[s], 1, n)]
           /\ Len(Content[s]) = Sp(s)
<1>1. Sp(s) \in Nat
  BY SpType DEF MemoryInv
<1>2. /\ FramesOf(s) \in Seq(Payload)
      /\ Len(FramesOf(s)) = Sp(s)
      /\ \A i \in 1 .. Sp(s) : FramesOf(s)[i] = At(s, i - 1).fn
  BY FramesOfLive
<1> DEFINE q == SubSeq(FramesOf(s), 1, n)
<1>3. /\ q \in Seq(Payload) /\ Len(q) = n
      /\ \A i \in 1 .. n : q[i] = FramesOf(s)[i]
  BY <1>1, <1>2
<1> HIDE DEF q
<1>4. \A k \in 0 .. Len(q) - 1 : (At(s, k)').fn = q[k + 1]
  <2> TAKE k \in 0 .. Len(q) - 1
  <2>1. k \in 0 .. n - 1 /\ k + 1 \in 1 .. n /\ k + 1 \in 1 .. Sp(s) /\ (k + 1) - 1 = k
    BY <1>1, <1>3
  <2>2. q[k + 1] = At(s, (k + 1) - 1).fn
    BY <1>2, <1>3, <2>1
  <2> QED
    BY <2>1, <2>2 DEF Kept
<1>5. FramesOf(s)' = q
  BY <1>3, <1>4, FramesOfBecomes
<1>6. \A t \in Stack \ {s} : FramesOf(t)' = FramesOf(t)
  BY FramesOfKept
<1>7. Content' = [Content EXCEPT ![s] = q] /\ Content[s] = FramesOf(s)
  BY <1>5, <1>6, ContentExcept DEF Content
<1> QED
  BY <1>2, <1>7 DEF q

\* Pop is a pop of the abstract stack.
LEMMA PopRefines ==
    ASSUME MemoryInv, MemoryInv', NEW s \in Stack, Pop(s)
    PROVE  Abstract!Pop(s)
<1>1. Sp(s) \in Nat /\ Sp(s) > 0 /\ live[s] /\ live' = live /\ overflowed' = overflowed
  BY SpType DEF MemoryInv, Pop
<1>2. PICK n \in 0 .. Sp(s) : n = Sp(s) - 1
  BY <1>1
<1>3. /\ Content' = [Content EXCEPT ![s] = SubSeq(Content[s], 1, n)]
      /\ Len(Content[s]) = Sp(s)
  BY <1>1, <1>2, PopEffect, CutRefines
<1>4. Content[s] # <<>>
  BY <1>1, <1>3
<1> QED
  BY <1>1, <1>2, <1>3, <1>4 DEF Abstract!Pop, Abstract!Become, Content

\* SetSp is an unwinding of the abstract stack, unless it is in place.
LEMMA SetSpRefines ==
    ASSUME MemoryInv, MemoryInv', ~UnwindInPlace, NEW s \in Stack, NEW sp \in 0 .. Sp(s), SetSp(s, sp)
    PROVE  Abstract!SetSp(s, sp)
<1>1. live[s] /\ live' = live /\ overflowed' = overflowed
  BY DEF SetSp
<1>2. /\ Sp(s)' = sp
      /\ \A t \in Stack \ {s} : Sp(t)' = Sp(t)
      /\ \A t \in Stack \ {s} : live[t] => Kept(t, Sp(t))
      /\ Kept(s, sp)
  BY SetSpEffect
<1>3. /\ Content' = [Content EXCEPT ![s] = SubSeq(Content[s], 1, sp)]
      /\ Len(Content[s]) = Sp(s)
  BY <1>1, <1>2, CutRefines
<1> QED
  BY <1>1, <1>3 DEF Abstract!SetSp, Abstract!Become, Content

\* removeCallerFrame takes the caller out of the abstract stack.
LEMMA RemoveCallerFrameRefines ==
    ASSUME MemoryInv, MemoryInv', NEW s \in Stack, RemoveCallerFrame(s)
    PROVE  Abstract!RemoveCallerFrame(s)
<1>1. Sp(s) \in Nat /\ Sp(s) >= 2 /\ live[s] /\ live' = live /\ overflowed' = overflowed
  BY SpType DEF MemoryInv, RemoveCallerFrame
<1>2. /\ Sp(s)' = Sp(s) - 1
      /\ \A n \in Nat : n = Sp(s) - 2 =>
            At(s, n)' = TailCallFrame(At(s, n + 1), At(s, n))
      /\ Kept(s, Sp(s) - 2)
      /\ \A t \in Stack \ {s} : Sp(t)' = Sp(t)
      /\ \A t \in Stack \ {s} : live[t] => Kept(t, Sp(t))
  BY RemoveCallerFrameEffect
<1>3. /\ FramesOf(s) \in Seq(Payload)
      /\ Len(FramesOf(s)) = Sp(s)
      /\ \A i \in 1 .. Sp(s) : FramesOf(s)[i] = At(s, i - 1).fn
  BY <1>1, FramesOfLive
<1> DEFINE n == Sp(s)
           below == SubSeq(FramesOf(s), 1, n - 2)
           q == Append(below, FramesOf(s)[n])
<1>4. /\ below \in Seq(Payload) /\ Len(below) = n - 2
      /\ \A i \in 1 .. n - 2 : below[i] = FramesOf(s)[i]
  BY <1>1, <1>3
<1>5. FramesOf(s)[n] \in Payload
  BY <1>1, <1>3, ElementOfSeq
<1>6. /\ q \in Seq(Payload) /\ Len(q) = n - 1
      /\ \A i \in 1 .. n - 2 : q[i] = FramesOf(s)[i]
      /\ q[n - 1] = FramesOf(s)[n]
  <2> HIDE DEF below
  <2>1. /\ q \in Seq(Payload) /\ Len(q) = Len(below) + 1
        /\ \A i \in 1 .. Len(below) : q[i] = below[i]
        /\ q[Len(below) + 1] = FramesOf(s)[n]
    BY <1>4, <1>5, AppendProperties
  <2>2. Len(below) + 1 = n - 1
    BY <1>1, <1>4
  <2> QED
    BY <1>4, <2>1, <2>2
<1> HIDE DEF q, below
<1>7. \A k \in 0 .. Len(q) - 1 : (At(s, k)').fn = q[k + 1]
  <2> TAKE k \in 0 .. Len(q) - 1
  <2>1. k \in Nat /\ k =< n - 2
    BY <1>1, <1>6
  <2>2. CASE k = n - 2
    <3>1. k + 1 \in Nat /\ k + 1 < Sp(s) /\ n \in 1 .. Sp(s) /\ n - 1 = k + 1
      BY <1>1, <2>1, <2>2
    <3>2. At(s, k + 1) \in CallFrame
      BY <1>1, <3>1, AtType
    <3>3. (At(s, k)').fn = At(s, k + 1).fn
      BY <1>2, <2>1, <2>2, <3>2 DEF CallFrame, TailCallFrame
    <3>4. FramesOf(s)[n] = At(s, n - 1).fn
      BY <1>3, <3>1
    <3> QED
      BY <1>6, <3>1, <3>3, <3>4
  <2>3. CASE k # n - 2
    <3>1. k \in 0 .. (Sp(s) - 2) - 1 /\ k + 1 \in 1 .. n - 2 /\ k + 1 \in 1 .. Sp(s) /\ (k + 1) - 1 = k
      BY <1>1, <2>1, <2>3
    <3>2. q[k + 1] = At(s, (k + 1) - 1).fn
      BY <1>3, <1>6, <3>1
    <3> QED
      BY <1>2, <3>1, <3>2 DEF Kept
  <2> QED
    BY <2>2, <2>3
<1>8. FramesOf(s)' = q
  BY <1>1, <1>2, <1>6, <1>7, FramesOfBecomes
<1>9. \A t \in Stack \ {s} : FramesOf(t)' = FramesOf(t)
  BY <1>1, <1>2, FramesOfKept
<1>10. Content' = [Content EXCEPT ![s] = q] /\ Content[s] = FramesOf(s)
  BY <1>8, <1>9, ContentExcept DEF Content
<1> QED
  BY <1>1, <1>3, <1>10 DEF Abstract!RemoveCallerFrame, Abstract!Become, Content, q, below

\* Creation, overflow, FreeAll and the pool's own steps map to the abstract ones.
LEMMA OtherRefines ==
    ASSUME MemoryInv, MemoryInv', NEW s \in Stack,
           New(s) \/ PushOverflow(s) \/ FreeAll(s) \/ (\E g \in pool : PoolDrop(g)) \/ UNCHANGED vars
    PROVE  [Abstract!Next]_(Abstract!vars)
<1>1. /\ \A t \in Stack : live[t] /\ live'[t] => Sp(t)' = Sp(t) /\ Kept(t, Sp(t))
      /\ \A t \in Stack : ~live[t] /\ live'[t] => Sp(t)' = 0
  BY OtherEffect
<1>2. \A t \in Stack : live'[t] = live[t] => FramesOf(t)' = FramesOf(t)
  BY <1>1, FramesOfKept
<1>3. CASE New(s)
  <2>1. /\ ~live[s] /\ live' = [live EXCEPT ![s] = TRUE]
        /\ overflowed' = [overflowed EXCEPT ![s] = FALSE] /\ live'[s]
    BY <1>3 DEF New, MemoryInv, TypeOK
  <2>2. \A t \in Stack \ {s} : FramesOf(t)' = FramesOf(t)
    BY <1>2, <2>1 DEF MemoryInv, TypeOK
  <2>3. FramesOf(s)' = <<>> /\ FramesOf(s) = <<>>
    BY <1>1, <2>1, FramesOfDead DEF FramesOf
  <2>4. Content' = Content
    BY <2>2, <2>3 DEF Content
  <2>5. Abstract!New(s)
    BY <2>1, <2>4 DEF Abstract!New, Content
  <2> QED
    BY <2>5 DEF Abstract!Next
<1>4. CASE FreeAll(s)
  <2>1. live[s] /\ live' = [live EXCEPT ![s] = FALSE] /\ overflowed' = overflowed /\ ~live'[s]
    BY <1>4 DEF FreeAll, MemoryInv, TypeOK
  <2>2. \A t \in Stack \ {s} : FramesOf(t)' = FramesOf(t)
    BY <1>2, <2>1 DEF MemoryInv, TypeOK
  <2>3. FramesOf(s)' = <<>>
    BY <2>1 DEF FramesOf
  <2>4. Content' = [Content EXCEPT ![s] = <<>>]
    BY <2>2, <2>3, ContentExcept
  <2>5. Abstract!FreeAll(s)
    BY <2>1, <2>4 DEF Abstract!FreeAll, Content
  <2> QED
    BY <2>5 DEF Abstract!Next
<1>5. CASE PushOverflow(s)
  <2>1. /\ live[s] /\ live' = live /\ overflowed' = [overflowed EXCEPT ![s] = TRUE]
        /\ segSp[s] >= FramesPerSegment /\ segIdx[s] >= NumSegments - 1
    BY <1>5 DEF PushOverflow, NoRoom
  <2>2. Content' = Content
    BY <1>2, <2>1 DEF Content
  <2>3. /\ segSp[s] = FramesPerSegment /\ segIdx[s] = NumSegments - 1 /\ segIdx[s] \in Nat
        /\ FramesPerSegment \in Nat /\ segIdx[s] + 1 = NumSegments
    <3>1. segSp[s] \in 0 .. FramesPerSegment /\ segIdx[s] \in 0 .. NumSegments - 1
      BY DEF MemoryInv, TypeOK, SegIdx
    <3>2. FramesPerSegment \in Nat /\ NumSegments \in Nat
      BY SizeAssumption, DepthAssumption
    <3> QED
      BY <2>1, <3>1, <3>2
  <2>4. Sp(s) = FramesPerSegment * NumSegments
    <3>1. FramesPerSegment * (segIdx[s] + 1) = FramesPerSegment + segIdx[s] * FramesPerSegment
      BY <2>3, NextMultiple
    <3> QED
      BY <2>3, <3>1 DEF Sp
  <2>5. Len(Content[s]) = FramesPerSegment * NumSegments
    BY <2>1, <2>4, FramesOfLive DEF Content
  <2>6. Abstract!PushRefused(s)
    BY <2>1, <2>2, <2>5 DEF Abstract!PushRefused, Content
  <2> QED
    BY <2>6 DEF Abstract!Next
<1>6. CASE (\E g \in pool : PoolDrop(g)) \/ UNCHANGED vars
  <2>1. live' = live /\ overflowed' = overflowed
    BY <1>6 DEF PoolDrop, vars
  <2>2. Content' = Content
    BY <1>2, <2>1 DEF Content
  <2> QED
    BY <2>1, <2>2 DEF Abstract!vars, Content
<1> QED
  BY <1>3, <1>4, <1>5, <1>6

\* Every step is a step of the abstract stacks, or changes nothing there.
LEMMA StepRefines ==
    ASSUME MemoryInv, MemoryInv', ~UnwindInPlace, [Next]_vars
    PROVE  [Abstract!Next]_(Abstract!vars)
<1>1. ASSUME NEW s \in Stack, NEW f \in Frame, PushHere(s, f) \/ PushNewSegment(s, f)
      PROVE  Abstract!Next
  BY <1>1, PushRefines DEF Abstract!Next
<1>2. ASSUME NEW s \in Stack, Pop(s)
      PROVE  Abstract!Next
  BY <1>2, PopRefines DEF Abstract!Next
<1>3. ASSUME NEW s \in Stack, NEW sp \in 0 .. Sp(s), SetSp(s, sp)
      PROVE  Abstract!Next
  <2>1. Abstract!SetSp(s, sp)
    BY <1>3, SetSpRefines
  <2>2. sp \in 0 .. Len(Content[s])
    BY <2>1 DEF Abstract!SetSp, Content
  <2> QED
    BY <2>1, <2>2 DEF Abstract!Next, Content
<1>4. ASSUME NEW s \in Stack, RemoveCallerFrame(s)
      PROVE  Abstract!Next
  BY <1>4, RemoveCallerFrameRefines DEF Abstract!Next
<1>5. ASSUME NEW s \in Stack, New(s) \/ PushOverflow(s) \/ FreeAll(s)
      PROVE  [Abstract!Next]_(Abstract!vars)
  BY <1>5, OtherRefines
<1>6. CASE (\E g \in pool : PoolDrop(g)) \/ UNCHANGED vars
  <2>1. CASE Stack = {}
    BY <1>6, <2>1 DEF Abstract!vars, PoolDrop, vars
  <2>2. CASE Stack # {}
    <3>1. PICK s \in Stack : TRUE
      BY <2>2
    <3> QED
      BY <1>6, <3>1, OtherRefines
  <2> QED
    BY <2>1, <2>2
<1> QED
  BY <1>1, <1>2, <1>3, <1>4, <1>5, <1>6 DEF Next

\* The auto-growing stack implements the bounded stack of FrameStack
\* (RefinesFrameStack) as long as no caller unwinds to the very depth it is at.
THEOREM Refinement ==
    ASSUME ~UnwindInPlace
    PROVE  Spec => RefinesFrameStack
<1>1. Init => Abstract!Init
  BY DEF Init, Abstract!Init, FramesOf
<1>2. MemoryInv /\ MemoryInv' /\ [Next]_vars => [Abstract!Next]_(Abstract!vars)
  BY StepRefines
<1> QED
  BY <1>1, <1>2, MemoryInvInit, MemoryInvStep, PTL DEF Spec, RefinesFrameStack, Abstract!Spec

\* Every operation of the auto-growing stack is the operation of the bounded one
\* with the same name and argument (OperationsRefine), under the same hypothesis.
THEOREM Operations ==
    ASSUME ~UnwindInPlace
    PROVE  Spec => OperationsRefine
<1> DEFINE A == \A s \in Stack :
        /\ \A f \in Frame : PushHere(s, f) \/ PushNewSegment(s, f) => Abstract!Push(s, f)
        /\ Pop(s) => Abstract!Pop(s)
        /\ \A sp \in 0 .. Sp(s) : SetSp(s, sp) => Abstract!SetSp(s, sp)
        /\ RemoveCallerFrame(s) => Abstract!RemoveCallerFrame(s)
<1>1. MemoryInv /\ MemoryInv' => A
  BY PushRefines, PopRefines, SetSpRefines, RemoveCallerFrameRefines
<1> HIDE DEF A
<1>2. Spec => [][A]_vars
  BY <1>1, MemoryInvInit, MemoryInvStep, PTL DEF Spec
<1> QED
  BY <1>2 DEF OperationsRefine, A
=============================================================================
