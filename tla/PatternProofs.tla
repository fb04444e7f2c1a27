---------------------------- MODULE PatternProofs ----------------------------
(***************************************************************************)
(* Theorems about the machine of Lua pattern matching, for any patterns     *)
(* that are compiled soundly, any subjects and any backtracking budget: it  *)
(* stays inside its program and its subject, the captures it reports are    *)
(* slices of the subject, and matches come in order without overlap.        *)
(***************************************************************************)
EXTENDS PatternMachine, SequenceTheorems, WellFoundedInduction, TLAPS

-----------------------------------------------------------------------------
(* The inductive invariant.                                                *)

\* The length of the program.
N == Len(insts)

\* The captures the first p instructions open and close.
Opened(p) == {i \in Nat : \E j \in 1..p : Saves(insts, j, 2 * i)}
Closed(p) == {i \in Nat : \E j \in 1..p : Saves(insts, j, 2 * i + 1)}

\* Of a thread that has run the first p instructions: a capture that is open
\* began at s or before, one that is closed is a slice, another is a position or
\* was not touched.
Captured(p, s, md) ==
    \A i \in Nat :
        /\ i \in Opened(p) => Capture(md, 2 * i) <= s
        /\ i \in Closed(p) => /\ Capture(md, 2 * i) <= Capture(md, 2 * i + 1)
                              /\ Capture(md, 2 * i + 1) <= Len(src)
        /\ i \notin Opened(p) =>
             IsPosCapture(md, 2 * i) \/ (Capture(md, 2 * i) = 0 /\ Capture(md, 2 * i + 1) = 0)

\* A thread at instruction p and offset s with the captures md, in a run that
\* began at b.
Thread(p, s, md, b) ==
    /\ p \in 0..N - 1 /\ s \in b..Len(src) /\ md \in CaptureArrays
    /\ IF p = 0 THEN s = b ELSE Capture(md, 0) = b
    /\ p = N - 1 => Capture(md, 1) = s
    /\ Captured(p, s, md)

\* What the stack holds.
Threads == [pc : Nat, sp : Nat, caps : CaptureArrays]

\* The machine in the middle of a run.
Runs ==
    /\ start <= Len(src)
    /\ Thread(pc, sp, caps, start)
    /\ stack \in Seq(Threads)
    /\ \A k \in 1..Len(stack) : Thread(stack[k].pc, stack[k].sp, stack[k].caps, start)
    /\ backtracks \in 0..MaxBacktracks

\* The captures of a match.
Sliced(md) ==
    \A i \in Nat : \/ IsPosCapture(md, 2 * i)
                   \/ /\ Capture(md, 2 * i) <= Capture(md, 2 * i + 1)
                      /\ Capture(md, 2 * i + 1) <= Len(src)

\* The matches found before the offset b.
Found(ms, b) ==
    /\ ms \in Seq(CaptureArrays)
    /\ Len(ms) <= b
    /\ \A k \in 1..Len(ms) : /\ Sliced(ms[k])
                             /\ Capture(ms[k], 0) <= Capture(ms[k], 1)
                             /\ Capture(ms[k], 1) <= b
                             /\ Capture(ms[k], 1) <= Len(src)
    /\ \A k, l \in 1..Len(ms) : k < l => Capture(ms[k], 1) <= Capture(ms[l], 0)

\* The inductive invariant.
IInv ==
    /\ src \in Seq(STRING)
    /\ status \in {"running", "done", "error"}
    /\ status # "error" => Sound(insts)
    /\ start \in 0..Len(src) + 1
    /\ status = "running" => Runs
    /\ Found(matches, start)

-----------------------------------------------------------------------------
(* Capture arrays.                                                         *)

\* An entry of a capture array.
Entries == [at : 0..Len(src) + 1, isPos : BOOLEAN]

\* The fields of an entry, and the entries of an array.
LEMMA EntryType ==
    ASSUME NEW e \in Entries
    PROVE  e.at \in 0..Len(src) + 1 /\ e.isPos \in BOOLEAN
  BY DEF Entries

LEMMA ArrayType ==
    ASSUME NEW md \in CaptureArrays
    PROVE  md \in Seq(Entries) /\ Len(md) \in Nat /\ \A k \in 1..Len(md) : md[k] \in Entries
  <1>1. md \in Seq(Entries)
    BY DEF CaptureArrays, Entries
  <1> QED
    BY <1>1

\* A capture read from an array.
LEMMA CaptureType ==
    ASSUME NEW md \in CaptureArrays, src \in Seq(STRING), NEW k \in Nat
    PROVE  /\ Capture(md, k) \in 0..Len(src) + 1
           /\ IsPosCapture(md, k) \in BOOLEAN
           /\ Capture(md, k) \in Int
  <1>1. Len(md) \in Nat /\ Len(src) \in Nat
    BY ArrayType
  <1>2. CASE k < Len(md)
    <2>1. k + 1 \in 1..Len(md)
      BY <1>1, <1>2
    <2>2. md[k + 1] \in Entries
      BY <2>1, ArrayType
    <2>3. md[k + 1].at \in 0..Len(src) + 1 /\ md[k + 1].isPos \in BOOLEAN
      BY <2>2, EntryType
    <2>4. Capture(md, k) = md[k + 1].at /\ IsPosCapture(md, k) = md[k + 1].isPos
      BY <1>2, <2>3 DEF Capture, IsPosCapture
    <2> QED
      BY <1>1, <2>3, <2>4
  <1>3. CASE ~(k < Len(md))
    BY <1>1, <1>3 DEF Capture, IsPosCapture
  <1> QED
    BY <1>2, <1>3

\* Making room for a slot changes no capture.
LEMMA EnsureSlot ==
    ASSUME NEW md \in CaptureArrays, src \in Seq(STRING), NEW slot \in Nat
    PROVE  LET r == ensureSlot(md, slot)
           IN /\ r \in CaptureArrays
              /\ slot < Len(r)
              /\ \A k \in Nat : /\ Capture(r, k) = Capture(md, k)
                                /\ IsPosCapture(r, k) = IsPosCapture(md, k)
  <1> DEFINE r == ensureSlot(md, slot)
             m == IF slot < Len(md) THEN Len(md) ELSE slot + 1
  <1>1. Len(md) \in Nat /\ Len(src) \in Nat /\ \A k \in 1..Len(md) : md[k] \in Entries
    BY ArrayType
  <1>2. Zero \in Entries
    BY <1>1 DEF Zero, Slot, Entries
  <1>3. m \in Nat /\ slot < m /\ Len(md) <= m
    BY <1>1
  <1>4. r = [k \in 1..m |-> IF k <= Len(md) THEN md[k] ELSE Zero]
    BY DEF ensureSlot
  <1> HIDE DEF r, m
  <1>5. \A k \in 1..m : (IF k <= Len(md) THEN md[k] ELSE Zero) \in Entries
    BY <1>1, <1>2, <1>3
  <1>6. r \in Seq(Entries) /\ Len(r) = m
    <2>1. r \in [1..m -> Entries]
      BY <1>4, <1>5
    <2> QED
      BY <1>3, <2>1
  <1>7. ASSUME NEW k \in Nat
        PROVE  Capture(r, k) = Capture(md, k) /\ IsPosCapture(r, k) = IsPosCapture(md, k)
    <2>1. CASE k < Len(md)
      <3>1. k < m /\ k + 1 \in 1..m /\ k + 1 <= Len(md)
        BY <1>1, <1>3, <2>1
      <3>2. r[k + 1] = md[k + 1]
        BY <1>4, <3>1
      <3> QED
        BY <2>1, <3>1, <3>2, <1>6 DEF Capture, IsPosCapture
    <2>2. CASE ~(k < Len(md))
      <3>1. Capture(md, k) = 0 /\ IsPosCapture(md, k) = FALSE
        BY <2>2 DEF Capture, IsPosCapture
      <3>2. CASE k < m
        <4>1. k + 1 \in 1..m /\ ~(k + 1 <= Len(md))
          BY <1>1, <1>3, <2>2, <3>2
        <4>2. r[k + 1] = Zero
          BY <1>4, <4>1
        <4> QED
          BY <3>1, <3>2, <4>2, <1>6 DEF Capture, IsPosCapture, Zero, Slot
      <3>3. CASE ~(k < m)
        BY <3>1, <3>3, <1>6 DEF Capture, IsPosCapture
      <3> QED
        BY <3>2, <3>3
    <2> QED
      BY <2>1, <2>2
  <1> QED
    BY <1>3, <1>6, <1>7 DEF r, CaptureArrays, Entries

\* r is md with v in one slot.
Written(r, md, slot, v) ==
    /\ r \in Seq(Entries) /\ Len(r) = Len(md)
    /\ \A k \in 1..Len(md) : r[k] = IF k = slot + 1 THEN v ELSE md[k]

\* Writing one slot of an array that has room for it.
LEMMA SlotWritten ==
    ASSUME NEW md \in CaptureArrays, NEW slot \in Nat, slot < Len(md), NEW v \in Entries,
           NEW r, Written(r, md, slot, v)
    PROVE  /\ r \in CaptureArrays /\ Len(r) = Len(md)
           /\ Capture(r, slot) = v.at
           /\ IsPosCapture(r, slot) <=> v.isPos
           /\ \A k \in Nat : k # slot => /\ Capture(r, k) = Capture(md, k)
                                         /\ IsPosCapture(r, k) = IsPosCapture(md, k)
  <1>1. md \in Seq(Entries) /\ Len(md) \in Nat /\ slot + 1 \in 1..Len(md)
    BY ArrayType
  <1>2. r \in Seq(Entries) /\ Len(r) = Len(md)
    BY DEF Written
  <1>3. \A k \in 1..Len(md) : r[k] = IF k = slot + 1 THEN v ELSE md[k]
    BY DEF Written
  <1>4. Capture(r, slot) = v.at /\ (IsPosCapture(r, slot) <=> v.isPos)
    <2>1. r[slot + 1] = v
      BY <1>1, <1>3
    <2> QED
      BY <2>1, <1>2 DEF Capture, IsPosCapture
  <1>5. ASSUME NEW k \in Nat, k # slot
        PROVE  Capture(r, k) = Capture(md, k) /\ IsPosCapture(r, k) = IsPosCapture(md, k)
    <2>1. CASE k < Len(md)
      <3>1. k + 1 \in 1..Len(md) /\ k + 1 # slot + 1
        BY <1>1, <1>5, <2>1
      <3>2. r[k + 1] = md[k + 1]
        BY <1>3, <3>1
      <3> QED
        BY <2>1, <3>2, <1>2 DEF Capture, IsPosCapture
    <2>2. CASE ~(k < Len(md))
      BY <2>2, <1>2 DEF Capture, IsPosCapture
    <2> QED
      BY <2>1, <2>2
  <1> QED
    BY <1>2, <1>4, <1>5 DEF CaptureArrays, Entries

\* save.
LEMMA SetCapture ==
    ASSUME NEW md \in CaptureArrays, src \in Seq(STRING), NEW slot \in Nat,
           NEW at \in 0..Len(src) + 1, NEW r, r = setCapture(md, slot, at)
    PROVE  /\ r \in CaptureArrays
           /\ Capture(r, slot) = at
           /\ \A k \in Nat : k # slot => /\ Capture(r, k) = Capture(md, k)
                                         /\ IsPosCapture(r, k) = IsPosCapture(md, k)
  <1> DEFINE e == ensureSlot(md, slot)
             v == Slot(at, FALSE)
  <1>1. /\ e \in CaptureArrays /\ slot < Len(e)
        /\ \A k \in Nat : Capture(e, k) = Capture(md, k) /\ IsPosCapture(e, k) = IsPosCapture(md, k)
    BY EnsureSlot
  <1>2. r = [e EXCEPT ![slot + 1] = v]
    BY DEF setCapture
  <1>3. v \in Entries /\ v.at = at
    BY DEF Slot, Entries
  <1> HIDE DEF e, v
  <1>4. /\ r \in CaptureArrays /\ Capture(r, slot) = at
        /\ \A k \in Nat : k # slot => /\ Capture(r, k) = Capture(e, k)
                                      /\ IsPosCapture(r, k) = IsPosCapture(e, k)
    <2>1. Written(r, e, slot, v)
      BY <1>1, <1>2, <1>3, ArrayType DEF Written
    <2> QED
      BY <2>1, <1>1, <1>3, SlotWritten
  <1> QED
    BY <1>1, <1>4

\* r is md with a position captured in slot, and whatever of the next slot.
PosWritten(r, md, slot) ==
    /\ r \in CaptureArrays
    /\ IsPosCapture(r, slot)
    /\ \A k \in Nat : k # slot /\ k # slot + 1 => /\ Capture(r, k) = Capture(md, k)
                                                 /\ IsPosCapture(r, k) = IsPosCapture(md, k)

\* psave.
LEMMA AddPosCapture ==
    ASSUME NEW md \in CaptureArrays, src \in Seq(STRING), NEW slot \in Nat,
           NEW at \in 0..Len(src) + 1, NEW r, r = addPosCapture(md, slot, at)
    PROVE  PosWritten(r, md, slot)
  <1>1. PICK next \in Nat : next = slot + 1
    OBVIOUS
  <1> DEFINE e == ensureSlot(md, next)
             v == Slot(at, TRUE)
             f == [e EXCEPT ![slot + 1] = v]
  <1>2. /\ e \in CaptureArrays /\ next < Len(e)
        /\ \A k \in Nat : Capture(e, k) = Capture(md, k) /\ IsPosCapture(e, k) = IsPosCapture(md, k)
    BY EnsureSlot
  <1>3. r = [f EXCEPT ![next + 1] = v]
    BY <1>1 DEF addPosCapture
  <1>4. v \in Entries /\ v.isPos
    BY DEF Slot, Entries
  <1> HIDE DEF e, v
  <1>5. Len(e) \in Nat /\ slot < Len(e) /\ slot # next
    BY <1>1, <1>2, ArrayType
  <1>6. /\ f \in CaptureArrays /\ Len(f) = Len(e)
        /\ IsPosCapture(f, slot)
        /\ \A k \in Nat : k # slot => /\ Capture(f, k) = Capture(e, k)
                                      /\ IsPosCapture(f, k) = IsPosCapture(e, k)
    <2>1. Written(f, e, slot, v)
      BY <1>2, <1>4, <1>5, ArrayType DEF Written
    <2> HIDE DEF f
    <2> QED
      BY <2>1, <1>2, <1>4, <1>5, SlotWritten
  <1> HIDE DEF f
  <1>7. /\ r \in CaptureArrays
        /\ \A k \in Nat : k # next => /\ Capture(r, k) = Capture(f, k)
                                      /\ IsPosCapture(r, k) = IsPosCapture(f, k)
    <2>1. Written(r, f, next, v)
      BY <1>2, <1>3, <1>4, <1>6, ArrayType DEF Written
    <2> QED
      BY <2>1, <1>2, <1>4, <1>6, SlotWritten
  <1> QED
    BY <1>1, <1>2, <1>5, <1>6, <1>7 DEF PosWritten

-----------------------------------------------------------------------------
(* Sound programs.                                                         *)

\* Where a sound program begins and ends.
LEMMA SoundEnds ==
    ASSUME Sound(insts)
    PROVE  /\ N \in Nat /\ N > 2
           /\ Saves(insts, 1, 0) /\ Saves(insts, N - 1, 1)
           /\ insts[N].op \in {"match", "tailMatch"}
  BY DEF Sound, N

\* A slot is written in one place.
LEMMA WrittenOnce ==
    ASSUME Sound(insts), NEW i \in 1..N, NEW j \in 1..N, NEW x,
           x \in Slots(insts, i), x \in Slots(insts, j)
    PROVE  i = j
  BY DEF Sound, N

\* The one slot an instruction save writes.
LEMMA SaveSlots ==
    ASSUME NEW i, NEW x, Saves(insts, i, x)
    PROVE  Slots(insts, i) = {x} /\ insts[i].op = "save"
  BY DEF Saves, Slots

\* The opener of a closed capture, and the closer of an opened one.
LEMMA Partner ==
    ASSUME Sound(insts), NEW j \in 1..N - 1, NEW c \in Nat
    PROVE  /\ Saves(insts, j, 2 * c + 1) => \E l \in 1..j - 1 : Saves(insts, l, 2 * c)
           /\ Saves(insts, j, 2 * c) => \E l \in j + 1..N : Saves(insts, l, 2 * c + 1)
  <1>1. ASSUME insts[j].op = "save"
        PROVE  \E d \in 0..N :
                 \/ Saves(insts, j, 2 * d) /\ \E l \in j + 1..N : Saves(insts, l, 2 * d + 1)
                 \/ Saves(insts, j, 2 * d + 1) /\ \E l \in 1..j - 1 : Saves(insts, l, 2 * d)
    BY <1>1 DEF Sound, N
  <1>2. ASSUME Saves(insts, j, 2 * c + 1)
        PROVE  \E l \in 1..j - 1 : Saves(insts, l, 2 * c)
    <2>1. insts[j].op = "save" /\ insts[j].x = 2 * c + 1
      BY <1>2 DEF Saves
    <2>2. PICK d \in 0..N :
            \/ Saves(insts, j, 2 * d)
            \/ Saves(insts, j, 2 * d + 1) /\ \E l \in 1..j - 1 : Saves(insts, l, 2 * d)
      BY <1>1, <2>1
    <2>3. N \in Nat /\ d \in Nat
      BY SoundEnds
    <2>4. 2 * c + 1 # 2 * d /\ (2 * c + 1 = 2 * d + 1 => c = d)
      BY <2>3
    <2> QED
      BY <2>1, <2>2, <2>4 DEF Saves
  <1>3. ASSUME Saves(insts, j, 2 * c)
        PROVE  \E l \in j + 1..N : Saves(insts, l, 2 * c + 1)
    <2>1. insts[j].op = "save" /\ insts[j].x = 2 * c
      BY <1>3 DEF Saves
    <2>2. PICK d \in 0..N :
            \/ Saves(insts, j, 2 * d) /\ \E l \in j + 1..N : Saves(insts, l, 2 * d + 1)
            \/ Saves(insts, j, 2 * d + 1)
      BY <1>1, <2>1
    <2>3. N \in Nat /\ d \in Nat
      BY SoundEnds
    <2>4. 2 * c # 2 * d + 1 /\ (2 * c = 2 * d => c = d)
      BY <2>3
    <2> QED
      BY <2>1, <2>2, <2>4 DEF Saves
  <1> QED
    BY <1>2, <1>3

\* A closed capture was opened, and at the end an opened one is closed.
LEMMA ClosedOpened ==
    ASSUME Sound(insts), NEW p \in 0..N - 1
    PROVE  Closed(p) \subseteq Opened(p) /\ Opened(N - 1) \subseteq Closed(N - 1)
  <1>1. N \in Nat /\ N > 2 /\ insts[N].op # "save"
    BY SoundEnds
  <1>2. ASSUME NEW i \in Closed(p) PROVE i \in Opened(p)
    <2>1. PICK j \in 1..p : Saves(insts, j, 2 * i + 1)
      BY <1>2 DEF Closed
    <2>2. j \in 1..N - 1 /\ i \in Nat
      BY <1>1 DEF Closed
    <2>3. PICK l \in 1..j - 1 : Saves(insts, l, 2 * i)
      BY <2>1, <2>2, Partner
    <2>4. l \in 1..p
      BY <1>1
    <2> QED
      BY <2>2, <2>3, <2>4 DEF Opened
  <1>3. ASSUME NEW i \in Opened(N - 1) PROVE i \in Closed(N - 1)
    <2>1. PICK j \in 1..N - 1 : Saves(insts, j, 2 * i)
      BY <1>3 DEF Opened
    <2>2. i \in Nat
      BY <1>3 DEF Opened
    <2>3. PICK l \in j + 1..N : Saves(insts, l, 2 * i + 1)
      BY <2>1, <2>2, Partner
    <2>4. l \in 1..N - 1
      BY <1>1, <2>3 DEF Saves
    <2> QED
      BY <2>2, <2>3, <2>4 DEF Closed
  <1> QED
    BY <1>2, <1>3

\* Instructions that write nothing open and close nothing.
LEMMA NothingWritten ==
    ASSUME Sound(insts), NEW p \in 0..N, NEW q \in 0..N, p <= q,
           \A j \in p + 1..q : Slots(insts, j) = {}
    PROVE  Opened(q) = Opened(p) /\ Closed(q) = Closed(p)
  <1>1. N \in Nat
    BY SoundEnds
  <1>2. ASSUME NEW x PROVE \A j \in 1..q : Saves(insts, j, x) => j \in 1..p
    <2> SUFFICES ASSUME NEW j \in 1..q, Saves(insts, j, x) PROVE j \in 1..p
      OBVIOUS
    <2>1. Slots(insts, j) # {}
      BY SaveSlots
    <2> QED
      BY <1>1, <2>1
  <1>3. \A j \in 1..p : j \in 1..q
    BY <1>1
  <1>4. Opened(q) = Opened(p)
    BY <1>2, <1>3 DEF Opened
  <1>5. Closed(q) = Closed(p)
    BY <1>2, <1>3 DEF Closed
  <1> QED
    BY <1>4, <1>5

\* An instruction that opens a capture,
LEMMA OneOpened ==
    ASSUME Sound(insts), NEW p \in 0..N - 2, NEW c \in Nat, Saves(insts, p + 1, 2 * c)
    PROVE  /\ Opened(p + 1) = Opened(p) \cup {c}
           /\ Closed(p + 1) = Closed(p)
           /\ c \notin Closed(p)
  <1>1. N \in Nat /\ p + 1 \in 1..N - 1 /\ p + 1 \in 1..N
    BY SoundEnds
  <1>2. insts[p + 1].x = 2 * c
    BY DEF Saves
  <1>3. Opened(p + 1) = Opened(p) \cup {c}
    <2>1. ASSUME NEW i \in Opened(p + 1) PROVE i \in Opened(p) \cup {c}
      <3>1. PICK j \in 1..p + 1 : Saves(insts, j, 2 * i)
        BY <2>1 DEF Opened
      <3>2. i \in Nat
        BY <2>1 DEF Opened
      <3>3. CASE j = p + 1
        <4>1. 2 * i = 2 * c
          BY <3>1, <3>3, <1>2 DEF Saves
        <4> QED
          BY <3>2, <4>1
      <3>4. CASE j # p + 1
        <4>1. j \in 1..p
          BY <3>4, <1>1
        <4> QED
          BY <3>1, <3>2, <4>1 DEF Opened
      <3> QED
        BY <3>3, <3>4
    <2>2. ASSUME NEW i \in Opened(p) \cup {c} PROVE i \in Opened(p + 1)
      <3>1. \A j \in 1..p : j \in 1..p + 1
        BY <1>1
      <3> QED
        BY <2>2, <3>1, <1>1 DEF Opened
    <2> QED
      BY <2>1, <2>2
  <1>4. Closed(p + 1) = Closed(p)
    <2>1. ASSUME NEW i \in Nat, Saves(insts, p + 1, 2 * i + 1) PROVE FALSE
      <3>1. 2 * i + 1 = 2 * c
        BY <2>1, <1>2 DEF Saves
      <3> QED
        BY <3>1
    <2>2. \A j \in 1..p + 1 : j = p + 1 \/ j \in 1..p
      BY <1>1
    <2>3. \A j \in 1..p : j \in 1..p + 1
      BY <1>1
    <2> QED
      BY <2>1, <2>2, <2>3 DEF Closed
  <1>5. c \notin Closed(p)
    <2> SUFFICES ASSUME c \in Closed(p) PROVE FALSE
      OBVIOUS
    <2>1. p \in 0..N - 1
      BY <1>1
    <2>2. PICK l \in 1..p : Saves(insts, l, 2 * c)
      BY <2>1, ClosedOpened DEF Opened
    <2>3. 2 * c \in Slots(insts, l) /\ 2 * c \in Slots(insts, p + 1)
      BY <2>2, SaveSlots
    <2>4. l \in 1..N /\ l # p + 1
      BY <1>1
    <2> QED
      BY <1>1, <2>3, <2>4, WrittenOnce
  <1> QED
    BY <1>3, <1>4, <1>5

\* one that closes a capture,
LEMMA OneClosed ==
    ASSUME Sound(insts), NEW p \in 0..N - 2, NEW c \in Nat, Saves(insts, p + 1, 2 * c + 1)
    PROVE  /\ Opened(p + 1) = Opened(p)
           /\ Closed(p + 1) = Closed(p) \cup {c}
           /\ c \in Opened(p)
  <1>1. N \in Nat /\ p + 1 \in 1..N - 1
    BY SoundEnds
  <1>2. insts[p + 1].x = 2 * c + 1
    BY DEF Saves
  <1>3. Closed(p + 1) = Closed(p) \cup {c}
    <2>1. ASSUME NEW i \in Closed(p + 1) PROVE i \in Closed(p) \cup {c}
      <3>1. PICK j \in 1..p + 1 : Saves(insts, j, 2 * i + 1)
        BY <2>1 DEF Closed
      <3>2. i \in Nat
        BY <2>1 DEF Closed
      <3>3. CASE j = p + 1
        <4>1. 2 * i + 1 = 2 * c + 1
          BY <3>1, <3>3, <1>2 DEF Saves
        <4> QED
          BY <3>2, <4>1
      <3>4. CASE j # p + 1
        <4>1. j \in 1..p
          BY <3>4, <1>1
        <4> QED
          BY <3>1, <3>2, <4>1 DEF Closed
      <3> QED
        BY <3>3, <3>4
    <2>2. ASSUME NEW i \in Closed(p) \cup {c} PROVE i \in Closed(p + 1)
      <3>1. \A j \in 1..p : j \in 1..p + 1
        BY <1>1
      <3> QED
        BY <2>2, <3>1, <1>1 DEF Closed
    <2> QED
      BY <2>1, <2>2
  <1>4. Opened(p + 1) = Opened(p)
    <2>1. ASSUME NEW i \in Nat, Saves(insts, p + 1, 2 * i) PROVE FALSE
      <3>1. 2 * i = 2 * c + 1
        BY <2>1, <1>2 DEF Saves
      <3> QED
        BY <3>1
    <2>2. \A j \in 1..p + 1 : j = p + 1 \/ j \in 1..p
      BY <1>1
    <2>3. \A j \in 1..p : j \in 1..p + 1
      BY <1>1
    <2> QED
      BY <2>1, <2>2, <2>3 DEF Opened
  <1>5. c \in Opened(p)
    <2>1. PICK l \in 1..p + 1 - 1 : Saves(insts, l, 2 * c)
      BY <1>1, Partner
    <2>2. l \in 1..p
      BY <1>1
    <2> QED
      BY <2>1, <2>2 DEF Opened
  <1> QED
    BY <1>3, <1>4, <1>5

\* and one that records a position.
LEMMA OnePosition ==
    ASSUME Sound(insts), NEW p \in 0..N - 2, NEW c \in Nat,
           insts[p + 1].op = "psave", insts[p + 1].x = 2 * c
    PROVE  /\ Opened(p + 1) = Opened(p) /\ Closed(p + 1) = Closed(p)
           /\ c \notin Opened(p)
  <1>1. N \in Nat /\ p + 1 \in 1..N
    BY SoundEnds
  <1>2. Slots(insts, p + 1) = {2 * c, 2 * c + 1}
    BY DEF Slots
  <1>3. \A j \in 1..p + 1 : j = p + 1 \/ j \in 1..p
    BY <1>1
  <1>4. \A j \in 1..p : j \in 1..p + 1
    BY <1>1
  <1>5. \A x : ~Saves(insts, p + 1, x)
    BY DEF Saves
  <1>6. Opened(p + 1) = Opened(p)
    BY <1>3, <1>4, <1>5 DEF Opened
  <1>7. Closed(p + 1) = Closed(p)
    BY <1>3, <1>4, <1>5 DEF Closed
  <1>8. c \notin Opened(p)
    <2> SUFFICES ASSUME c \in Opened(p) PROVE FALSE
      OBVIOUS
    <2>1. PICK l \in 1..p : Saves(insts, l, 2 * c)
      BY DEF Opened
    <2>2. l \in 1..N /\ l # p + 1
      BY <1>1
    <2>3. 2 * c \in Slots(insts, l)
      BY <2>1, SaveSlots
    <2> QED
      BY <1>1, <1>2, <2>2, <2>3, WrittenOnce
  <1> QED
    BY <1>6, <1>7, <1>8

-----------------------------------------------------------------------------
(* Threads.                                                                *)

\* Where an instruction that writes nothing stands.
LEMMA PlainPlace ==
    ASSUME Sound(insts), NEW p \in 0..N - 1,
           insts[p + 1].op \in {"char", "brace", "number", "jmp", "split"}
    PROVE  p \in 1..N - 3 /\ Slots(insts, p + 1) = {}
  <1>1. N \in Nat /\ N > 2 /\ insts[1].op = "save" /\ insts[N - 1].op = "save"
        /\ insts[N].op \in {"match", "tailMatch"}
    BY SoundEnds DEF Saves
  <1>2. p # 0 /\ p + 1 # N - 1 /\ p + 1 # N
    BY <1>1
  <1> QED
    BY <1>1, <1>2 DEF Slots

\* A thread that goes elsewhere without writing.
LEMMA ThreadMoves ==
    ASSUME Sound(insts), src \in Seq(STRING), NEW b \in Nat,
           NEW p, NEW s, NEW md, Thread(p, s, md, b), p # 0,
           NEW q \in 1..N - 2, Opened(q) = Opened(p), Closed(q) = Closed(p),
           NEW s2 \in s..Len(src)
    PROVE  Thread(q, s2, md, b)
  <1>1. N \in Nat /\ Len(src) \in Nat /\ s \in b..Len(src) /\ md \in CaptureArrays
    BY SoundEnds DEF Thread
  <1>2. q \in 0..N - 1 /\ q # 0 /\ q # N - 1 /\ s2 \in b..Len(src) /\ s <= s2
    BY <1>1
  <1>3. Captured(q, s2, md)
    <2> SUFFICES ASSUME NEW i \in Nat
                 PROVE  /\ i \in Opened(p) => Capture(md, 2 * i) <= s2
                        /\ i \in Closed(p) => /\ Capture(md, 2 * i) <= Capture(md, 2 * i + 1)
                                              /\ Capture(md, 2 * i + 1) <= Len(src)
                        /\ i \notin Opened(p) =>
                             \/ IsPosCapture(md, 2 * i)
                             \/ Capture(md, 2 * i) = 0 /\ Capture(md, 2 * i + 1) = 0
      BY DEF Captured
    <2>1. 2 * i \in Nat
      OBVIOUS
    <2>2. Capture(md, 2 * i) \in Int
      BY <1>1, <2>1, CaptureType
    <2>3. Captured(p, s, md)
      BY DEF Thread
    <2>4. i \in Opened(p) => Capture(md, 2 * i) <= s
      BY <2>3 DEF Captured
    <2>5. i \in Opened(p) => Capture(md, 2 * i) <= s2
      BY <1>1, <1>2, <2>2, <2>4
    <2> QED
      BY <2>3, <2>5 DEF Captured
  <1>4. Capture(md, 0) = b
    BY DEF Thread
  <1> QED
    BY <1>1, <1>2, <1>3, <1>4 DEF Thread

\* char, number and brace.
LEMMA ThreadConsumes ==
    ASSUME Sound(insts), src \in Seq(STRING), NEW b \in Nat,
           NEW p, NEW s, NEW md, Thread(p, s, md, b),
           insts[p + 1].op \in {"char", "brace", "number"}, NEW s2 \in s..Len(src)
    PROVE  Thread(p + 1, s2, md, b)
  <1>1. p \in 0..N - 1 /\ N \in Nat
    BY SoundEnds DEF Thread
  <1>2. p \in 1..N - 3 /\ Slots(insts, p + 1) = {}
    BY <1>1, PlainPlace
  <1>3. p # 0 /\ p \in 0..N /\ p + 1 \in 0..N /\ p <= p + 1 /\ p + 1 \in 1..N - 2
    BY <1>1, <1>2
  <1>4. \A j \in p + 1..p + 1 : Slots(insts, j) = {}
    BY <1>1, <1>2
  <1>5. Opened(p + 1) = Opened(p) /\ Closed(p + 1) = Closed(p)
    BY <1>3, <1>4, NothingWritten
  <1> QED
    BY <1>3, <1>5, ThreadMoves

\* jmp and split.
LEMMA ThreadJumps ==
    ASSUME Sound(insts), src \in Seq(STRING), NEW b \in Nat,
           NEW p, NEW s, NEW md, Thread(p, s, md, b),
           insts[p + 1].op \in {"jmp", "split"}, NEW t, Jumps(insts, p + 1, t)
    PROVE  Thread(t, s, md, b)
  <1>1. p \in 0..N - 1 /\ N \in Nat /\ Len(src) \in Nat /\ s \in b..Len(src)
    BY SoundEnds DEF Thread
  <1>2. p \in 1..N - 3
    BY <1>1, PlainPlace
  <1>3. t \in 1..N - 2 /\ (\A j \in p + 1..t : Slots(insts, j) = {})
        /\ \A j \in t + 1..p + 1 : Slots(insts, j) = {}
    BY DEF Jumps, N
  <1>4. \A j \in t + 1..p : Slots(insts, j) = {}
    BY <1>1, <1>3
  <1>5. p \in 0..N /\ t \in 0..N /\ p # 0 /\ s \in s..Len(src)
    BY <1>1, <1>2, <1>3
  <1>6. Opened(t) = Opened(p) /\ Closed(t) = Closed(p)
    <2>1. CASE p <= t
      BY <1>3, <1>5, <2>1, NothingWritten
    <2>2. CASE t <= p
      BY <1>4, <1>5, <2>2, NothingWritten
    <2> QED
      BY <1>5, <2>1, <2>2
  <1> QED
    BY <1>3, <1>5, <1>6, ThreadMoves

\* The capture an instruction save writes.
LEMMA SaveKind ==
    ASSUME Sound(insts), NEW p \in 0..N - 1, insts[p + 1].op = "save"
    PROVE  /\ p \in 0..N - 2
           /\ insts[p + 1].x \in Nat
           /\ p = 0 <=> insts[p + 1].x = 0
           /\ p = N - 2 => insts[p + 1].x = 1
           /\ \E c \in Nat : Saves(insts, p + 1, 2 * c) \/ Saves(insts, p + 1, 2 * c + 1)
  <1>1. /\ N \in Nat /\ N > 2 /\ Saves(insts, 1, 0) /\ Saves(insts, N - 1, 1)
        /\ insts[N].op \in {"match", "tailMatch"}
    BY SoundEnds
  <1>2. p \in 0..N - 2 /\ p + 1 \in 1..N - 1 /\ p + 1 \in 1..N /\ 1 \in 1..N
    BY <1>1
  <1>3. PICK c \in 0..N : Saves(insts, p + 1, 2 * c) \/ Saves(insts, p + 1, 2 * c + 1)
    BY <1>2 DEF Sound, N
  <1>4. insts[p + 1].x \in Nat
    BY <1>1, <1>3 DEF Saves
  <1>5. p = 0 => insts[p + 1].x = 0
    BY <1>1 DEF Saves
  <1>6. insts[p + 1].x = 0 => p = 0
    <2>1. ASSUME insts[p + 1].x = 0 PROVE 1 = p + 1
      <3>1. Saves(insts, p + 1, 0)
        BY <2>1 DEF Saves
      <3>2. 0 \in Slots(insts, 1) /\ 0 \in Slots(insts, p + 1)
        BY <1>1, <3>1, SaveSlots
      <3> QED
        BY <1>2, <3>2, WrittenOnce
    <2> QED
      BY <1>2, <2>1
  <1>7. p = N - 2 => insts[p + 1].x = 1
    BY <1>1 DEF Saves
  <1> QED
    BY <1>1, <1>2, <1>3, <1>4, <1>5, <1>6, <1>7

\* save.
LEMMA ThreadSaves ==
    ASSUME Sound(insts), src \in Seq(STRING), NEW b \in Nat,
           NEW p, NEW s, NEW md, Thread(p, s, md, b), insts[p + 1].op = "save",
           NEW r, r = setCapture(md, insts[p + 1].x, s)
    PROVE  Thread(p + 1, s, r, b)
  <1> DEFINE x == insts[p + 1].x
  <1>1. /\ p \in 0..N - 1 /\ N \in Nat /\ Len(src) \in Nat
        /\ s \in b..Len(src) /\ s \in 0..Len(src) + 1 /\ md \in CaptureArrays
    BY SoundEnds DEF Thread
  <1>2. p \in 0..N - 2 /\ x \in Nat /\ (p = 0 <=> x = 0) /\ (p = N - 2 => x = 1)
    BY <1>1, SaveKind
  <1>3. PICK c \in Nat : Saves(insts, p + 1, 2 * c) \/ Saves(insts, p + 1, 2 * c + 1)
    BY <1>1, SaveKind
  <1>4. x = 2 * c \/ x = 2 * c + 1
    BY <1>3 DEF Saves
  <1>5. /\ r \in CaptureArrays /\ Capture(r, x) = s
        /\ \A k \in Nat : k # x => /\ Capture(r, k) = Capture(md, k)
                                   /\ IsPosCapture(r, k) = IsPosCapture(md, k)
    <2>1. r = setCapture(md, x, s)
      OBVIOUS
    <2> HIDE DEF x
    <2> QED
      BY <2>1, <1>1, <1>2, SetCapture
  <1>6. Captured(p, s, md) /\ (IF p = 0 THEN s = b ELSE Capture(md, 0) = b)
    BY DEF Thread
  <1> HIDE DEF x
  <1>7. Capture(r, 0) = b
    BY <1>2, <1>5, <1>6
  <1>8. p + 1 = N - 1 => Capture(r, 1) = s
    BY <1>1, <1>2, <1>5
  <1>9. \A i \in Nat : 2 * i \in Nat /\ 2 * i + 1 \in Nat /\ 2 * i # 2 * c + 1 /\ 2 * i + 1 # 2 * c
                       /\ (i # c => 2 * i # 2 * c /\ 2 * i + 1 # 2 * c + 1)
    OBVIOUS
  <1>10. ASSUME NEW i \in Nat, i # c
         PROVE  /\ Capture(r, 2 * i) = Capture(md, 2 * i)
                /\ IsPosCapture(r, 2 * i) = IsPosCapture(md, 2 * i)
                /\ Capture(r, 2 * i + 1) = Capture(md, 2 * i + 1)
    <2>1. 2 * i # x /\ 2 * i + 1 # x
      BY <1>4, <1>9, <1>10
    <2> QED
      BY <1>5, <1>9, <2>1
  <1>11. Captured(p + 1, s, r)
    <2>1. CASE Saves(insts, p + 1, 2 * c)
      <3>1. x = 2 * c
        BY <2>1 DEF Saves, x
      <3>2. /\ Opened(p + 1) = Opened(p) \cup {c} /\ Closed(p + 1) = Closed(p)
            /\ c \notin Closed(p)
        BY <1>2, <2>1, OneOpened
      <3>3. Capture(r, 2 * c) <= s
        BY <1>1, <1>5, <3>1
      <3> QED
        BY <1>6, <1>10, <3>2, <3>3 DEF Captured
    <2>2. CASE Saves(insts, p + 1, 2 * c + 1)
      <3>1. x = 2 * c + 1
        BY <2>2 DEF Saves, x
      <3>2. /\ Opened(p + 1) = Opened(p) /\ Closed(p + 1) = Closed(p) \cup {c}
            /\ c \in Opened(p)
        BY <1>2, <2>2, OneClosed
      <3>3. Capture(r, 2 * c + 1) = s /\ Capture(r, 2 * c) = Capture(md, 2 * c)
        BY <1>5, <1>9, <3>1
      <3>4. Capture(md, 2 * c) <= s
        BY <1>6, <3>2 DEF Captured
      <3>5. Capture(r, 2 * c) <= s /\ Capture(r, 2 * c + 1) <= Len(src)
            /\ Capture(r, 2 * c) <= Capture(r, 2 * c + 1)
        BY <1>1, <3>3, <3>4
      <3> QED
        BY <1>6, <1>10, <3>2, <3>5 DEF Captured
    <2> QED
      BY <1>3, <2>1, <2>2
  <1> QED
    BY <1>1, <1>2, <1>5, <1>7, <1>8, <1>11 DEF Thread

\* psave.
LEMMA ThreadSavesPosition ==
    ASSUME Sound(insts), src \in Seq(STRING), NEW b \in Nat,
           NEW p, NEW s, NEW md, Thread(p, s, md, b), insts[p + 1].op = "psave",
           NEW r, r = addPosCapture(md, insts[p + 1].x, s + 1)
    PROVE  Thread(p + 1, s, r, b)
  <1>1. /\ p \in 0..N - 1 /\ N \in Nat /\ N > 2 /\ Len(src) \in Nat
        /\ s \in b..Len(src) /\ s + 1 \in 0..Len(src) + 1 /\ md \in CaptureArrays
    BY SoundEnds DEF Thread
  <1>2. p # 0 /\ p + 1 # N - 1 /\ p + 1 # N
    BY <1>1, SoundEnds DEF Saves
  <1>3. p \in 0..N - 2 /\ p + 1 \in 1..N - 1
    BY <1>1, <1>2
  <1>4. PICK c \in 1..N : insts[p + 1].x = 2 * c
    <2>1. ASSUME NEW i \in 1..N - 1, insts[i].op = "psave" PROVE \E c \in 1..N : insts[i].x = 2 * c
      <3>1. \/ insts[i].op # "psave"
            \/ \E c \in 0..N : Saves(insts, i, 2 * c) \/ Saves(insts, i, 2 * c + 1)
            \/ \E c \in 1..N : insts[i].op = "psave" /\ insts[i].x = 2 * c
        BY DEF Sound, N
      <3> QED
        BY <2>1, <3>1 DEF Saves
    <2> QED
      BY <1>3, <2>1
  <1>5. c \in Nat /\ c > 0 /\ 2 * c \in Nat /\ 0 # 2 * c /\ 0 # 2 * c + 1
    BY <1>1
  <1>6. /\ r \in CaptureArrays /\ IsPosCapture(r, 2 * c)
        /\ \A k \in Nat : k # 2 * c /\ k # 2 * c + 1 =>
             Capture(r, k) = Capture(md, k) /\ IsPosCapture(r, k) = IsPosCapture(md, k)
    <2>1. PICK slot \in Nat : slot = 2 * c
      BY <1>5
    <2>2. PICK at \in 0..Len(src) + 1 : at = s + 1
      BY <1>1
    <2>3. r = addPosCapture(md, slot, at)
      BY <1>4, <2>1, <2>2
    <2>4. PosWritten(r, md, slot)
      BY <1>1, <2>1, <2>2, <2>3, AddPosCapture
    <2> QED
      BY <2>1, <2>4 DEF PosWritten
  <1>7. Captured(p, s, md) /\ Capture(md, 0) = b
    BY <1>2 DEF Thread
  <1>8. Capture(r, 0) = b
    BY <1>5, <1>6, <1>7
  <1>9. ASSUME NEW i \in Nat, i # c
        PROVE  /\ Capture(r, 2 * i) = Capture(md, 2 * i)
               /\ IsPosCapture(r, 2 * i) = IsPosCapture(md, 2 * i)
               /\ Capture(r, 2 * i + 1) = Capture(md, 2 * i + 1)
    <2>1. /\ 2 * i \in Nat /\ 2 * i # 2 * c /\ 2 * i # 2 * c + 1
          /\ 2 * i + 1 \in Nat /\ 2 * i + 1 # 2 * c /\ 2 * i + 1 # 2 * c + 1
      BY <1>5, <1>9
    <2> QED
      BY <1>6, <2>1
  <1>10. /\ Opened(p + 1) = Opened(p) /\ Closed(p + 1) = Closed(p)
         /\ c \notin Opened(p) /\ c \notin Closed(p)
    BY <1>3, <1>4, <1>5, <1>1, OnePosition, ClosedOpened
  <1>11. Captured(p + 1, s, r)
    BY <1>6, <1>7, <1>9, <1>10 DEF Captured
  <1> QED
    BY <1>1, <1>2, <1>3, <1>6, <1>8, <1>11 DEF Thread

\* The captures of a thread that has saved its end.
LEMMA ThreadSliced ==
    ASSUME Sound(insts), src \in Seq(STRING), NEW b \in Nat,
           NEW s, NEW md, Thread(N - 1, s, md, b)
    PROVE  Sliced(md) /\ md \in CaptureArrays /\ Capture(md, 0) = b /\ Capture(md, 1) = s
  <1>1. N \in Nat /\ N > 2 /\ N - 1 \in 0..N - 1 /\ N - 1 # 0 /\ Len(src) \in Nat
    BY SoundEnds
  <1>2. Captured(N - 1, s, md) /\ Opened(N - 1) \subseteq Closed(N - 1)
    BY <1>1, ClosedOpened DEF Thread
  <1>3. Sliced(md)
    <2> SUFFICES ASSUME NEW i \in Nat, ~IsPosCapture(md, 2 * i)
                 PROVE  /\ Capture(md, 2 * i) <= Capture(md, 2 * i + 1)
                        /\ Capture(md, 2 * i + 1) <= Len(src)
      BY DEF Sliced
    <2>1. CASE i \in Opened(N - 1)
      BY <1>2, <2>1 DEF Captured
    <2>2. CASE i \notin Opened(N - 1)
      <3>1. Capture(md, 2 * i) = 0 /\ Capture(md, 2 * i + 1) = 0
        BY <1>2, <2>2 DEF Captured
      <3> QED
        BY <1>1, <3>1
    <2> QED
      BY <2>1, <2>2
  <1> QED
    BY <1>1, <1>3 DEF Thread

-----------------------------------------------------------------------------
(* What is consumed.                                                       *)

\* A set of natural numbers has a smallest member.
LEMMA SmallestExists ==
    ASSUME NEW P \in SUBSET Nat, P # {}
    PROVE  \E x \in P : \A y \in P : x <= y
  <1> DEFINE less == OpToRel(<, Nat)
  <1>1. IsWellFoundedOn(less, Nat)
    BY NatLessThanWellFounded
  <1>2. \A y, x \in Nat : y < x => <<y, x>> \in less
    BY DEF OpToRel
  <1> HIDE DEF less
  <1>3. PICK x \in P : \A y \in P : ~ (<<y, x>> \in less)
    BY <1>1, WFMin, Zenon
  <1>4. ASSUME NEW y \in P PROVE x <= y
    <2>1. x \in Nat /\ y \in Nat /\ ~ (y < x)
      BY <1>2, <1>3
    <2> QED
      BY <2>1
  <1> QED
    BY <1>4

\* A balanced run ends inside the subject, after its beginning.
LEMMA BraceEnds ==
    ASSUME src \in Seq(STRING), NEW i \in 0..Len(src), NEW open, NEW close
    PROVE  matchBrace(open, close, i) \in {NoMatch} \cup i..Len(src)
  <1> DEFINE ends == {k \in i + 1..Len(src) : Nesting(open, close, i)[k] = 0}
  <1>1. Len(src) \in Nat
    OBVIOUS
  <1>2. ends \in SUBSET Nat /\ \A k \in ends : k \in i..Len(src)
    BY <1>1
  <1>3. matchBrace(open, close, i)
          = IF At(src, i) = Eos \/ At(src, i) # open \/ ends = {} THEN NoMatch
            ELSE CHOOSE k \in ends : \A l \in ends : k <= l
    BY DEF matchBrace
  <1> HIDE DEF ends
  <1>4. CASE ends = {}
    BY <1>3, <1>4
  <1>5. CASE ends # {}
    <2>1. \E k \in ends : \A l \in ends : k <= l
      BY <1>2, <1>5, SmallestExists
    <2>2. (CHOOSE k \in ends : \A l \in ends : k <= l) \in ends
      BY <2>1
    <2> QED
      BY <1>2, <1>3, <2>2
  <1> QED
    BY <1>4, <1>5

\* A reference consumes what its capture is long.
LEMMA BackrefEnds ==
    ASSUME src \in Seq(STRING), NEW i \in 0..Len(src), caps \in CaptureArrays, NEW index \in Nat
    PROVE  matchBackref(index, i) \in {NoMatch} \cup i..Len(src)
  <1> DEFINE from == Capture(caps, 2 * index)
             to == Capture(caps, 2 * index + 1)
  <1>1. 2 * index \in Nat /\ 2 * index + 1 \in Nat /\ Len(src) \in Nat
    OBVIOUS
  <1>2. from \in Int /\ to \in Int
    BY <1>1, CaptureType
  <1>3. \/ matchBackref(index, i) = NoMatch
        \/ /\ ~(from > to) /\ ~(i + to - from > Len(src))
           /\ matchBackref(index, i) = i + to - from
    BY DEF matchBackref
  <1> HIDE DEF from, to
  <1> QED
    BY <1>1, <1>2, <1>3

-----------------------------------------------------------------------------
(* Every step.                                                             *)

\* What the step has to leave, said of the program and the subject it keeps.
Leaves ==
    /\ status' \in {"running", "done"}
    /\ start' \in 0..Len(src) + 1
    /\ status' = "running" =>
         /\ start' <= Len(src)
         /\ Thread(pc', sp', caps', start')
         /\ stack' \in Seq(Threads)
         /\ \A k \in 1..Len(stack') : Thread(stack'[k].pc, stack'[k].sp, stack'[k].caps, start')
         /\ backtracks' \in 0..MaxBacktracks
    /\ Found(matches', start')

\* Such a step keeps the invariant.
LEMMA LeavesKeeps ==
    ASSUME IInv, status = "running", UNCHANGED <<call, program>>, Leaves
    PROVE  IInv'
  <1>1. src' = src /\ insts' = insts /\ src \in Seq(STRING) /\ Sound(insts)
    BY DEF call, program, IInv
  <1>2. N' = N /\ CaptureArrays' = CaptureArrays /\ Threads' = Threads
    BY <1>1 DEF N, CaptureArrays, Threads
  <1>3. status' = "running" => Runs'
    <2> SUFFICES ASSUME status' = "running" PROVE Runs'
      OBVIOUS
    <2>1. Thread(pc', sp', caps', start') <=> Thread(pc, sp, caps, start)'
      BY <1>1, <1>2 DEF Thread, Captured, Opened, Closed
    <2>2. ASSUME NEW k \in 1..Len(stack')
          PROVE  Thread(stack'[k].pc, stack'[k].sp, stack'[k].caps, start')
                 <=> Thread(stack[k].pc, stack[k].sp, stack[k].caps, start)'
      BY <1>1, <1>2 DEF Thread, Captured, Opened, Closed
    <2> QED
      BY <1>1, <1>2, <2>1, <2>2 DEF Leaves, Runs
  <1>4. Found(matches, start)'
    BY <1>1, <1>2 DEF Leaves, Found, Sliced
  <1> QED
    BY <1>1, <1>3, <1>4 DEF Leaves, IInv

\* The end of a run, with a match or without.
LEMMA RunEndsKeeps ==
    ASSUME IInv, status = "running", NEW ok \in BOOLEAN, NEW end, RunEnds(ok, end),
           UNCHANGED <<call, program>>, ok => Thread(N - 1, end, caps, start)
    PROVE  IInv'
  <1> DEFINE next == NextStart(ok, end)
             ms == IF ok THEN Append(matches, caps) ELSE matches
  <1>1. /\ src \in Seq(STRING) /\ Sound(insts) /\ Len(src) \in Nat /\ start \in 0..Len(src)
        /\ Found(matches, start) /\ N \in Nat /\ N > 2
    BY SoundEnds DEF IInv, Runs
  <1>2. start \in Nat
    BY <1>1
  <1>3. ok => /\ end \in start..Len(src) /\ Sliced(caps) /\ caps \in CaptureArrays
              /\ Capture(caps, 0) = start /\ Capture(caps, 1) = end
    BY <1>1, <1>2, ThreadSliced DEF Thread
  <1>4. next \in start + 1..Len(src) + 1 /\ (ok => end <= next)
    <2>1. CASE ok
      BY <2>1, <1>1, <1>3 DEF NextStart
    <2>2. CASE ~ok
      BY <2>2, <1>1 DEF NextStart
    <2> QED
      BY <2>1, <2>2
  <1> HIDE DEF next
  <1>5. Found(ms, next)
    <2>1. matches \in Seq(CaptureArrays) /\ Len(matches) \in Nat /\ Len(matches) <= start
      BY <1>1 DEF Found
    <2>2. \A k \in 1..Len(matches) : /\ Sliced(matches[k]) /\ Capture(matches[k], 0) <= Capture(matches[k], 1)
                                     /\ Capture(matches[k], 1) \in Int
                                     /\ Capture(matches[k], 1) <= start
                                     /\ Capture(matches[k], 1) <= Len(src)
      <3> SUFFICES ASSUME NEW k \in 1..Len(matches) PROVE Capture(matches[k], 1) \in Int
        BY <1>1 DEF Found
      <3>1. matches[k] \in CaptureArrays
        BY <2>1
      <3> QED
        BY <1>1, <3>1, CaptureType
    <2>3. \A k, l \in 1..Len(matches) : k < l => Capture(matches[k], 1) <= Capture(matches[l], 0)
      BY <1>1 DEF Found
    <2>4. CASE ok
      <3>1. ms \in Seq(CaptureArrays) /\ Len(ms) = Len(matches) + 1
            /\ \A k \in 1..Len(ms) : ms[k] = IF k <= Len(matches) THEN matches[k] ELSE caps
        BY <1>3, <2>1, <2>4
      <3> HIDE DEF ms
      <3>2. Len(ms) <= next
        BY <1>1, <1>4, <2>1, <3>1
      <3>3. ASSUME NEW k \in 1..Len(ms)
            PROVE  /\ Sliced(ms[k]) /\ Capture(ms[k], 0) <= Capture(ms[k], 1)
                   /\ Capture(ms[k], 1) <= next /\ Capture(ms[k], 1) <= Len(src)
        <4>1. CASE k <= Len(matches)
          <5>1. ms[k] = matches[k] /\ k \in 1..Len(matches)
            BY <3>1, <4>1, <2>1
          <5> QED
            BY <5>1, <2>2, <1>1, <1>4
        <4>2. CASE ~(k <= Len(matches))
          <5>1. ms[k] = caps
            BY <3>1, <4>2
          <5> QED
            BY <5>1, <1>1, <1>3, <1>4, <2>4
        <4> QED
          BY <4>1, <4>2
      <3>4. ASSUME NEW k \in 1..Len(ms), NEW l \in 1..Len(ms), k < l
            PROVE  Capture(ms[k], 1) <= Capture(ms[l], 0)
        <4>1. k \in 1..Len(matches) /\ ms[k] = matches[k]
          BY <2>1, <3>1, <3>4
        <4>2. CASE l <= Len(matches)
          <5>1. l \in 1..Len(matches) /\ ms[l] = matches[l]
            BY <3>1, <4>2, <2>1
          <5> QED
            BY <4>1, <5>1, <2>3, <3>4
        <4>3. CASE ~(l <= Len(matches))
          <5>1. ms[l] = caps
            BY <3>1, <4>3
          <5> QED
            BY <4>1, <5>1, <2>2, <1>3, <2>4
        <4> QED
          BY <4>2, <4>3
      <3> QED
        BY <3>1, <3>2, <3>3, <3>4 DEF Found
    <2>5. CASE ~ok
      <3>1. ms = matches
        BY <2>5
      <3>2. \A k \in 1..Len(matches) : Capture(matches[k], 1) <= next
        BY <1>1, <1>4, <2>2
      <3>3. Len(matches) <= next
        BY <1>1, <1>4, <2>1
      <3> HIDE DEF ms
      <3> QED
        BY <3>1, <3>2, <3>3, <2>1, <2>2, <2>3 DEF Found
    <2> QED
      BY <2>4, <2>5
  <1>6. /\ matches' = ms /\ start' = next /\ status' \in {"running", "done"}
        /\ status' = "running" => ~(next > Len(src))
        /\ pc' = 0 /\ sp' = next /\ caps' = <<>> /\ stack' = <<>> /\ backtracks' = 0
    BY DEF RunEnds, next
  <1>7. ASSUME status' = "running" PROVE Thread(0, next, <<>>, next)
    <2>1. next \in next..Len(src) /\ 0 \in 0..N - 1 /\ 0 # N - 1
      BY <1>1, <1>4, <1>6, <1>7
    <2>2. Opened(0) = {} /\ Closed(0) = {}
      BY DEF Opened, Closed
    <2>3. \A k \in Nat : Capture(<<>>, k) = 0
      BY DEF Capture
    <2>4. Captured(0, next, <<>>)
      BY <2>2, <2>3 DEF Captured
    <2>5. <<>> \in CaptureArrays
      BY DEF CaptureArrays
    <2> QED
      BY <2>1, <2>4, <2>5 DEF Thread
  <1>8. Leaves
    BY <1>1, <1>4, <1>5, <1>6, <1>7, BudgetAssumption DEF Leaves
  <1> QED
    BY <1>8, LeavesKeeps

\* What a running machine is known by.
LEMMA Now ==
    ASSUME IInv, status = "running"
    PROVE  /\ src \in Seq(STRING) /\ Sound(insts) /\ Len(src) \in Nat /\ N \in Nat
           /\ start \in 0..Len(src) /\ start \in Nat
           /\ Thread(pc, sp, caps, start) /\ Found(matches, start)
           /\ pc \in 0..N - 1 /\ sp \in start..Len(src) /\ sp \in 0..Len(src)
           /\ caps \in CaptureArrays
           /\ stack \in Seq(Threads) /\ backtracks \in 0..MaxBacktracks
           /\ \A k \in 1..Len(stack) : Thread(stack[k].pc, stack[k].sp, stack[k].caps, start)
  BY SoundEnds DEF IInv, Runs, Thread

\* A sequence without its last element.
LEMMA AllButLast ==
    ASSUME NEW S, NEW q \in Seq(S), NEW n \in Nat, n = Len(q), n > 0
    PROVE  /\ SubSeq(q, 1, n - 1) \in Seq(S) /\ Len(SubSeq(q, 1, n - 1)) = n - 1
           /\ \A k \in 1..n - 1 : SubSeq(q, 1, n - 1)[k] = q[k]
  OBVIOUS

\* A failed thread gives way to the last saved one.
LEMMA BacktrackKeeps ==
    ASSUME IInv, status = "running", Backtrack, UNCHANGED <<call, program>>
    PROVE  IInv'
  <1>1. CASE backtracks + 1 > MaxBacktracks \/ stack = <<>>
    <2>1. RunEnds(FALSE, sp)
      BY <1>1 DEF Backtrack
    <2> QED
      BY <2>1, RunEndsKeeps
  <1>2. CASE ~(backtracks + 1 > MaxBacktracks) /\ stack # <<>>
    <2> DEFINE n == Len(stack)
    <2>1. stack \in Seq(Threads) /\ n \in Nat /\ n > 0 /\ backtracks \in Nat
      BY <1>2, Now
    <2>2. Last(stack) = stack[n] /\ Front(stack) = SubSeq(stack, 1, n - 1)
      BY DEF Last, Front
    <2>3. /\ pc' = stack[n].pc /\ sp' = stack[n].sp /\ caps' = stack[n].caps
          /\ stack' = SubSeq(stack, 1, n - 1) /\ backtracks' = backtracks + 1
          /\ start' = start /\ matches' = matches /\ status' = status
      BY <1>2, <2>2 DEF Backtrack, Jump
    <2>4. Thread(pc', sp', caps', start')
      BY <2>1, <2>3, Now
    <2>5. stack' \in Seq(Threads) /\ Len(stack') = n - 1 /\ \A k \in 1..n - 1 : stack'[k] = stack[k]
      BY <2>1, <2>3, AllButLast
    <2>6. ASSUME NEW k \in 1..Len(stack')
          PROVE  Thread(stack'[k].pc, stack'[k].sp, stack'[k].caps, start')
      <3>1. k \in 1..n /\ stack'[k] = stack[k]
        BY <2>1, <2>5
      <3> QED
        BY <3>1, <2>3, Now
    <2>7. backtracks' \in 0..MaxBacktracks
      BY <1>2, <2>1, <2>3, Now, BudgetAssumption
    <2>8. Leaves
      BY <2>3, <2>4, <2>5, <2>6, <2>7, Now DEF Leaves
    <2> QED
      BY <2>8, LeavesKeeps
  <1> QED
    BY <1>1, <1>2

\* A step of the thread that keeps the stack.
LEMMA ThreadKeeps ==
    ASSUME IInv, status = "running", UNCHANGED <<call, program>>,
           Thread(pc', sp', caps', start), start' = start, matches' = matches, status' = status,
           stack' = stack, backtracks' = backtracks
    PROVE  IInv'
  <1>1. Leaves
    BY Now DEF Leaves
  <1> QED
    BY <1>1, LeavesKeeps

\* An instruction that consumes.
LEMMA ConsumeKeeps ==
    ASSUME IInv, status = "running", insts[pc + 1].op \in {"char", "brace", "number"},
           NEW i \in {NoMatch} \cup sp..Len(src), Consume(i), UNCHANGED <<call, program>>
    PROVE  IInv'
  <1>1. CASE i = NoMatch
    BY <1>1, BacktrackKeeps DEF Consume
  <1>2. CASE i # NoMatch
    <2>1. /\ i \in sp..Len(src) /\ pc' = pc + 1 /\ sp' = i /\ caps' = caps
          /\ stack' = stack /\ backtracks' = backtracks
          /\ start' = start /\ matches' = matches /\ status' = status
      BY <1>2 DEF Consume, Jump
    <2>2. Thread(pc + 1, i, caps, start)
      BY <2>1, Now, ThreadConsumes
    <2> QED
      BY <2>1, <2>2, ThreadKeeps
  <1> QED
    BY <1>1, <1>2

\* Find begins in the invariant,
LEMMA InitGood ==
    ASSUME Init
    PROVE  IInv
  <1>1. /\ src \in Seq(STRING) /\ Len(src) \in Nat /\ start \in 0..Len(src) /\ start \in Nat
        /\ status \in {"running", "error"} /\ (status = "running" => Sound(insts))
    BY SubjectAssumption, CompilerAssumption DEF Init
  <1>2. /\ pc = 0 /\ sp = start /\ caps = <<>> /\ stack = <<>> /\ backtracks = 0 /\ matches = <<>>
    BY DEF Init
  <1>3. ASSUME status = "running" PROVE Runs
    <2>1. N \in Nat /\ N > 2 /\ start \in start..Len(src)
      BY <1>1, <1>3, SoundEnds
    <2>2. Opened(0) = {} /\ Closed(0) = {}
      BY DEF Opened, Closed
    <2>3. \A k \in Nat : Capture(<<>>, k) = 0
      BY DEF Capture
    <2>4. Captured(0, start, <<>>)
      BY <2>2, <2>3 DEF Captured
    <2>5. <<>> \in CaptureArrays /\ 0 \in 0..N - 1 /\ 0 # N - 1
      BY <2>1 DEF CaptureArrays
    <2>6. Thread(0, start, <<>>, start)
      BY <2>1, <2>4, <2>5 DEF Thread
    <2> QED
      BY <1>1, <1>2, <2>6, BudgetAssumption DEF Runs
  <1>4. Found(<<>>, start)
    BY <1>1 DEF Found
  <1> QED
    BY <1>1, <1>2, <1>3, <1>4 DEF IInv

\* The jumps a sound program makes.
LEMMA JumpKind ==
    ASSUME Sound(insts), NEW p \in 0..N - 1, insts[p + 1].op \in {"jmp", "split"}
    PROVE  /\ Jumps(insts, p + 1, insts[p + 1].x)
           /\ insts[p + 1].op = "split" => Jumps(insts, p + 1, insts[p + 1].y)
  <1>1. p + 1 \in 1..N - 1
    BY PlainPlace, SoundEnds
  <1>2. ASSUME NEW i \in 1..N - 1, insts[i].op \in {"jmp", "split"}
        PROVE  /\ Jumps(insts, i, insts[i].x)
               /\ insts[i].op = "split" => Jumps(insts, i, insts[i].y)
    <2>1. \/ insts[i].op \notin {"jmp", "split"}
          \/ \E c \in 0..N : Saves(insts, i, 2 * c) \/ Saves(insts, i, 2 * c + 1)
          \/ insts[i].op = "jmp" /\ Jumps(insts, i, insts[i].x)
          \/ insts[i].op = "split" /\ Jumps(insts, i, insts[i].x) /\ Jumps(insts, i, insts[i].y)
      BY DEF Sound, N
    <2> QED
      BY <1>2, <2>1 DEF Saves
  <1> QED
    BY <1>1, <1>2

\* The capture an instruction number refers to.
LEMMA NumberKind ==
    ASSUME Sound(insts), NEW p \in 0..N - 1, insts[p + 1].op = "number"
    PROVE  insts[p + 1].x \in Nat
  <1>1. p + 1 \in 1..N - 1
    BY PlainPlace, SoundEnds
  <1>2. ASSUME NEW i \in 1..N - 1, insts[i].op = "number" PROVE insts[i].x \in Nat
    <2>1. \/ insts[i].op # "number"
          \/ \E c \in 0..N : Saves(insts, i, 2 * c) \/ Saves(insts, i, 2 * c + 1)
          \/ insts[i].x \in Nat
      BY DEF Sound, N
    <2> QED
      BY <1>2, <2>1 DEF Saves
  <1> QED
    BY <1>1, <1>2

\* match and tailMatch are the last instruction.
LEMMA MatchKind ==
    ASSUME Sound(insts), NEW p \in 0..N - 1, insts[p + 1].op \in {"match", "tailMatch"}
    PROVE  p = N - 1
  <1>1. ASSUME NEW i \in 1..N - 1 PROVE insts[i].op \notin {"match", "tailMatch"}
    <2>1. \/ insts[i].op \in {"char", "brace", "number", "jmp", "split", "psave"}
          \/ \E c \in 0..N : Saves(insts, i, 2 * c) \/ Saves(insts, i, 2 * c + 1)
      BY DEF Sound, N
    <2> QED
      BY <2>1 DEF Saves
  <1> QED
    BY <1>1, SoundEnds

\* every instruction keeps it,
LEMMA NextGood ==
    ASSUME IInv, [Next]_vars
    PROVE  IInv'
  <1>1. ASSUME opChar PROVE IInv'
    <2> DEFINE i == IF sp < Len(src) /\ matchClass(inst.class, At(src, sp)) THEN sp + 1 ELSE NoMatch
    <2>1. status = "running" /\ insts[pc + 1].op = "char" /\ Consume(i) /\ UNCHANGED <<call, program>>
      BY <1>1 DEF opChar, Running
    <2>2. i \in {NoMatch} \cup sp..Len(src)
      BY <2>1, Now
    <2> HIDE DEF i
    <2> QED
      BY <2>1, <2>2, ConsumeKeeps
  <1>2. ASSUME opBrace PROVE IInv'
    <2> DEFINE i == matchBrace(inst.x, inst.y, sp)
    <2>1. status = "running" /\ insts[pc + 1].op = "brace" /\ Consume(i) /\ UNCHANGED <<call, program>>
      BY <1>2 DEF opBrace, Running
    <2>2. i \in {NoMatch} \cup sp..Len(src)
      BY <2>1, Now, BraceEnds
    <2> HIDE DEF i
    <2> QED
      BY <2>1, <2>2, ConsumeKeeps
  <1>3. ASSUME opNumber PROVE IInv'
    <2> DEFINE i == matchBackref(inst.x, sp)
    <2>1. status = "running" /\ insts[pc + 1].op = "number" /\ Consume(i) /\ UNCHANGED <<call, program>>
      BY <1>3 DEF opNumber, Running
    <2>2. i \in {NoMatch} \cup sp..Len(src)
      BY <2>1, Now, NumberKind, BackrefEnds DEF inst
    <2> HIDE DEF i
    <2> QED
      BY <2>1, <2>2, ConsumeKeeps
  <1>4. ASSUME opMatch PROVE IInv'
    <2>1. status = "running" /\ insts[pc + 1].op = "match" /\ RunEnds(TRUE, sp) /\ UNCHANGED <<call, program>>
      BY <1>4 DEF opMatch, Running
    <2>2. Thread(N - 1, sp, caps, start)
      BY <2>1, Now, MatchKind
    <2> QED
      BY <2>1, <2>2, RunEndsKeeps
  <1>5. ASSUME opTailMatch PROVE IInv'
    <2>1. /\ status = "running" /\ insts[pc + 1].op = "tailMatch" /\ UNCHANGED <<call, program>>
          /\ RunEnds(TRUE, sp) \/ Backtrack
      BY <1>5 DEF opTailMatch, Running
    <2>2. Thread(N - 1, sp, caps, start)
      BY <2>1, Now, MatchKind
    <2> QED
      BY <2>1, <2>2, RunEndsKeeps, BacktrackKeeps
  <1>6. ASSUME opJmp PROVE IInv'
    <2>1. /\ status = "running" /\ insts[pc + 1].op = "jmp" /\ UNCHANGED <<call, program>>
          /\ pc' = insts[pc + 1].x /\ sp' = sp /\ caps' = caps /\ stack' = stack
          /\ backtracks' = backtracks /\ start' = start /\ matches' = matches /\ status' = status
      BY <1>6 DEF opJmp, Running, Jump, inst
    <2>2. Thread(insts[pc + 1].x, sp, caps, start)
      BY <2>1, Now, JumpKind, ThreadJumps
    <2> QED
      BY <2>1, <2>2, ThreadKeeps
  <1>7. ASSUME opSplit PROVE IInv'
    <2> DEFINE t == [pc |-> insts[pc + 1].y, sp |-> sp, caps |-> caps]
    <2>1. /\ status = "running" /\ insts[pc + 1].op = "split" /\ UNCHANGED <<call, program>>
          /\ pc' = insts[pc + 1].x /\ sp' = sp /\ caps' = caps /\ stack' = Append(stack, t)
          /\ backtracks' = backtracks /\ start' = start /\ matches' = matches /\ status' = status
      BY <1>7 DEF opSplit, Running, Jump, inst
    <2>2. Thread(insts[pc + 1].x, sp, caps, start) /\ Thread(insts[pc + 1].y, sp, caps, start)
      BY <2>1, Now, JumpKind, ThreadJumps
    <2>3. t.pc = insts[pc + 1].y /\ t.sp = sp /\ t.caps = caps
      OBVIOUS
    <2>4. t \in Threads
      <3>1. insts[pc + 1].y \in Nat /\ sp \in Nat /\ caps \in CaptureArrays
        BY <2>1, <2>2, Now DEF Thread
      <3> QED
        BY <3>1 DEF Threads
    <2> HIDE DEF t
    <2>5. /\ stack' \in Seq(Threads) /\ Len(stack') = Len(stack) + 1 /\ Len(stack) \in Nat
          /\ \A k \in 1..Len(stack) : stack'[k] = stack[k]
          /\ stack'[Len(stack) + 1] = t
      BY <2>1, <2>4, Now
    <2>6. ASSUME NEW k \in 1..Len(stack')
          PROVE  Thread(stack'[k].pc, stack'[k].sp, stack'[k].caps, start')
      <3>1. CASE k \in 1..Len(stack)
        BY <3>1, <2>1, <2>5, Now
      <3>2. CASE k = Len(stack) + 1
        BY <3>2, <2>1, <2>2, <2>3, <2>5
      <3> QED
        BY <3>1, <3>2, <2>5
    <2>7. Leaves
      BY <2>1, <2>2, <2>5, <2>6, Now DEF Leaves
    <2> QED
      BY <2>1, <2>7, LeavesKeeps
  <1>8. ASSUME opSave PROVE IInv'
    <2>1. /\ status = "running" /\ insts[pc + 1].op = "save" /\ UNCHANGED <<call, program>>
          /\ pc' = pc + 1 /\ sp' = sp /\ caps' = setCapture(caps, insts[pc + 1].x, sp)
          /\ stack' = stack /\ backtracks' = backtracks
          /\ start' = start /\ matches' = matches /\ status' = status
      BY <1>8 DEF opSave, Running, Jump, inst
    <2>2. Thread(pc + 1, sp, setCapture(caps, insts[pc + 1].x, sp), start)
      BY <2>1, Now, ThreadSaves
    <2> QED
      BY <2>1, <2>2, ThreadKeeps
  <1>9. ASSUME opPSave PROVE IInv'
    <2>1. /\ status = "running" /\ insts[pc + 1].op = "psave" /\ UNCHANGED <<call, program>>
          /\ pc' = pc + 1 /\ sp' = sp /\ caps' = addPosCapture(caps, insts[pc + 1].x, sp + 1)
          /\ stack' = stack /\ backtracks' = backtracks
          /\ start' = start /\ matches' = matches /\ status' = status
      BY <1>9 DEF opPSave, Running, Jump, inst
    <2>2. Thread(pc + 1, sp, addPosCapture(caps, insts[pc + 1].x, sp + 1), start)
      BY <2>1, Now, ThreadSavesPosition
    <2> QED
      BY <2>1, <2>2, ThreadKeeps
  <1>10. ASSUME UNCHANGED vars PROVE IInv'
    <2>1. /\ src' = src /\ insts' = insts /\ status' = status /\ start' = start /\ matches' = matches
          /\ pc' = pc /\ sp' = sp /\ caps' = caps /\ stack' = stack /\ backtracks' = backtracks
      BY <1>10 DEF vars, call, program, machine
    <2>2. N' = N /\ CaptureArrays' = CaptureArrays /\ Threads' = Threads
      BY <2>1 DEF N, CaptureArrays, Threads
    <2>3. Runs' <=> Runs
      BY <2>1, <2>2 DEF Runs, Thread, Captured, Opened, Closed
    <2>4. Found(matches, start)' <=> Found(matches, start)
      BY <2>1, <2>2 DEF Found, Sliced
    <2> QED
      BY <2>1, <2>3, <2>4 DEF IInv
  <1> QED
    BY <1>1, <1>2, <1>3, <1>4, <1>5, <1>6, <1>7, <1>8, <1>9, <1>10 DEF Next

\* and so it always holds.
LEMMA SpecGood == Spec => []IInv
  <1>1. Init => IInv
    BY InitGood
  <1>2. IInv /\ [Next]_vars => IInv'
    BY NextGood
  <1> QED
    BY <1>1, <1>2, PTL DEF Spec

-----------------------------------------------------------------------------
(* Matches replaced by themselves.                                         *)

\* Slices that follow each other.
LEMMA Joined ==
    ASSUME src \in Seq(STRING), NEW a \in 0..Len(src), NEW b \in a..Len(src)
    PROVE  SubSeq(src, 1, a) \o SubSeq(src, a + 1, b) = SubSeq(src, 1, b)
  <1>1. Len(src) \in Nat
    OBVIOUS
  <1>2. 1 \in 1..Len(src) + 1 /\ a \in 1 - 1..Len(src)
    BY <1>1
  <1> QED
    BY <1>2, ConcatAdjacentSubSeq

\* gsub puts the subject together again.
LEMMA SpliceIs ==
    ASSUME src \in Seq(STRING), NEW L \in Nat, NEW info, Len(info) = L,
           \A k \in 1..L : /\ info[k].from \in 0..Len(src)
                           /\ info[k].to \in info[k].from..Len(src)
                           /\ info[k].string = Slice(info[k].from, info[k].to),
           \A k, l \in 1..L : k < l => info[k].to <= info[l].from
    PROVE  strGsubDoReplace(info) = src
  <1> DEFINE O(n) == IF n = 0 THEN 0 ELSE info[n].to
             Body(f) == [n \in 0..L |->
                           IF n = 0 THEN <<>>
                           ELSE f[n - 1] \o Slice(O(n - 1), info[n].from) \o info[n].string]
             buf == CHOOSE f : f = Body(f)
             g == [n \in 0..L |-> SubSeq(src, 1, O(n))]
  <1>1. strGsubDoReplace(info) = buf[L] \o Slice(O(L), Len(src))
    BY DEF strGsubDoReplace
  <1>2. Len(src) \in Nat /\ \A n \in 0..L : O(n) \in 0..Len(src)
    <2>1. Len(src) \in Nat
      OBVIOUS
    <2>2. ASSUME NEW n \in 0..L PROVE O(n) \in 0..Len(src)
      <3>1. CASE n = 0
        BY <3>1, <2>1
      <3>2. CASE n # 0
        <4>1. n \in 1..L
          BY <3>2
        <4> QED
          BY <4>1, <3>2, <2>1
      <3> QED
        BY <3>1, <3>2
    <2> QED
      BY <2>1, <2>2
  <1>3. ASSUME NEW n \in 1..L
        PROVE  SubSeq(src, 1, O(n))
                 = SubSeq(src, 1, O(n - 1)) \o Slice(O(n - 1), info[n].from) \o info[n].string
    <2> DEFINE a == O(n - 1)
               b == info[n].from
               c == info[n].to
    <2>1. a \in 0..Len(src)
      <3>1. n - 1 \in 0..L
        OBVIOUS
      <3> QED
        BY <3>1, <1>2
    <2>2. b \in 0..Len(src) /\ c \in b..Len(src) /\ info[n].string = SubSeq(src, b + 1, c)
      BY DEF Slice
    <2>3. a <= b
      <3>1. CASE n = 1
        BY <3>1, <2>2
      <3>2. CASE n # 1
        <4>1. n - 1 \in 1..L /\ n - 1 < n /\ n - 1 # 0
          BY <3>2
        <4> QED
          BY <4>1
      <3> QED
        BY <3>1, <3>2
    <2>4. O(n) = c /\ Slice(a, b) = SubSeq(src, a + 1, b)
      BY DEF Slice
    <2> HIDE DEF a, b, c, O
    <2>5. b \in a..Len(src)
      BY <2>1, <2>2, <2>3
    <2>6. SubSeq(src, 1, a) \o SubSeq(src, a + 1, b) = SubSeq(src, 1, b)
      BY <2>1, <2>5, Joined
    <2>7. SubSeq(src, 1, b) \o SubSeq(src, b + 1, c) = SubSeq(src, 1, c)
      BY <2>2, Joined
    <2>8. SubSeq(src, 1, O(n)) = SubSeq(src, 1, a) \o Slice(a, b) \o info[n].string
      BY <2>2, <2>4, <2>6, <2>7
    <2> QED
      BY <2>8 DEF a, b
  <1>4. SubSeq(src, 1, 0) = <<>> /\ O(0) = 0
    BY SubSeqEmpty
  <1> HIDE DEF O
  <1>5. g = Body(g)
    <2>1. ASSUME NEW n \in 0..L
          PROVE  g[n] = IF n = 0 THEN <<>>
                        ELSE g[n - 1] \o Slice(O(n - 1), info[n].from) \o info[n].string
      <3>1. CASE n = 0
        BY <3>1, <1>4
      <3>2. CASE n # 0
        <4>1. n \in 1..L /\ n - 1 \in 0..L
          BY <3>2
        <4>2. g[n] = SubSeq(src, 1, O(n)) /\ g[n - 1] = SubSeq(src, 1, O(n - 1))
          BY <4>1
        <4> HIDE DEF g
        <4> QED
          BY <3>2, <4>1, <4>2, <1>3
      <3> QED
        BY <3>1, <3>2
    <2> QED
      BY <2>1
  <1>6. buf = Body(buf)
    <2>1. \E f : f = Body(f)
      BY <1>5
    <2> HIDE DEF Body
    <2> QED
      BY <2>1
  <1> HIDE DEF buf
  <1>7. \A n \in 0..L : buf[n] = IF n = 0 THEN <<>>
                                 ELSE buf[n - 1] \o Slice(O(n - 1), info[n].from) \o info[n].string
    BY <1>6
  <1> DEFINE B == {n \in 0..L : buf[n] # SubSeq(src, 1, O(n))}
  <1>8. B = {}
    <2> SUFFICES ASSUME B # {} PROVE FALSE
      OBVIOUS
    <2>1. B \in SUBSET Nat
      OBVIOUS
    <2> HIDE DEF B
    <2>2. PICK x \in B : \A y \in B : x <= y
      BY <2>1, SmallestExists
    <2>3. x \in 0..L /\ buf[x] # SubSeq(src, 1, O(x))
      BY DEF B
    <2>4. x # 0
      BY <2>3, <1>4, <1>7
    <2>5. x - 1 \in 0..L /\ x \in 1..L /\ ~(x <= x - 1)
      BY <2>3, <2>4
    <2>6. buf[x - 1] = SubSeq(src, 1, O(x - 1))
      BY <2>2, <2>5 DEF B
    <2>7. buf[x] = buf[x - 1] \o Slice(O(x - 1), info[x].from) \o info[x].string
      BY <2>3, <2>4, <1>7
    <2>8. SubSeq(src, 1, O(x))
            = SubSeq(src, 1, O(x - 1)) \o Slice(O(x - 1), info[x].from) \o info[x].string
      BY <2>5, <1>3
    <2>9. buf[x] = SubSeq(src, 1, O(x - 1)) \o Slice(O(x - 1), info[x].from) \o info[x].string
      BY <2>6, <2>7, Zenon
    <2>10. buf[x] = SubSeq(src, 1, O(x))
      BY <2>8, <2>9, Zenon
    <2> QED
      BY <2>3, <2>10, Zenon
  <1>9. buf[L] = SubSeq(src, 1, O(L)) /\ O(L) \in 0..Len(src)
    <2>1. L \in 0..L /\ L \notin B
      BY <1>8
    <2> QED
      BY <2>1, <1>2
  <1>10. SubSeq(src, 1, O(L)) \o SubSeq(src, O(L) + 1, Len(src)) = SubSeq(src, 1, Len(src))
    <2>1. Len(src) \in O(L)..Len(src)
      BY <1>2, <1>9
    <2> QED
      BY <1>9, <2>1, Joined
  <1>11. SubSeq(src, 1, Len(src)) = src
    BY SubSeqFull
  <1> QED
    BY <1>1, <1>9, <1>10, <1>11 DEF Slice

-----------------------------------------------------------------------------
(* The theorems.                                                           *)

\* The machine stays inside its program, its subject and its budget: no saved
\* thread and no jump leads out of them, and Find has room for its matches.
THEOREM TypeCorrect == Spec => []TypeOK
  <1>1. IInv => TypeOK
    <2> SUFFICES ASSUME IInv PROVE TypeOK
      OBVIOUS
    <2>1. Len(src) \in Nat /\ Len(matches) <= start /\ start \in 0..Len(src) + 1 /\ Len(matches) \in Nat
      BY DEF IInv, Found
    <2>2. ASSUME status = "running"
          PROVE  /\ pc \in 0..Len(insts) - 1 /\ sp \in Offsets /\ caps \in CaptureArrays
                 /\ backtracks \in 0..MaxBacktracks
                 /\ \A k \in 1..Len(stack) : /\ stack[k].pc \in 0..Len(insts) - 1
                                             /\ stack[k].sp \in Offsets
                                             /\ stack[k].caps \in CaptureArrays
      <3>1. \A x \in start..Len(src) : x \in Offsets
        BY <2>1 DEF Offsets
      <3> QED
        BY <2>2, <3>1 DEF IInv, Runs, Thread, N
    <2> QED
      BY <2>1, <2>2 DEF IInv, TypeOK
  <1> QED
    BY <1>1, SpecGood, PTL

\* Every capture of every match is a slice of the subject: capturedString and
\* strMatch slice at its offsets, which a bad program, a reference to an open
\* capture or a thread that lost its captures could put out of order.
THEOREM CapturesAreSlices == Spec => []CapturesSlice
  <1>1. IInv => CapturesSlice
    <2> SUFFICES ASSUME IInv, NEW k \in 1..Len(matches), NEW i \in 0..Len(matches[k])
                 PROVE  \/ IsPosCapture(matches[k], 2 * i)
                        \/ /\ Capture(matches[k], 2 * i) <= Capture(matches[k], 2 * i + 1)
                           /\ Capture(matches[k], 2 * i + 1) <= Len(src)
      BY DEF CapturesSlice
    <2>1. matches[k] \in CaptureArrays /\ Sliced(matches[k])
      BY DEF IInv, Found
    <2>2. i \in Nat
      BY <2>1, ArrayType
    <2> QED
      BY <2>1, <2>2 DEF Sliced
  <1> QED
    BY <1>1, SpecGood, PTL

\* gsub can splice whatever Find answers: matches come in order, do not overlap
\* and end in the subject, also after runs that were given up, so that replacing
\* each by itself gives the subject back.
THEOREM ReplacedByItself == Spec => []IdentityReplace
  <1>1. IInv => IdentityReplace
    <2> SUFFICES ASSUME IInv PROVE IdentityReplace
      OBVIOUS
    <2> DEFINE L == Len(matches)
               info == [k \in 1..L |->
                          [from |-> Capture(matches[k], 0), to |-> Capture(matches[k], 1),
                           string |-> Slice(Capture(matches[k], 0), Capture(matches[k], 1))]]
    <2>1. src \in Seq(STRING) /\ Len(src) \in Nat /\ L \in Nat /\ matches \in Seq(CaptureArrays)
      BY DEF IInv, Found
    <2>2. Len(info) = L
      BY <2>1
    <2>3. \A k \in 1..L : /\ info[k].from = Capture(matches[k], 0) /\ info[k].to = Capture(matches[k], 1)
                          /\ info[k].string = Slice(Capture(matches[k], 0), Capture(matches[k], 1))
      OBVIOUS
    <2> HIDE DEF info
    <2>4. ASSUME NEW k \in 1..L
          PROVE  /\ info[k].from \in 0..Len(src) /\ info[k].to \in info[k].from..Len(src)
                 /\ info[k].string = Slice(info[k].from, info[k].to)
      <3>1. matches[k] \in CaptureArrays
        BY <2>1
      <3>2. /\ Capture(matches[k], 0) \in 0..Len(src) + 1 /\ Capture(matches[k], 1) \in 0..Len(src) + 1
        BY <2>1, <3>1, CaptureType
      <3>3. /\ Capture(matches[k], 0) <= Capture(matches[k], 1)
            /\ Capture(matches[k], 1) <= Len(src)
        BY DEF IInv, Found
      <3> QED
        BY <2>1, <2>3, <3>2, <3>3
    <2>5. \A k, l \in 1..L : k < l => info[k].to <= info[l].from
      BY <2>3 DEF IInv, Found
    <2>6. strGsubDoReplace(info) = src
      BY <2>1, <2>2, <2>4, <2>5, SpliceIs
    <2> QED
      BY <2>6 DEF IdentityReplace, info
  <1> QED
    BY <1>1, SpecGood, PTL
=============================================================================
