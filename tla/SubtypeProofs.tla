---------------------------- MODULE SubtypeProofs ----------------------------
(***************************************************************************)
(* For any rules that are monotone in the sense of Subtype's assumptions,  *)
(* any types and any limit: the memos of a session are sound.              *)
(*                                                                         *)
(* The activations on the Go stack carry the argument.  Sound is about     *)
(* the answers an activation has collected: a refusal is real unless the   *)
(* limit was met since the activation began.  Trailed is about the         *)
(* assumptions: the trail up to the mark of any activation supports        *)
(* itself, but for the pairs still in progress, so that cutting it there   *)
(* leaves something that supports itself too.                              *)
(***************************************************************************)
EXTENDS Subtype, TLAPS

\* Facts about sequences the provers have to be told.
LEMMA AppendIs ==
    ASSUME NEW S, NEW s \in Seq(S), NEW e \in S
    PROVE  /\ Append(s, e) \in Seq(S)
           /\ Len(Append(s, e)) = Len(s) + 1
           /\ Append(s, e)[Len(s) + 1] = e
           /\ \A i \in 1 .. Len(s) : Append(s, e)[i] = s[i]
  OBVIOUS

LEMMA PrefixIs ==
    ASSUME NEW S, NEW s \in Seq(S), NEW n \in 0 .. Len(s)
    PROVE  /\ SubSeq(s, 1, n) \in Seq(S)
           /\ Len(SubSeq(s, 1, n)) = n
           /\ \A i \in 1 .. n : SubSeq(s, 1, n)[i] = s[i]
  OBVIOUS

\* The answers of an activation, with one more.
LEMMA StepsAppend ==
    ASSUME NEW s \in Seq(Step), NEW e \in Step
    PROVE  /\ \A q : q \in Yes(Append(s, e)) <=> q \in Yes(s) \/ (e.holds /\ q = e.pair)
           /\ \A q : q \in No(Append(s, e)) <=> q \in No(s) \/ (~e.holds /\ q = e.pair)
  <1> DEFINE t == Append(s, e)
  <1>1. /\ DOMAIN s = 1 .. Len(s) /\ DOMAIN t = 1 .. Len(s) + 1
        /\ t[Len(s) + 1] = e
        /\ \A i \in 1 .. Len(s) : t[i] = s[i]
        /\ Len(s) \in Nat
    BY AppendIs
  <1>2. e.holds \in BOOLEAN
    BY DEF Step
  <1> HIDE DEF t
  <1>3. \A q : q \in Yes(t) <=> q \in Yes(s) \/ (e.holds /\ q = e.pair)
    BY <1>1, <1>2 DEF Yes
  <1>4. \A q : q \in No(t) <=> q \in No(s) \/ (~e.holds /\ q = e.pair)
    BY <1>1, <1>2 DEF No
  <1> QED
    BY <1>3, <1>4 DEF t

LEMMA NoSteps == Yes(<<>>) = {} /\ No(<<>>) = {}
  BY DEF Yes, No

-----------------------------------------------------------------------------
(* The rules.                                                              *)

LEMMA FollowsMonotone ==
    ASSUME NEW g, NEW p, NEW S, NEW T, S \subseteq T, Follows(g, p, S)
    PROVE  Follows(g, p, T)
  BY DEF Follows

\* An unguarded pair is shown only if it is true.
LEMMA UnguardedIsTrue ==
    ASSUME NEW g \in Graphs, NEW p \in Pairs, ~Guarded(p), NEW run \in Runs(g, p),
           run.holds, \A q \in Yes(run.steps) : ~Guarded(q) => q \in Truth(g)
    PROVE  p \in Truth(g)
  <1>1. Yes(run.steps) \subseteq Truth(g)
    BY UnguardedAssumption
  <1>2. Follows(g, p, Truth(g))
    BY <1>1 DEF Follows
  <1> QED
    BY <1>2, TruthAssumption

\* A pair whose rules fail on real refusals is not true.
LEMMA RefusalIsReal ==
    ASSUME NEW g \in Graphs, NEW p \in Pairs, ~Fast(p), NEW run \in Runs(g, p),
           ~run.holds, No(run.steps) \cap Truth(g) = {},
           \A q \in Yes(run.steps) : ~Guarded(q) => q \in Truth(g)
    PROVE  p \notin Truth(g)
  <1> SUFFICES ASSUME p \in Truth(g) PROVE FALSE
    OBVIOUS
  <1>1. Follows(g, p, Truth(g))
    BY TruthAssumption
  <1>2. PICK r1 \in Runs(g, p) :
          /\ r1.holds
          /\ Yes(r1.steps) \subseteq Truth(g)
          /\ Guarded(p) => \A q \in No(r1.steps) : Guarded(q) \/ q \notin Truth(g)
    BY <1>1 DEF Follows
  <1>3. \/ Yes(r1.steps) \cap No(run.steps) # {}
        \/ Guarded(p) /\ \E q \in No(r1.steps) \cap Yes(run.steps) : ~Guarded(q)
    BY <1>2, MonotoneAssumption
  <1> QED
    BY <1>2, <1>3

-----------------------------------------------------------------------------
(* The answers collected by activations fs, when the limit was met c times. *)

Sound(fs, c, g) ==
    /\ \A i \in DOMAIN fs :
          /\ ~Fast(fs[i].pair)
          /\ fs[i].cutoffs <= c
          /\ fs[i].cutoffs = c => No(fs[i].steps) \cap Truth(g) = {}
          /\ \A q \in Yes(fs[i].steps) : ~Guarded(q) => q \in Truth(g)
    /\ \A i, j \in DOMAIN fs : i < j => fs[i].cutoffs <= fs[j].cutoffs

\* Activations fs when the innermost has one more answer.
Answered(fs, e) == [fs EXCEPT ![Len(fs)].steps = Append(@, e)]

LEMMA AnsweredIs ==
    ASSUME NEW fs \in Seq(Frame), fs # <<>>, NEW e \in Step,
           NEW r, r = Answered(fs, e), NEW n, n = Len(fs)
    PROVE  /\ r \in Seq(Frame) /\ Len(r) = n /\ n \in DOMAIN fs
           /\ r[n].pair = fs[n].pair /\ r[n].mark = fs[n].mark
           /\ r[n].cutoffs = fs[n].cutoffs
           /\ \A i \in 1 .. n : i # n => r[i] = fs[i]
           /\ \A q : q \in Yes(r[n].steps) <=> q \in Yes(fs[n].steps) \/ (e.holds /\ q = e.pair)
           /\ \A q : q \in No(r[n].steps) <=> q \in No(fs[n].steps) \/ (~e.holds /\ q = e.pair)
  <1> DEFINE f == [fs[n] EXCEPT !.steps = Append(@, e)]
  <1>1. n \in 1 .. Len(fs) /\ DOMAIN fs = 1 .. n /\ fs[n] \in Frame
    OBVIOUS
  <1>2. fs[n].steps \in Seq(Step)
    BY <1>1 DEF Frame
  <1>3. f \in Frame /\ f.pair = fs[n].pair /\ f.mark = fs[n].mark
        /\ f.cutoffs = fs[n].cutoffs /\ f.steps = Append(fs[n].steps, e)
    BY <1>1, <1>2, AppendIs DEF Frame
  <1>4. r = [fs EXCEPT ![n] = f]
    BY DEF Answered
  <1> HIDE DEF f
  <1>5. r \in Seq(Frame) /\ Len(r) = n /\ r[n] = f
        /\ \A i \in 1 .. n : i # n => r[i] = fs[i]
    <2>1. fs \in [1 .. n -> Frame] /\ n \in Nat
      OBVIOUS
    <2>2. r \in [1 .. n -> Frame] /\ r[n] = f /\ \A i \in 1 .. n : i # n => r[i] = fs[i]
      BY <1>1, <1>3, <1>4, <2>1
    <2> QED
      BY <2>1, <2>2
  <1>6. /\ \A q : q \in Yes(f.steps) <=> q \in Yes(fs[n].steps) \/ (e.holds /\ q = e.pair)
        /\ \A q : q \in No(f.steps) <=> q \in No(fs[n].steps) \/ (~e.holds /\ q = e.pair)
    BY <1>2, <1>3, StepsAppend
  <1> QED
    BY <1>1, <1>3, <1>5, <1>6

LEMMA SoundAnswered ==
    ASSUME NEW fs \in Seq(Frame), fs # <<>>, NEW e \in Step,
           NEW c \in Nat, NEW g \in Graphs, Sound(fs, c, g),
           e.holds /\ ~Guarded(e.pair) => e.pair \in Truth(g),
           ~e.holds /\ fs[Len(fs)].cutoffs = c => e.pair \notin Truth(g)
    PROVE  Sound(Answered(fs, e), c, g)
  <1>0. PICK r, n : r = Answered(fs, e) /\ n = Len(fs)
    OBVIOUS
  <1>1. /\ r \in Seq(Frame) /\ Len(r) = n /\ n \in DOMAIN fs
        /\ r[n].pair = fs[n].pair /\ r[n].cutoffs = fs[n].cutoffs
    <2>1. r \in Seq(Frame) /\ Len(r) = n
      BY <1>0, AnsweredIs
    <2>2. n \in DOMAIN fs
      BY <1>0
    <2>3. r[n].pair = fs[n].pair /\ r[n].cutoffs = fs[n].cutoffs
      BY <1>0, AnsweredIs
    <2> QED
      BY <2>1, <2>2, <2>3
  <1>a. \A i \in 1 .. n : i # n => r[i] = fs[i]
    BY <1>0, AnsweredIs
  <1>b. \A q : q \in Yes(r[n].steps) <=> q \in Yes(fs[n].steps) \/ (e.holds /\ q = e.pair)
    BY <1>0, AnsweredIs, SMTT(30)
  <1>d. \A q : q \in No(r[n].steps) <=> q \in No(fs[n].steps) \/ (~e.holds /\ q = e.pair)
    BY <1>0, AnsweredIs
  <1>2. DOMAIN r = 1 .. n /\ DOMAIN fs = 1 .. n
    BY <1>0, <1>1
  <1>c. \A i \in 1 .. n : r[i].pair = fs[i].pair /\ r[i].cutoffs = fs[i].cutoffs
    BY <1>1, <1>a
  <1>3. ASSUME NEW i \in 1 .. n
        PROVE  /\ r[i].cutoffs = c => No(r[i].steps) \cap Truth(g) = {}
               /\ \A q \in Yes(r[i].steps) : ~Guarded(q) => q \in Truth(g)
    <2>1. CASE i # n
      BY <1>a, <1>2, <2>1 DEF Sound
    <2>2. CASE i = n
      BY <1>0, <1>1, <1>b, <1>d, <1>2, <2>2 DEF Sound
    <2> QED
      BY <2>1, <2>2
  <1> QED
    BY <1>0, <1>c, <1>2, <1>3 DEF Sound

LEMMA SoundCutOff ==
    ASSUME NEW fs \in Seq(Frame), NEW c \in Nat, NEW g \in Graphs, Sound(fs, c, g)
    PROVE  Sound(fs, c + 1, g)
  <1>0. \A i \in DOMAIN fs : fs[i] \in Frame
    OBVIOUS
  <1>1. \A i \in DOMAIN fs : fs[i].cutoffs \in Nat /\ fs[i].cutoffs <= c
    BY <1>0 DEF Sound, Frame
  <1>2. \A i \in DOMAIN fs : fs[i].cutoffs <= c + 1 /\ fs[i].cutoffs # c + 1
    BY <1>1
  <1> QED
    BY <1>2 DEF Sound

LEMMA SoundPush ==
    ASSUME NEW fs \in Seq(Frame), NEW f \in Frame, NEW c \in Nat, NEW g \in Graphs,
           Sound(fs, c, g), ~Fast(f.pair), f.cutoffs = c, f.steps = <<>>
    PROVE  Sound(Append(fs, f), c, g)
  <1> DEFINE r == Append(fs, f)
  <1>1. /\ DOMAIN r = 1 .. Len(fs) + 1 /\ DOMAIN fs = 1 .. Len(fs) /\ Len(fs) \in Nat
        /\ r[Len(fs) + 1] = f
        /\ \A i \in 1 .. Len(fs) : r[i] = fs[i]
    BY AppendIs
  <1> HIDE DEF r
  <1>2. Yes(f.steps) = {} /\ No(f.steps) = {}
    BY NoSteps
  <1> QED
    BY <1>1, <1>2 DEF Sound, r

LEMMA SoundPop ==
    ASSUME NEW fs \in Seq(Frame), fs # <<>>, NEW c \in Nat, NEW g \in Graphs, Sound(fs, c, g)
    PROVE  /\ SubSeq(fs, 1, Len(fs) - 1) \in Seq(Frame)
           /\ Sound(SubSeq(fs, 1, Len(fs) - 1), c, g)
  <1> DEFINE n == Len(fs) - 1
             r == SubSeq(fs, 1, n)
  <1>1. n \in 0 .. Len(fs)
    OBVIOUS
  <1>2. r \in Seq(Frame) /\ Len(r) = n /\ \A i \in 1 .. n : r[i] = fs[i]
    BY <1>1, PrefixIs
  <1>3. DOMAIN r = 1 .. n /\ 1 .. n \subseteq DOMAIN fs
    BY <1>2
  <1> HIDE DEF r, n
  <1> QED
    BY <1>2, <1>3 DEF Sound, r, n

-----------------------------------------------------------------------------
(* The trail tr under activations fs.                                      *)

Prefix(tr, b) == {tr[k] : k \in 1 .. b}
\* Unless the limit was met, p follows from S.
Backed(c, g, p, S) == c = 0 => Follows(g, p, S)
InProgress(fs, k) == \E i \in DOMAIN fs : Guarded(fs[i].pair) /\ k = fs[i].mark + 1
Supported(fs, tr, c, g, b) ==
    \A k \in 1 .. b : InProgress(fs, k) \/ Backed(c, g, tr[k], Prefix(tr, b) \cup Truth(g))
\* Where the trail was when the activation above i began.
Above(fs, tr, i) == IF i = Len(fs) THEN Len(tr) ELSE fs[i + 1].mark

Marked(fs, tr) ==
    /\ \A i \in DOMAIN fs :
          /\ fs[i].mark <= Len(tr)
          /\ Guarded(fs[i].pair) => /\ fs[i].mark < Len(tr)
                                    /\ tr[fs[i].mark + 1] = fs[i].pair
    /\ \A i, j \in DOMAIN fs : i < j =>
          /\ fs[i].mark <= fs[j].mark
          /\ Guarded(fs[i].pair) => fs[i].mark < fs[j].mark

Trailed(fs, tr, c, g) ==
    /\ Marked(fs, tr)
    /\ \A i \in DOMAIN fs : Yes(fs[i].steps) \subseteq Prefix(tr, Above(fs, tr, i)) \cup Truth(g)
    /\ Supported(fs, tr, c, g, Len(tr))
    /\ \A i \in DOMAIN fs : Supported(fs, tr, c, g, fs[i].mark)

LEMMA BackedMonotone ==
    ASSUME NEW c, NEW g, NEW p, NEW S, NEW T, S \subseteq T, Backed(c, g, p, S)
    PROVE  Backed(c, g, p, T)
  BY FollowsMonotone DEF Backed

LEMMA PrefixGrows ==
    ASSUME NEW tr, NEW a \in Nat, NEW b \in Nat, a <= b
    PROVE  Prefix(tr, a) \subseteq Prefix(tr, b)
  BY DEF Prefix

LEMMA PrefixSame ==
    ASSUME NEW tr, NEW t2, NEW b \in Nat, \A k \in 1 .. b : t2[k] = tr[k]
    PROVE  Prefix(t2, b) = Prefix(tr, b)
  BY DEF Prefix

\* What is supported stays so when more is in progress, up to the same bound.
LEMMA SupportedSame ==
    ASSUME NEW fs, NEW f2, NEW tr, NEW t2, NEW c, NEW g, NEW b \in Nat,
           \A k \in 1 .. b : t2[k] = tr[k] /\ (InProgress(fs, k) => InProgress(f2, k)),
           Supported(fs, tr, c, g, b)
    PROVE  Supported(f2, t2, c, g, b)
  <1>1. Prefix(t2, b) = Prefix(tr, b)
    BY PrefixSame
  <1> QED
    BY <1>1 DEF Supported

LEMMA TrailedAnswered ==
    ASSUME NEW fs \in Seq(Frame), fs # <<>>, NEW e \in Step, NEW tr \in Seq(Pairs),
           NEW c \in Nat, NEW g \in Graphs, Trailed(fs, tr, c, g),
           e.holds => e.pair \in Prefix(tr, Len(tr)) \cup Truth(g)
    PROVE  Trailed(Answered(fs, e), tr, c, g)
  <1>0. PICK r, n : r = Answered(fs, e) /\ n = Len(fs)
    OBVIOUS
  <1>1. r \in Seq(Frame) /\ Len(r) = n
    BY <1>0, AnsweredIs
  <1>2. r[n].pair = fs[n].pair /\ r[n].mark = fs[n].mark
    BY <1>0, AnsweredIs
  <1>3. \A i \in 1 .. n : i # n => r[i] = fs[i]
    BY <1>0, AnsweredIs
  <1>4. ASSUME NEW q \in Yes(r[n].steps)
        PROVE  q \in Yes(fs[n].steps) \/ (e.holds /\ q = e.pair)
    BY <1>0, AnsweredIs, SMTT(30)
  <1>5. DOMAIN r = 1 .. n /\ DOMAIN fs = 1 .. n /\ n \in Nat /\ n >= 1
    BY <1>0, <1>1
  <1>6. \A i \in 1 .. n : r[i].pair = fs[i].pair /\ r[i].mark = fs[i].mark
    BY <1>2, <1>3
  <1>7. Marked(r, tr)
    BY <1>5, <1>6 DEF Trailed, Marked
  <1>8. \A k : InProgress(fs, k) <=> InProgress(r, k)
    BY <1>5, <1>6 DEF InProgress
  <1>9. /\ Supported(r, tr, c, g, Len(tr))
        /\ \A i \in 1 .. n : Supported(r, tr, c, g, r[i].mark)
    BY <1>5, <1>6, <1>8 DEF Trailed, Supported
  <1>10. ASSUME NEW i \in 1 .. n
         PROVE  Yes(r[i].steps) \subseteq Prefix(tr, Above(r, tr, i)) \cup Truth(g)
    <2>1. Above(r, tr, i) = Above(fs, tr, i)
      BY <1>0, <1>1, <1>5, <1>6 DEF Above
    <2>2. Yes(fs[i].steps) \subseteq Prefix(tr, Above(fs, tr, i)) \cup Truth(g)
      BY <1>5 DEF Trailed
    <2>3. CASE i # n
      BY <1>3, <2>1, <2>2, <2>3
    <2>4. CASE i = n
      <3>1. Above(fs, tr, i) = Len(tr)
        BY <1>0, <2>4 DEF Above
      <3> QED
        BY <1>4, <2>1, <2>2, <2>4, <3>1
    <2> QED
      BY <2>3, <2>4
  <1> QED
    BY <1>0, <1>5, <1>7, <1>9, <1>10 DEF Trailed

LEMMA TrailedPush ==
    ASSUME NEW fs \in Seq(Frame), NEW f \in Frame, NEW tr \in Seq(Pairs), NEW t2,
           NEW c \in Nat, NEW g \in Graphs, Trailed(fs, tr, c, g), f.mark = Len(tr), f.steps = <<>>,
           t2 = IF Guarded(f.pair) THEN Append(tr, f.pair) ELSE tr
    PROVE  Trailed(Append(fs, f), t2, c, g)
  <1>0. PICK r, n : r = Append(fs, f) /\ n = Len(fs)
    OBVIOUS
  <1>1. /\ r \in Seq(Frame) /\ Len(r) = n + 1 /\ n \in Nat
        /\ DOMAIN r = 1 .. n + 1 /\ DOMAIN fs = 1 .. n
        /\ r[n + 1] = f /\ \A i \in 1 .. n : r[i] = fs[i]
    BY <1>0, AppendIs
  <1>2. f.pair \in Pairs
    BY DEF Frame
  <1>3. /\ \A k \in 1 .. Len(tr) : t2[k] = tr[k]
        /\ t2 \in Seq(Pairs) /\ Len(tr) \in Nat
        /\ Guarded(f.pair) => Len(t2) = Len(tr) + 1 /\ t2[Len(tr) + 1] = f.pair
        /\ ~Guarded(f.pair) => Len(t2) = Len(tr)
    BY <1>2, AppendIs
  <1>4. \A i \in 1 .. n : fs[i].mark \in Nat /\ fs[i].mark <= Len(tr)
    <2>1. \A i \in 1 .. n : fs[i] \in Frame
      BY <1>1
    <2> QED
      BY <1>1, <2>1 DEF Trailed, Marked, Frame
  <1>5. Marked(r, t2)
    <2>1. ASSUME NEW i \in 1 .. n + 1
          PROVE  /\ r[i].mark <= Len(t2)
                 /\ Guarded(r[i].pair) => /\ r[i].mark < Len(t2)
                                          /\ t2[r[i].mark + 1] = r[i].pair
      <3>1. CASE i = n + 1
        BY <1>1, <1>3, <3>1
      <3>2. CASE i # n + 1
        <4>1. i \in 1 .. n
          BY <1>1, <3>2
        <4>2. Guarded(fs[i].pair) => fs[i].mark + 1 \in 1 .. Len(tr)
          BY <1>1, <1>3, <1>4, <4>1, SMTT(30) DEF Trailed, Marked
        <4>3. Guarded(fs[i].pair) => tr[fs[i].mark + 1] = fs[i].pair
          BY <1>1, <4>1 DEF Trailed, Marked
        <4>4. Guarded(fs[i].pair) => t2[fs[i].mark + 1] = fs[i].pair
          BY <1>3, <4>2, <4>3
        <4>5. Len(tr) <= Len(t2) /\ Len(t2) \in Nat
          BY <1>3
        <4>6. Guarded(fs[i].pair) => fs[i].mark < Len(t2)
          BY <1>3, <1>4, <4>1, <4>2, <4>5
        <4> QED
          BY <1>1, <1>3, <1>4, <4>1, <4>4, <4>5, <4>6, SMTT(30)
      <3> QED
        BY <3>1, <3>2
    <2>2. ASSUME NEW i \in 1 .. n + 1, NEW j \in 1 .. n + 1, i < j
          PROVE  /\ r[i].mark <= r[j].mark
                 /\ Guarded(r[i].pair) => r[i].mark < r[j].mark
      <3>1. i \in 1 .. n
        BY <1>1, <2>2
      <3>2. CASE j = n + 1
        BY <1>1, <1>4, <3>1, <3>2 DEF Trailed, Marked
      <3>3. CASE j # n + 1
        <4>1. j \in 1 .. n
          BY <1>1, <3>3
        <4> QED
          BY <1>1, <2>2, <3>1, <4>1 DEF Trailed, Marked
      <3> QED
        BY <3>2, <3>3
    <2> QED
      BY <1>1, <2>1, <2>2 DEF Marked
  <1>6. \A k : InProgress(fs, k) => InProgress(r, k)
    BY <1>1 DEF InProgress
  <1>7. ASSUME NEW b \in 0 .. Len(tr), Supported(fs, tr, c, g, b)
        PROVE  Supported(r, t2, c, g, b)
    <2>1. b \in Nat /\ \A k \in 1 .. b : t2[k] = tr[k]
      BY <1>3
    <2>2. \A k \in 1 .. b : t2[k] = tr[k] /\ (InProgress(fs, k) => InProgress(r, k))
      BY <1>6, <2>1
    <2> HIDE DEF Supported, InProgress
    <2> QED
      BY <1>7, <2>1, <2>2, SupportedSame
  <1>8. Supported(r, t2, c, g, Len(tr))
    BY <1>3, <1>7 DEF Trailed
  <1>9. \A i \in 1 .. n + 1 : Supported(r, t2, c, g, r[i].mark)
    <2> TAKE i \in 1 .. n + 1
    <2>1. CASE i = n + 1
      BY <1>1, <1>8, <2>1
    <2>2. CASE i # n + 1
      <3>1. i \in 1 .. n
        BY <1>1, <2>2
      <3>2. fs[i].mark \in 0 .. Len(tr)
        BY <1>3, <1>4, <3>1
      <3> QED
        BY <1>1, <1>7, <3>1, <3>2 DEF Trailed
    <2> QED
      BY <2>1, <2>2
  <1>10. Supported(r, t2, c, g, Len(t2))
    <2>1. CASE ~Guarded(f.pair)
      BY <1>3, <1>8, <2>1
    <2>2. CASE Guarded(f.pair)
      <3>1. InProgress(r, Len(tr) + 1)
        BY <1>1, <1>3, <2>2, SMTT(30) DEF InProgress
      <3>2. Prefix(t2, Len(tr)) \subseteq Prefix(t2, Len(t2))
        BY <1>3, <2>2, PrefixGrows
      <3>3. ASSUME NEW k \in 1 .. Len(t2)
            PROVE  InProgress(r, k) \/ Backed(c, g, t2[k], Prefix(t2, Len(t2)) \cup Truth(g))
        <4>1. CASE k = Len(tr) + 1
          BY <3>1, <4>1
        <4>2. CASE k # Len(tr) + 1
          <5>1. k \in 1 .. Len(tr)
            BY <1>3, <2>2, <4>2
          <5>2. InProgress(r, k) \/ Backed(c, g, t2[k], Prefix(t2, Len(tr)) \cup Truth(g))
            BY <1>8, <5>1 DEF Supported
          <5>3. Prefix(t2, Len(tr)) \cup Truth(g) \subseteq Prefix(t2, Len(t2)) \cup Truth(g)
            BY <3>2
          <5> QED
            BY <5>2, <5>3, BackedMonotone
        <4> QED
          BY <4>1, <4>2
      <3> QED
        BY <3>3 DEF Supported
    <2> QED
      BY <2>1, <2>2
  <1>11. ASSUME NEW i \in 1 .. n + 1
         PROVE  Yes(r[i].steps) \subseteq Prefix(t2, Above(r, t2, i)) \cup Truth(g)
    <2>1. CASE i = n + 1
      BY <1>1, <2>1, NoSteps
    <2>2. CASE i # n + 1
      <3>1. i \in 1 .. n
        BY <1>1, <2>2
      <3>2. Above(r, t2, i) = Above(fs, tr, i) /\ Above(fs, tr, i) \in 0 .. Len(tr)
        <4>1. CASE i = n
          BY <1>0, <1>1, <1>3, <4>1 DEF Above
        <4>2. CASE i # n
          <5>1. i + 1 \in 1 .. n
            BY <1>1, <3>1, <4>2
          <5> QED
            BY <1>0, <1>1, <1>3, <1>4, <3>1, <4>2, <5>1 DEF Above
        <4> QED
          BY <4>1, <4>2
      <3>3. Prefix(t2, Above(fs, tr, i)) = Prefix(tr, Above(fs, tr, i))
        <4>1. PICK b \in 0 .. Len(tr) : b = Above(fs, tr, i)
          BY <3>2
        <4>2. b \in Nat /\ \A k \in 1 .. b : t2[k] = tr[k]
          BY <1>3
        <4>3. Prefix(t2, b) = Prefix(tr, b)
          BY <4>2, PrefixSame
        <4> QED
          BY <4>1, <4>3
      <3>4. Yes(fs[i].steps) \subseteq Prefix(tr, Above(fs, tr, i)) \cup Truth(g)
        BY <1>1, <3>1 DEF Trailed
      <3> QED
        BY <1>1, <3>1, <3>2, <3>3, <3>4
    <2> QED
      BY <2>1, <2>2
  <1> QED
    BY <1>0, <1>1, <1>5, <1>9, <1>10, <1>11 DEF Trailed

\* The activations below the innermost one.
LEMMA BelowIs ==
    ASSUME NEW fs \in Seq(Frame), fs # <<>>, NEW tr \in Seq(Pairs), NEW c \in Nat, NEW g \in Graphs,
           Trailed(fs, tr, c, g), NEW r, r = SubSeq(fs, 1, Len(fs) - 1), NEW n, n = Len(fs)
    PROVE  /\ n \in Nat /\ n >= 1 /\ DOMAIN fs = 1 .. n /\ DOMAIN r = 1 .. n - 1
           /\ r \in Seq(Frame) /\ Len(r) = n - 1
           /\ \A i \in 1 .. n - 1 : r[i] = fs[i]
           /\ \A i \in 1 .. n : fs[i].mark \in 0 .. Len(tr)
           /\ \A i \in 1 .. n - 1 : fs[i].mark <= fs[n].mark
  <1>1. n \in Nat /\ n >= 1 /\ DOMAIN fs = 1 .. n /\ n - 1 \in 0 .. Len(fs)
    OBVIOUS
  <1>2. r \in Seq(Frame) /\ Len(r) = n - 1 /\ \A i \in 1 .. n - 1 : r[i] = fs[i]
    BY <1>1, PrefixIs
  <1>3. DOMAIN r = 1 .. n - 1
    BY <1>2
  <1>4. \A i \in 1 .. n : fs[i] \in Frame
    BY <1>1
  <1>5. \A i \in 1 .. n : fs[i].mark \in 0 .. Len(tr)
    <2>1. \A i \in 1 .. n : fs[i].mark \in Nat /\ fs[i].mark <= Len(tr)
      BY <1>1, <1>4 DEF Trailed, Marked, Frame
    <2>2. Len(tr) \in Nat
      OBVIOUS
    <2> QED
      BY <2>1, <2>2
  <1>6. \A i \in 1 .. n - 1 : fs[i].mark <= fs[n].mark
    <2>1. \A i \in 1 .. n - 1 : i \in 1 .. n /\ n \in 1 .. n /\ i < n
      BY <1>1
    <2> QED
      BY <1>1, <2>1 DEF Trailed, Marked
  <1> QED
    BY <1>1, <1>2, <1>3, <1>5, <1>6

\* What is in progress below the innermost activation's mark began before it.
LEMMA InProgressBelow ==
    ASSUME NEW fs \in Seq(Frame), fs # <<>>, NEW tr \in Seq(Pairs), NEW c \in Nat, NEW g \in Graphs,
           Trailed(fs, tr, c, g), NEW r, r = SubSeq(fs, 1, Len(fs) - 1), NEW n, n = Len(fs),
           NEW k \in 1 .. fs[n].mark, InProgress(fs, k)
    PROVE  InProgress(r, k)
  <1>1. /\ n \in Nat /\ n >= 1 /\ DOMAIN fs = 1 .. n /\ DOMAIN r = 1 .. n - 1
        /\ \A i \in 1 .. n - 1 : r[i] = fs[i]
    BY BelowIs
  <1>2. \A i \in 1 .. n : fs[i].mark \in 0 .. Len(tr)
    BY BelowIs
  <1>3. PICK i \in 1 .. n : Guarded(fs[i].pair) /\ k = fs[i].mark + 1
    BY <1>1 DEF InProgress
  <1>4. i # n
    BY <1>1, <1>2, <1>3
  <1>5. i \in 1 .. n - 1
    BY <1>1, <1>4
  <1> QED
    BY <1>1, <1>3, <1>5 DEF InProgress

\* The innermost derivation succeeds: its pair is supported from now on.
LEMMA TrailedKeep ==
    ASSUME NEW fs \in Seq(Frame), fs # <<>>, NEW tr \in Seq(Pairs), NEW c \in Nat, NEW g \in Graphs,
           Trailed(fs, tr, c, g),
           Guarded(fs[Len(fs)].pair) =>
               Backed(c, g, fs[Len(fs)].pair, Prefix(tr, Len(tr)) \cup Truth(g))
    PROVE  Trailed(SubSeq(fs, 1, Len(fs) - 1), tr, c, g)
  <1>0. PICK r, n : r = SubSeq(fs, 1, Len(fs) - 1) /\ n = Len(fs)
    OBVIOUS
  <1>1. /\ n \in Nat /\ n >= 1 /\ DOMAIN fs = 1 .. n /\ DOMAIN r = 1 .. n - 1
        /\ r \in Seq(Frame) /\ Len(r) = n - 1
        /\ \A i \in 1 .. n - 1 : r[i] = fs[i]
    BY <1>0, BelowIs
  <1>2. /\ \A i \in 1 .. n : fs[i].mark \in 0 .. Len(tr)
        /\ \A i \in 1 .. n - 1 : fs[i].mark <= fs[n].mark
    BY <1>0, BelowIs
  <1>3. \A k \in 1 .. fs[n].mark : InProgress(fs, k) => InProgress(r, k)
    BY <1>0, InProgressBelow
  <1>4. 1 .. n - 1 \subseteq 1 .. n /\ n \in 1 .. n
    BY <1>1
  <1>5. Marked(r, tr)
    BY <1>1, <1>4 DEF Trailed, Marked
  <1>6. ASSUME NEW i \in 1 .. n - 1 PROVE Supported(r, tr, c, g, r[i].mark)
    <2>1. fs[i].mark \in Nat /\ \A k \in 1 .. fs[i].mark : k \in 1 .. fs[n].mark
      BY <1>2, <1>4
    <2>2. Supported(fs, tr, c, g, fs[i].mark)
      BY <1>1, <1>4 DEF Trailed
    <2>3. Supported(r, tr, c, g, fs[i].mark)
      BY <1>3, <2>1, <2>2 DEF Supported
    <2> QED
      BY <1>1, <2>3
  <1>7. ASSUME NEW k \in 1 .. Len(tr)
        PROVE  InProgress(r, k) \/ Backed(c, g, tr[k], Prefix(tr, Len(tr)) \cup Truth(g))
    <2>1. CASE ~InProgress(fs, k)
      BY <2>1 DEF Trailed, Supported
    <2>2. CASE InProgress(fs, k)
      <3>1. PICK i \in 1 .. n : Guarded(fs[i].pair) /\ k = fs[i].mark + 1
        BY <1>1, <2>2 DEF InProgress
      <3>2. CASE i = n
        <4>1. tr[k] = fs[n].pair
          BY <1>1, <3>1, <3>2 DEF Trailed, Marked
        <4> QED
          BY <1>0, <3>1, <3>2, <4>1
      <3>3. CASE i # n
        <4>1. i \in 1 .. n - 1
          BY <1>1, <3>3
        <4> QED
          BY <1>1, <3>1, <4>1 DEF InProgress
      <3> QED
        BY <3>2, <3>3
    <2> QED
      BY <2>1, <2>2
  <1>8. ASSUME NEW i \in 1 .. n - 1
        PROVE  Yes(r[i].steps) \subseteq Prefix(tr, Above(r, tr, i)) \cup Truth(g)
    <2>1. Yes(fs[i].steps) \subseteq Prefix(tr, Above(fs, tr, i)) \cup Truth(g)
      BY <1>1, <1>4 DEF Trailed
    <2>2. i # n /\ i + 1 \in 1 .. n
      BY <1>1
    <2>3. Above(fs, tr, i) = fs[i + 1].mark
      BY <1>0, <2>2 DEF Above
    <2>4. CASE i = n - 1
      <3>1. Above(r, tr, i) = Len(tr)
        BY <1>1, <2>4 DEF Above
      <3>2. Prefix(tr, fs[i + 1].mark) \subseteq Prefix(tr, Len(tr))
        BY <1>2, <2>2, PrefixGrows
      <3> QED
        BY <1>1, <2>1, <2>3, <3>1, <3>2
    <2>5. CASE i # n - 1
      <3>1. i + 1 \in 1 .. n - 1
        BY <1>1, <2>5
      <3>2. Above(r, tr, i) = fs[i + 1].mark
        BY <1>1, <2>5, <3>1 DEF Above
      <3> QED
        BY <1>1, <2>1, <2>3, <3>2
    <2> QED
      BY <2>4, <2>5
  <1>9. Supported(r, tr, c, g, Len(tr))
    BY <1>7 DEF Supported
  <1> QED
    BY <1>0, <1>1, <1>5, <1>6, <1>8, <1>9 DEF Trailed

\* The innermost derivation fails: the trail is cut at its mark.
LEMMA TrailedWithdraw ==
    ASSUME NEW fs \in Seq(Frame), fs # <<>>, NEW tr \in Seq(Pairs), NEW c \in Nat, NEW g \in Graphs,
           Trailed(fs, tr, c, g), NEW t2, t2 = SubSeq(tr, 1, fs[Len(fs)].mark)
    PROVE  Trailed(SubSeq(fs, 1, Len(fs) - 1), t2, c, g)
  <1>0. PICK r, n : r = SubSeq(fs, 1, Len(fs) - 1) /\ n = Len(fs)
    OBVIOUS
  <1>1. /\ n \in Nat /\ n >= 1 /\ DOMAIN fs = 1 .. n /\ DOMAIN r = 1 .. n - 1
        /\ r \in Seq(Frame) /\ Len(r) = n - 1
        /\ \A i \in 1 .. n - 1 : r[i] = fs[i]
    BY <1>0, BelowIs
  <1>2. /\ \A i \in 1 .. n : fs[i].mark \in 0 .. Len(tr)
        /\ \A i \in 1 .. n - 1 : fs[i].mark <= fs[n].mark
    BY <1>0, BelowIs
  <1>3. \A k \in 1 .. fs[n].mark : InProgress(fs, k) => InProgress(r, k)
    BY <1>0, InProgressBelow
  <1>4. 1 .. n - 1 \subseteq 1 .. n /\ n \in 1 .. n
    BY <1>1
  <1>5. fs[n].mark \in 0 .. Len(tr) /\ t2 = SubSeq(tr, 1, fs[n].mark)
    BY <1>0, <1>2, <1>4
  <1>6. /\ t2 \in Seq(Pairs) /\ Len(t2) = fs[n].mark /\ fs[n].mark \in Nat
        /\ \A k \in 1 .. fs[n].mark : t2[k] = tr[k]
    <2>1. PICK m \in 0 .. Len(tr) : m = fs[n].mark
      BY <1>5
    <2>2. t2 = SubSeq(tr, 1, m)
      BY <1>5, <2>1, Zenon
    <2>4. m \in Nat
      BY <2>1
    <2>3. t2 \in Seq(Pairs) /\ Len(t2) = m /\ \A k \in 1 .. m : t2[k] = tr[k]
      BY <2>2, PrefixIs
    <2> QED
      BY <2>1, <2>3, <2>4
  <1>7. Marked(r, t2)
    <2>1. ASSUME NEW i \in 1 .. n - 1, Guarded(fs[i].pair)
          PROVE  fs[i].mark < fs[n].mark /\ t2[fs[i].mark + 1] = fs[i].pair
      <3>1. fs[i].mark < fs[n].mark /\ tr[fs[i].mark + 1] = fs[i].pair
        BY <1>1, <1>4, <2>1, SMTT(30) DEF Trailed, Marked
      <3>2. fs[i].mark + 1 \in 1 .. fs[n].mark
        <4>1. fs[i].mark \in Nat
          BY <1>2, <1>4
        <4>2. fs[n].mark \in Nat
          BY <1>6
        <4> QED
          BY <3>1, <4>1, <4>2
      <3> QED
        BY <1>6, <3>1, <3>2
    <2>2. \A i, j \in 1 .. n - 1 : i < j =>
              /\ fs[i].mark <= fs[j].mark
              /\ Guarded(fs[i].pair) => fs[i].mark < fs[j].mark
      BY <1>1, <1>4 DEF Trailed, Marked
    <2> QED
      BY <1>1, <1>2, <1>6, <2>1, <2>2 DEF Marked
  <1>8. ASSUME NEW i \in 1 .. n PROVE Supported(r, t2, c, g, fs[i].mark)
    <2>1. fs[i].mark \in Nat /\ fs[i].mark <= fs[n].mark
      BY <1>1, <1>2, <1>4
    <2>2. \A k \in 1 .. fs[i].mark : k \in 1 .. fs[n].mark
      BY <1>6, <2>1
    <2>3. \A k \in 1 .. fs[i].mark : t2[k] = tr[k] /\ (InProgress(fs, k) => InProgress(r, k))
      BY <1>3, <1>6, <2>2
    <2>4. Supported(fs, tr, c, g, fs[i].mark)
      BY <1>1 DEF Trailed
    <2>5. PICK b \in Nat : b = fs[i].mark
      BY <2>1
    <2>6. /\ \A k \in 1 .. b : t2[k] = tr[k] /\ (InProgress(fs, k) => InProgress(r, k))
          /\ Supported(fs, tr, c, g, b)
      BY <2>3, <2>4, <2>5
    <2>7. Supported(r, t2, c, g, b)
      <3>1. \A k \in 1 .. b : t2[k] = tr[k]
        BY <2>6
      <3>2. Prefix(t2, b) = Prefix(tr, b)
        BY <3>1, PrefixSame
      <3> QED
        BY <2>6, <3>2 DEF Supported
    <2> QED
      BY <2>5, <2>7
  <1>9. ASSUME NEW i \in 1 .. n - 1
        PROVE  Yes(r[i].steps) \subseteq Prefix(t2, Above(r, t2, i)) \cup Truth(g)
    <2>1. Yes(fs[i].steps) \subseteq Prefix(tr, Above(fs, tr, i)) \cup Truth(g)
      BY <1>1, <1>4 DEF Trailed
    <2>2. i # n /\ i + 1 \in 1 .. n
      BY <1>1
    <2>3. Above(fs, tr, i) = fs[i + 1].mark
      BY <1>0, <2>2 DEF Above
    <2>4. Above(r, t2, i) = fs[i + 1].mark
      <3>1. CASE i = n - 1
        BY <1>1, <1>6, <3>1 DEF Above
      <3>2. CASE i # n - 1
        <4>1. i + 1 \in 1 .. n - 1
          BY <1>1, <3>2
        <4> QED
          BY <1>1, <3>2, <4>1 DEF Above
      <3> QED
        BY <3>1, <3>2
    <2>5. fs[i + 1].mark \in Nat /\ fs[i + 1].mark <= fs[n].mark
      <3>1. CASE i + 1 = n
        BY <1>6, <3>1
      <3>2. CASE i + 1 # n
        <4>1. i + 1 \in 1 .. n - 1
          BY <1>1, <3>2
        <4> QED
          BY <1>2, <2>2, <4>1
      <3> QED
        BY <3>1, <3>2
    <2>6. \A k \in 1 .. fs[i + 1].mark : t2[k] = tr[k]
      <3>1. fs[n].mark \in Nat
        BY <1>6
      <3>2. \A k \in 1 .. fs[i + 1].mark : k \in 1 .. fs[n].mark
        BY <2>5, <3>1
      <3> QED
        BY <1>6, <3>2
    <2>7. Prefix(t2, fs[i + 1].mark) = Prefix(tr, fs[i + 1].mark)
      BY <2>5, <2>6, PrefixSame
    <2> QED
      BY <1>1, <2>1, <2>3, <2>4, <2>7
  <1>10. Supported(r, t2, c, g, Len(t2)) /\ \A i \in 1 .. n - 1 : Supported(r, t2, c, g, r[i].mark)
    BY <1>1, <1>4, <1>6, <1>8
  <1> QED
    BY <1>0, <1>1, <1>7, <1>9, <1>10 DEF Trailed

LEMMA TrailedCutOff ==
    ASSUME NEW fs, NEW tr, NEW c \in Nat, NEW g \in Graphs, Trailed(fs, tr, c, g)
    PROVE  Trailed(fs, tr, c + 1, g)
  <1>1. \A p, S : Backed(c + 1, g, p, S)
    BY DEF Backed
  <1> QED
    BY <1>1 DEF Trailed, Supported

-----------------------------------------------------------------------------
(* The invariant.                                                          *)

Answers == [pair : Pairs, holds : BOOLEAN, sure : BOOLEAN] \cup {NoAnswer}

\* Where a query's first activation found the trail: nothing below is cut.
Base(fs, tr) == IF fs = <<>> THEN Len(tr) ELSE fs[1].mark

\* What the last query showed is still on the trail, or true.
Kept(fs, tr, g, a) == a.holds => a.pair \in Prefix(tr, Base(fs, tr)) \cup Truth(g)

Inv ==
    /\ TypeOK
    /\ Sound(stack, cutoffs, graph)
    /\ Trailed(stack, trail, cutoffs, graph)
    /\ Kept(stack, trail, graph, answer)
    /\ RefutedIsReal

\* Return, in the terms of the lemmas.
LEMMA ReturnIs ==
    ASSUME NEW fs \in Seq(Frame), NEW p \in Pairs, NEW b \in BOOLEAN, NEW sure \in BOOLEAN,
           answer \in Answers, Return(fs, p, b, sure)
    PROVE  /\ fs = <<>> => stack' = <<>> /\ answer' = [pair |-> p, holds |-> b, sure |-> sure]
           /\ fs # <<>> => /\ stack' = Answered(fs, [pair |-> p, holds |-> b])
                           /\ answer' = answer
           /\ stack' \in Seq(Frame)
           /\ answer' \in Answers
           /\ [pair |-> p, holds |-> b] \in Step
  <1>1. [pair |-> p, holds |-> b] \in Step
    BY DEF Step
  <1>2. CASE fs = <<>>
    <2>1. stack' = <<>> /\ answer' = [pair |-> p, holds |-> b, sure |-> sure]
      BY <1>2 DEF Return
    <2>2. stack' \in Seq(Frame) /\ answer' \in Answers
      BY <2>1 DEF Answers
    <2> QED
      BY <1>1, <1>2, <2>1, <2>2
  <1>3. CASE fs # <<>>
    <2>1. stack' = Answered(fs, [pair |-> p, holds |-> b]) /\ answer' = answer
      BY <1>3 DEF Return, Answered
    <2>2. stack' \in Seq(Frame)
      BY <1>1, <1>3, <2>1, AnsweredIs
    <2> QED
      BY <1>1, <1>3, <2>1, <2>2
  <1> QED
    BY <1>2, <1>3

\* An answer, given to the activations fs below with trail tr after the limit
\* was met c times, keeps Sound, Trailed and Kept.
LEMMA ReturnKeeps ==
    ASSUME NEW fs \in Seq(Frame), NEW p \in Pairs, NEW b \in BOOLEAN, NEW sure \in BOOLEAN,
           NEW tr \in Seq(Pairs), NEW c \in Nat, NEW g \in Graphs, answer \in Answers,
           Return(fs, p, b, sure),
           Sound(fs, c, g), Trailed(fs, tr, c, g),
           fs # <<>> => Kept(fs, tr, g, answer),
           b => p \in Prefix(tr, Len(tr)) \cup Truth(g),
           b /\ ~Guarded(p) => p \in Truth(g),
           ~b /\ fs # <<>> /\ fs[Len(fs)].cutoffs = c => p \notin Truth(g)
    PROVE  Sound(stack', c, g) /\ Trailed(stack', tr, c, g) /\ Kept(stack', tr, g, answer')
  <1>0. PICK e \in Step : e = [pair |-> p, holds |-> b]
    BY ReturnIs
  <1>1. e.pair = p /\ e.holds = b
    BY <1>0
  <1>2. CASE fs = <<>>
    <2>1. stack' = fs /\ answer' = [pair |-> p, holds |-> b, sure |-> sure]
      BY <1>2, ReturnIs
    <2>2. Base(stack', tr) = Len(tr)
      BY <1>2, <2>1 DEF Base
    <2>3. answer'.pair = p /\ answer'.holds = b
      BY <2>1
    <2>4. Kept(stack', tr, g, answer')
      BY <2>2, <2>3 DEF Kept
    <2> QED
      BY <2>1, <2>4
  <1>3. CASE fs # <<>>
    <2>1. stack' = Answered(fs, e) /\ answer' = answer
      BY <1>0, <1>3, ReturnIs
    <2>2. Sound(Answered(fs, e), c, g)
      BY <1>1, <1>3, SoundAnswered
    <2>3. Trailed(Answered(fs, e), tr, c, g)
      BY <1>1, <1>3, TrailedAnswered
    <2>4. Base(stack', tr) = Base(fs, tr)
      <3>1. PICK r, n : r = Answered(fs, e) /\ n = Len(fs)
        OBVIOUS
      <3>2. r \in Seq(Frame) /\ Len(r) = n
        BY <1>3, <3>1, AnsweredIs
      <3>3. r[n].mark = fs[n].mark
        BY <1>3, <3>1, AnsweredIs
      <3>4. \A i \in 1 .. n : i # n => r[i] = fs[i]
        BY <1>3, <3>1, AnsweredIs
      <3>5. n \in Nat /\ n >= 1 /\ r # <<>>
        BY <1>3, <3>1, <3>2
      <3>6. r[1].mark = fs[1].mark
        BY <3>3, <3>4, <3>5
      <3> QED
        BY <1>3, <2>1, <3>1, <3>5, <3>6 DEF Base
    <2>5. Kept(stack', tr, g, answer')
      BY <1>3, <2>1, <2>4 DEF Kept
    <2> QED
      BY <2>1, <2>2, <2>3, <2>5
  <1> QED
    BY <1>2, <1>3

\* A goal, or a query when no activation is below.
LEMMA CheckKeeps ==
    ASSUME Inv, NEW p \in Pairs, NEW d \in Nat, check(stack, p, d),
           graph' = graph, queries' \in 0 .. MaxQueries
    PROVE  Inv'
  <1>1. /\ stack \in Seq(Frame) /\ trail \in Seq(Pairs) /\ cutoffs \in Nat
        /\ graph \in Graphs /\ answer \in Answers /\ refuted \subseteq Pairs
        /\ \A i, j \in DOMAIN trail : trail[i] = trail[j] => i = j
    BY DEF Inv, TypeOK, Answers
  <1>2. assumed = Prefix(trail, Len(trail))
    BY <1>1 DEF assumed, Prefix
  <1>3. CASE cutOff(stack, p, d)
    <2>1. /\ Return(stack, p, FALSE, FALSE) /\ cutoffs' = cutoffs + 1
          /\ trail' = trail /\ refuted' = refuted
      BY <1>3 DEF cutOff
    <2>2. Sound(stack, cutoffs + 1, graph) /\ Trailed(stack, trail, cutoffs + 1, graph)
      BY <1>1, SoundCutOff, TrailedCutOff DEF Inv
    <2>3. stack' \in Seq(Frame) /\ answer' \in Answers
      BY <1>1, <2>1, ReturnIs
    <2>4. stack # <<>> => stack[Len(stack)].cutoffs # cutoffs + 1
      <3>1. ASSUME stack # <<>> PROVE stack[Len(stack)].cutoffs # cutoffs + 1
        <4>1. Len(stack) \in DOMAIN stack /\ stack[Len(stack)] \in Frame
          BY <1>1, <3>1
        <4>2. stack[Len(stack)].cutoffs \in Nat /\ stack[Len(stack)].cutoffs <= cutoffs
          BY <4>1 DEF Frame, Inv, Sound
        <4> QED
          BY <1>1, <4>2
      <3> QED
        BY <3>1
    <2>5. Kept(stack, trail, graph, answer) /\ cutoffs + 1 \in Nat
      BY <1>1 DEF Inv
    <2>6. /\ Sound(stack', cutoffs + 1, graph) /\ Trailed(stack', trail, cutoffs + 1, graph)
          /\ Kept(stack', trail, graph, answer')
      BY <1>1, <2>1, <2>2, <2>4, <2>5, ReturnKeeps
    <2>7. RefutedIsReal'
      <3>1. answer' = answer \/ answer'.sure = FALSE
        <4>1. CASE stack = <<>>
          <5>1. answer' = [pair |-> p, holds |-> FALSE, sure |-> FALSE]
            BY <2>1, <4>1 DEF Return
          <5> QED
            BY <5>1
        <4>2. CASE stack # <<>>
          BY <1>1, <2>1, <4>2, ReturnIs
        <4> QED
          BY <4>1, <4>2
      <3> QED
        BY <2>1, <3>1 DEF Inv, RefutedIsReal, Refused
    <2> QED
      BY <1>1, <2>1, <2>3, <2>6, <2>7 DEF Inv, TypeOK, Answers
  <1>4. CASE settled(stack, p, d)
    <2>1. PICK b \in BOOLEAN :
            /\ Return(stack, p, b, TRUE)
            /\ b => p \in assumed \cup Truth(graph)
            /\ b /\ ~Guarded(p) => p \in Truth(graph)
            /\ ~b => p \notin Truth(graph)
      <3>1. CASE Fast(p) /\ Return(stack, p, TRUE, TRUE)
        <4>1. p \in Truth(graph)
          BY <1>1, <3>1, TruthAssumption
        <4> QED
          BY <3>1, <4>1
      <3>2. CASE p \in refuted /\ Return(stack, p, FALSE, TRUE)
        <4>1. p \notin Truth(graph)
          BY <3>2 DEF Inv, RefutedIsReal, Refused
        <4> QED
          BY <3>2, <4>1
      <3>3. CASE Guarded(p) /\ p \in assumed /\ Return(stack, p, TRUE, TRUE)
        BY <3>3
      <3> QED
        BY <1>4, <3>1, <3>2, <3>3 DEF settled
    <2>2. trail' = trail /\ refuted' = refuted /\ cutoffs' = cutoffs
      BY <1>4 DEF settled
    <2>3. stack' \in Seq(Frame) /\ answer' \in Answers
      BY <1>1, <2>1, ReturnIs
    <2>4. /\ Sound(stack, cutoffs, graph) /\ Trailed(stack, trail, cutoffs, graph)
          /\ Kept(stack, trail, graph, answer)
      BY DEF Inv
    <2>5. /\ Sound(stack', cutoffs, graph) /\ Trailed(stack', trail, cutoffs, graph)
          /\ Kept(stack', trail, graph, answer')
      BY <1>1, <1>2, <2>1, <2>4, ReturnKeeps
    <2>6. RefutedIsReal'
      <3>1. CASE stack = <<>>
        <4>1. answer' = [pair |-> p, holds |-> b, sure |-> TRUE]
          BY <1>1, <2>1, <3>1, ReturnIs
        <4>2. answer'.pair = p /\ answer'.holds = b
          BY <4>1
        <4> QED
          BY <2>1, <2>2, <4>2 DEF Inv, RefutedIsReal, Refused
      <3>2. CASE stack # <<>>
        <4>1. answer' = answer
          BY <1>1, <2>1, <3>2, ReturnIs
        <4> QED
          BY <2>2, <4>1 DEF Inv, RefutedIsReal, Refused
      <3> QED
        BY <3>1, <3>2
    <2> QED
      BY <1>1, <2>2, <2>3, <2>5, <2>6 DEF Inv, TypeOK, Answers
  <1>5. CASE begun(stack, p, d)
    <2>1. PICK f : f = [pair |-> p, depth |-> d, mark |-> Len(trail),
                        cutoffs |-> cutoffs, steps |-> <<>>]
      OBVIOUS
    <2>2. /\ f \in Frame /\ f.pair = p /\ f.mark = Len(trail)
          /\ f.cutoffs = cutoffs /\ f.steps = <<>>
      BY <1>1, <2>1 DEF Frame
    <2>3. /\ stack' = Append(stack, f) /\ ~Fast(p)
          /\ trail' = (IF Guarded(p) THEN Append(trail, p) ELSE trail)
          /\ Guarded(p) => p \notin assumed
          /\ refuted' = refuted /\ cutoffs' = cutoffs /\ answer' = answer
      BY <1>5, <2>1 DEF begun
    <2>4. Sound(stack', cutoffs, graph)
      BY <1>1, <2>2, <2>3, SoundPush DEF Inv
    <2>5. Trailed(stack', trail', cutoffs, graph)
      BY <1>1, <2>2, <2>3, TrailedPush DEF Inv
    <2>6. stack' \in Seq(Frame)
      BY <1>1, <2>2, <2>3, AppendIs
    <2>7. /\ trail' \in Seq(Pairs) /\ Len(trail) \in Nat
          /\ \A k \in 1 .. Len(trail) : trail'[k] = trail[k]
          /\ Guarded(p) => Len(trail') = Len(trail) + 1 /\ trail'[Len(trail) + 1] = p
          /\ ~Guarded(p) => trail' = trail
      BY <1>1, <2>3, AppendIs
    <2>8. \A i, j \in DOMAIN trail' : trail'[i] = trail'[j] => i = j
      <3>1. CASE ~Guarded(p)
        BY <1>1, <2>7, <3>1
      <3>2. CASE Guarded(p)
        <4>1. DOMAIN trail' = 1 .. Len(trail) + 1 /\ DOMAIN trail = 1 .. Len(trail)
          BY <1>1, <2>7, <3>2
        <4>2. \A k \in 1 .. Len(trail) : trail[k] # p
          BY <1>2, <2>3, <3>2 DEF Prefix
        <4> QED
          BY <1>1, <2>7, <3>2, <4>1, <4>2
      <3> QED
        BY <3>1, <3>2
    <2>9. Kept(stack', trail', graph, answer)
      <3>1. Base(stack', trail') = Base(stack, trail) /\ Base(stack, trail) \in 0 .. Len(trail)
        <4>1. CASE stack = <<>>
          <5>1. stack' # <<>> /\ stack'[1] = f
            BY <1>1, <2>2, <2>3, <4>1, AppendIs
          <5> QED
            BY <2>2, <2>7, <4>1, <5>1 DEF Base
        <4>2. CASE stack # <<>>
          <5>1. stack' # <<>> /\ stack'[1] = stack[1] /\ 1 \in DOMAIN stack /\ stack[1] \in Frame
            BY <1>1, <2>2, <2>3, <4>2, AppendIs
          <5>2. stack[1].mark \in Nat /\ stack[1].mark <= Len(trail)
            BY <5>1 DEF Inv, Trailed, Marked, Frame
          <5> QED
            BY <2>7, <4>2, <5>1, <5>2 DEF Base
        <4> QED
          BY <4>1, <4>2
      <3>2. PICK m \in 0 .. Len(trail) : m = Base(stack, trail)
        BY <3>1
      <3>3. m \in Nat /\ \A k \in 1 .. m : trail'[k] = trail[k]
        BY <2>7
      <3>4. Prefix(trail', m) = Prefix(trail, m)
        BY <3>3, PrefixSame
      <3> QED
        BY <3>1, <3>2, <3>4 DEF Inv, Kept
    <2>10. RefutedIsReal'
      BY <2>3 DEF Inv, RefutedIsReal, Refused
    <2> QED
      BY <1>1, <2>3, <2>4, <2>5, <2>6, <2>7, <2>8, <2>9, <2>10 DEF Inv, TypeOK, Answers
  <1> QED
    BY <1>3, <1>4, <1>5 DEF check

\* The innermost activation is through.
LEMMA ConcludeKeeps ==
    ASSUME Inv, Conclude
    PROVE  Inv'
  <1>1. /\ stack \in Seq(Frame) /\ trail \in Seq(Pairs) /\ cutoffs \in Nat
        /\ graph \in Graphs /\ answer \in Answers /\ refuted \subseteq Pairs
        /\ \A i, j \in DOMAIN trail : trail[i] = trail[j] => i = j
    BY DEF Inv, TypeOK, Answers
  <1>2. PICK run \in Runs(graph, Top.pair) :
          /\ run.steps = Top.steps
          /\ trail' = IF run.holds THEN trail ELSE withdraw(Top)
          /\ refuted' = IF run.holds THEN refuted ELSE refuted \cup refutes(Top)
          /\ Return(Below, Top.pair, run.holds, Top.cutoffs = cutoffs)
    BY DEF Conclude
  <1>3. stack # <<>> /\ graph' = graph /\ cutoffs' = cutoffs /\ queries' = queries
    BY DEF Conclude
  <1>4. PICK n, f : n = Len(stack) /\ f = stack[n]
    OBVIOUS
  <1>5. n \in DOMAIN stack /\ f \in Frame /\ Top = f /\ n \in Nat /\ n >= 1
    BY <1>1, <1>3, <1>4 DEF Top
  <1>6. f.pair \in Pairs /\ f.mark \in Nat /\ f.cutoffs \in Nat
    BY <1>5 DEF Frame
  <1>7. /\ run \in Runs(graph, f.pair) /\ run.steps = f.steps
        /\ Return(Below, f.pair, run.holds, f.cutoffs = cutoffs)
    BY <1>2, <1>5
  <1>8. run.holds \in BOOLEAN
    BY <1>1, <1>6, <1>7, RunsAssumption
  <1>9. /\ ~Fast(f.pair) /\ f.cutoffs <= cutoffs
        /\ f.cutoffs = cutoffs => No(f.steps) \cap Truth(graph) = {}
        /\ \A q \in Yes(f.steps) : ~Guarded(q) => q \in Truth(graph)
    BY <1>4, <1>5 DEF Inv, Sound
  <1>10. Below \in Seq(Frame) /\ Sound(Below, cutoffs, graph)
    BY <1>1, <1>3, SoundPop DEF Inv, Below
  <1>11. /\ f.mark <= Len(trail) /\ Len(trail) \in Nat
         /\ Guarded(f.pair) => f.mark < Len(trail) /\ trail[f.mark + 1] = f.pair
    BY <1>1, <1>4, <1>5 DEF Inv, Trailed, Marked
  <1>12. run.holds /\ ~Guarded(f.pair) => f.pair \in Truth(graph)
    BY <1>1, <1>6, <1>7, <1>9, UnguardedIsTrue
  <1>13. ~run.holds /\ f.cutoffs = cutoffs => f.pair \notin Truth(graph)
    BY <1>1, <1>6, <1>7, <1>9, RefusalIsReal
  <1>14. Below # <<>> => /\ Below[Len(Below)].cutoffs \in Nat
                         /\ Below[Len(Below)].cutoffs <= f.cutoffs
                         /\ Below[1] = stack[1] /\ stack[1].mark \in Nat
                         /\ stack[1].mark <= f.mark
    <2>1. n - 1 \in 0 .. Len(stack) /\ Below = SubSeq(stack, 1, n - 1)
      BY <1>4, <1>5 DEF Below
    <2>2. /\ Len(Below) = n - 1 /\ \A i \in 1 .. n - 1 : Below[i] = stack[i]
      BY <1>1, <2>1, PrefixIs
    <2>3. DOMAIN stack = 1 .. n
      BY <1>1, <1>4
    <2> SUFFICES ASSUME Below # <<>>
                 PROVE  /\ Below[Len(Below)].cutoffs \in Nat
                        /\ Below[Len(Below)].cutoffs <= f.cutoffs
                        /\ Below[1] = stack[1] /\ stack[1].mark \in Nat
                        /\ stack[1].mark <= f.mark
      OBVIOUS
    <2>4. n - 1 >= 1
      BY <1>5, <1>10, <2>2
    <2>5. /\ n - 1 \in DOMAIN stack /\ 1 \in DOMAIN stack /\ n - 1 < n /\ 1 < n
          /\ Below[n - 1] = stack[n - 1] /\ Below[1] = stack[1]
      BY <1>5, <2>2, <2>3, <2>4
    <2>6. stack[n - 1] \in Frame /\ stack[1] \in Frame
      BY <1>1, <2>5
    <2>7. stack[n - 1].cutoffs \in Nat /\ stack[1].mark \in Nat
      BY <2>6 DEF Frame
    <2>8. stack[n - 1].cutoffs <= f.cutoffs
      BY <1>4, <1>5, <2>5 DEF Inv, Sound
    <2>9. stack[1].mark <= f.mark
      BY <1>4, <1>5, <2>5 DEF Inv, Trailed, Marked
    <2> QED
      BY <2>2, <2>5, <2>7, <2>8, <2>9
  <1>15. /\ trail' \in Seq(Pairs) /\ Trailed(Below, trail', cutoffs, graph)
         /\ run.holds => f.pair \in Prefix(trail', Len(trail')) \cup Truth(graph)
         /\ Below # <<>> => Prefix(trail', stack[1].mark) = Prefix(trail, stack[1].mark)
         /\ \A i, j \in DOMAIN trail' : trail'[i] = trail'[j] => i = j
    <2>1. CASE run.holds
      <3>1. trail' = trail
        BY <1>2, <2>1
      <3>2. Yes(f.steps) \subseteq Prefix(trail, Len(trail)) \cup Truth(graph)
        <4>1. Above(stack, trail, n) = Len(trail)
          BY <1>4 DEF Above
        <4> QED
          BY <1>4, <1>5, <4>1 DEF Inv, Trailed
      <3>3. Guarded(f.pair) =>
                Backed(cutoffs, graph, f.pair, Prefix(trail, Len(trail)) \cup Truth(graph))
        <4>1. cutoffs = 0 => f.cutoffs = cutoffs
          BY <1>1, <1>6, <1>9
        <4>2. cutoffs = 0 => \A q \in No(f.steps) : q \notin Truth(graph)
          BY <1>9, <4>1
        <4> QED
          BY <1>7, <2>1, <3>2, <4>2 DEF Backed, Follows
      <3>4. Trailed(Below, trail, cutoffs, graph)
        BY <1>1, <1>3, <1>4, <3>3, TrailedKeep DEF Inv, Below
      <3>5. f.pair \in Prefix(trail, Len(trail)) \cup Truth(graph)
        <4>1. CASE Guarded(f.pair)
          <5>1. f.mark + 1 \in 1 .. Len(trail) /\ trail[f.mark + 1] = f.pair
            BY <1>6, <1>11, <4>1
          <5> QED
            BY <5>1 DEF Prefix
        <4>2. CASE ~Guarded(f.pair)
          BY <1>12, <2>1, <4>2
        <4> QED
          BY <4>1, <4>2
      <3> QED
        BY <1>1, <3>1, <3>4, <3>5
    <2>2. CASE ~run.holds
      <3>1. trail' = SubSeq(trail, 1, f.mark)
        BY <1>2, <1>5, <2>2 DEF withdraw
      <3>2. f.mark \in 0 .. Len(trail)
        BY <1>6, <1>11
      <3>3. PICK m \in 0 .. Len(trail) : m = f.mark
        BY <3>2
      <3>4. trail' = SubSeq(trail, 1, m)
        BY <3>1, <3>3, Zenon
      <3>5. /\ trail' \in Seq(Pairs) /\ Len(trail') = m
            /\ \A k \in 1 .. m : trail'[k] = trail[k]
        BY <1>1, <3>4, PrefixIs
      <3>6. trail' = SubSeq(trail, 1, stack[Len(stack)].mark)
        BY <1>4, <3>1, Zenon
      <3>7. Trailed(Below, trail', cutoffs, graph)
        BY <1>1, <1>3, <3>6, TrailedWithdraw DEF Inv, Below
      <3>8. DOMAIN trail' = 1 .. m /\ 1 .. m \subseteq DOMAIN trail
        BY <1>1, <3>5
      <3>9. \A i, j \in DOMAIN trail' : trail'[i] = trail'[j] => i = j
        BY <1>1, <3>5, <3>8
      <3>10. Below # <<>> => Prefix(trail', stack[1].mark) = Prefix(trail, stack[1].mark)
        <4>1. ASSUME Below # <<>>
              PROVE  Prefix(trail', stack[1].mark) = Prefix(trail, stack[1].mark)
          <5>1. PICK b \in Nat : b = stack[1].mark
            BY <1>14, <4>1
          <5>2. b <= m /\ m \in Nat
            BY <1>14, <3>3, <4>1, <5>1
          <5>3. \A k \in 1 .. b : trail'[k] = trail[k]
            BY <3>5, <5>2
          <5>4. Prefix(trail', b) = Prefix(trail, b)
            BY <5>3, PrefixSame
          <5> QED
            BY <5>1, <5>4
        <4> QED
          BY <4>1
      <3> QED
        BY <2>2, <3>5, <3>7, <3>9, <3>10
    <2> QED
      BY <1>8, <2>1, <2>2
  <1>16. Below # <<>> => Kept(Below, trail', graph, answer)
    <2>1. ASSUME Below # <<>> PROVE Kept(Below, trail', graph, answer)
      <3>1. Base(Below, trail') = stack[1].mark /\ Base(stack, trail) = stack[1].mark
        BY <1>3, <1>14, <2>1 DEF Base
      <3>2. Prefix(trail', stack[1].mark) = Prefix(trail, stack[1].mark)
        BY <1>15, <2>1
      <3> QED
        BY <3>1, <3>2 DEF Inv, Kept
    <2> QED
      BY <2>1
  <1>17. PICK sure \in BOOLEAN : sure = (f.cutoffs = cutoffs)
    OBVIOUS
  <1>18. Return(Below, f.pair, run.holds, sure)
    BY <1>7, <1>17
  <1>19. /\ Sound(stack', cutoffs, graph) /\ Trailed(stack', trail', cutoffs, graph)
         /\ Kept(stack', trail', graph, answer')
    <2>1. ~run.holds /\ Below # <<>> /\ Below[Len(Below)].cutoffs = cutoffs
              => f.pair \notin Truth(graph)
      BY <1>1, <1>6, <1>9, <1>13, <1>14
    <2>2. PICK tr \in Seq(Pairs) : tr = trail'
      BY <1>15
    <2>3. /\ Trailed(Below, tr, cutoffs, graph)
          /\ Below # <<>> => Kept(Below, tr, graph, answer)
          /\ run.holds => f.pair \in Prefix(tr, Len(tr)) \cup Truth(graph)
      BY <1>15, <1>16, <2>2
    <2>4. /\ Sound(stack', cutoffs, graph) /\ Trailed(stack', tr, cutoffs, graph)
          /\ Kept(stack', tr, graph, answer')
      BY <1>1, <1>6, <1>8, <1>10, <1>12, <1>18, <2>1, <2>2, <2>3, ReturnKeeps
    <2> QED
      BY <2>2, <2>4
  <1>20. stack' \in Seq(Frame) /\ answer' \in Answers
    BY <1>1, <1>6, <1>8, <1>10, <1>18, ReturnIs
  <1>21. refuted' \subseteq Pairs /\ refuted' \cap Truth(graph) = {}
    BY <1>1, <1>2, <1>5, <1>6, <1>8, <1>13 DEF Inv, RefutedIsReal, Refused, refutes
  <1>22. answer'.sure /\ ~answer'.holds => answer'.pair \notin Truth(graph)
    <2>1. CASE Below = <<>>
      <3>1. answer' = [pair |-> f.pair, holds |-> run.holds, sure |-> sure]
        BY <1>18, <2>1 DEF Return
      <3>2. answer'.pair = f.pair /\ answer'.holds = run.holds /\ answer'.sure = sure
        BY <3>1
      <3> QED
        BY <1>13, <1>17, <3>2
    <2>2. CASE Below # <<>>
      <3>1. answer' = answer
        BY <1>18, <2>2 DEF Return
      <3> QED
        BY <3>1 DEF Inv, RefutedIsReal, Refused
    <2> QED
      BY <2>1, <2>2
  <1>23. RefutedIsReal'
    BY <1>3, <1>21, <1>22 DEF RefutedIsReal, Refused
  <1>24. TypeOK'
    BY <1>1, <1>3, <1>15, <1>20, <1>21 DEF Inv, TypeOK, Answers
  <1> QED
    BY <1>3, <1>19, <1>23, <1>24 DEF Inv

LEMMA InitInv == Init => Inv
  <1> SUFFICES ASSUME Init PROVE Inv
    OBVIOUS
  <1>1. /\ graph \in Graphs /\ stack = <<>> /\ trail = <<>> /\ refuted = {}
        /\ cutoffs = 0 /\ queries = 0 /\ answer = NoAnswer
    BY DEF Init
  <1>2. DOMAIN stack = {} /\ DOMAIN trail = {} /\ Len(trail) = 0
    BY <1>1
  <1>3. answer.holds = FALSE /\ answer.sure = FALSE
    BY <1>1 DEF NoAnswer
  <1>4. TypeOK
    BY <1>1, <1>2, LimitAssumption DEF TypeOK
  <1>5. Sound(stack, cutoffs, graph)
    BY <1>2 DEF Sound
  <1>6. Trailed(stack, trail, cutoffs, graph)
    BY <1>2 DEF Trailed, Marked, Supported
  <1>7. Kept(stack, trail, graph, answer) /\ RefutedIsReal
    BY <1>1, <1>3 DEF Kept, RefutedIsReal, Refused
  <1> QED
    BY <1>4, <1>5, <1>6, <1>7 DEF Inv

LEMMA NextInv == Inv /\ [Next]_vars => Inv'
  <1> SUFFICES ASSUME Inv, [Next]_vars PROVE Inv'
    OBVIOUS
  <1>1. graph \in Graphs /\ stack \in Seq(Frame) /\ queries \in 0 .. MaxQueries
    BY DEF Inv, TypeOK
  <1>2. CASE \E p \in Queries(graph) : Query(p)
    <2>1. PICK p \in Queries(graph) : Query(p)
      BY <1>2
    <2>2. p \in Pairs
      BY <1>1, QueriesAssumption
    <2>3. check(stack, p, 0) /\ graph' = graph
      BY <2>1 DEF Query
    <2>4. queries' \in 0 .. MaxQueries
      BY <1>1, <2>1, LimitAssumption DEF Query
    <2> QED
      BY <2>2, <2>3, <2>4, CheckKeeps
  <1>3. CASE Goal
    <2>1. Top \in Frame
      BY <1>1, <1>3 DEF Goal, Top
    <2>2. PICK run \in Runs(graph, Top.pair) :
            /\ Len(Top.steps) + 1 <= Len(run.steps)
            /\ check(stack, run.steps[Len(Top.steps) + 1].pair,
                     Top.depth + run.deeper[Len(Top.steps) + 1])
      BY <1>3 DEF Goal
    <2>3. Top.pair \in Pairs /\ Top.depth \in Nat /\ Len(Top.steps) \in Nat
      BY <2>1 DEF Frame
    <2>4. /\ run.steps \in Seq(Step) /\ run.deeper \in Seq(Nat)
          /\ Len(run.deeper) = Len(run.steps)
      BY <1>1, <2>3, RunsAssumption
    <2>5. PICK i : i = Len(Top.steps) + 1
      OBVIOUS
    <2>6. i \in 1 .. Len(run.steps)
      BY <2>2, <2>3, <2>4, <2>5
    <2>7. run.steps[i] \in Step /\ run.deeper[i] \in Nat
      BY <2>4, <2>6
    <2>8. run.steps[i].pair \in Pairs /\ Top.depth + run.deeper[i] \in Nat
      BY <2>3, <2>7 DEF Step
    <2>9. check(stack, run.steps[i].pair, Top.depth + run.deeper[i])
      BY <2>2, <2>5
    <2>10. graph' = graph /\ queries' \in 0 .. MaxQueries
      BY <1>1, <1>3 DEF Goal
    <2> QED
      BY <2>8, <2>9, <2>10, CheckKeeps
  <1>4. CASE Conclude
    BY <1>4, ConcludeKeeps
  <1>5. CASE UNCHANGED vars
    BY <1>5 DEF vars, Inv, TypeOK, RefutedIsReal, Refused
  <1> QED
    BY <1>2, <1>3, <1>4, <1>5 DEF Next

LEMMA InvAlways == Spec => []Inv
  BY InitInv, NextInv, PTL DEF Spec

\* Between queries nothing is in progress, so all of the trail is supported.
LEMMA InvIsConsistent == Inv => (cutoffs = 0 => ProvedIsConsistent)
  <1> SUFFICES ASSUME Inv, cutoffs = 0, stack = <<>>, NEW p \in Proved
               PROVE  Fast(p) \/ Follows(graph, p, Proved \cup Truth(graph))
    BY DEF ProvedIsConsistent
  <1>1. graph \in Graphs /\ trail \in Seq(Pairs)
    BY DEF Inv, TypeOK
  <1>2. assumed = Prefix(trail, Len(trail))
    BY <1>1 DEF assumed, Prefix
  <1>3. Prefix(trail, Len(trail)) \cup Truth(graph) \subseteq Proved \cup Truth(graph)
    BY <1>2 DEF Proved
  <1>4. p \in Prefix(trail, Len(trail)) \cup Truth(graph)
    <2>1. Base(stack, trail) = Len(trail)
      BY DEF Base
    <2> QED
      BY <1>2, <2>1 DEF Proved, Inv, Kept
  <1>5. CASE p \in Prefix(trail, Len(trail))
    <2>1. PICK k \in 1 .. Len(trail) : p = trail[k]
      BY <1>5 DEF Prefix
    <2>2. ~InProgress(stack, k)
      BY DEF InProgress
    <2>3. Follows(graph, p, Prefix(trail, Len(trail)) \cup Truth(graph))
      BY <2>1, <2>2 DEF Inv, Trailed, Supported, Backed
    <2> QED
      BY <1>3, <2>3, FollowsMonotone
  <1>6. CASE p \in Truth(graph)
    <2>1. Fast(p) \/ Follows(graph, p, Truth(graph))
      BY <1>1, <1>6, TruthAssumption
    <2>2. Truth(graph) \subseteq Proved \cup Truth(graph)
      OBVIOUS
    <2> QED
      BY <2>1, <2>2, FollowsMonotone
  <1> QED
    BY <1>4, <1>5, <1>6

-----------------------------------------------------------------------------
\* A session keeps its types, and no pair is on the trail twice, so that what
\* withdraw deletes from the set of assumptions is not still on the trail.
THEOREM TypeCorrect == Spec => []TypeOK
  <1>1. Inv => TypeOK
    BY DEF Inv
  <1> QED
    BY <1>1, InvAlways, PTL

\* What refute remembers for the rest of a session is not true, and neither is
\* what a query denies without meeting the depth limit: it does not matter that
\* the pair was refuted under assumptions.
THEOREM RefusalsAreReal == Spec => []RefutedIsReal
  <1>1. Inv => RefutedIsReal
    BY DEF Inv
  <1> QED
    BY <1>1, InvAlways, PTL

\* As long as no derivation met the depth limit, what a session takes for shown
\* supports itself: every success on the trail follows by the rules from the
\* trail and from what is true, so with the greatest fixpoint for Truth it is
\* true.
THEOREM SuccessesAreConsistent == Spec => [](cutoffs = 0 => ProvedIsConsistent)
  BY InvAlways, InvIsConsistent, PTL

=============================================================================
