---------------------------- MODULE QueryDBProofs ----------------------------
(***************************************************************************)
(* Theorems about QueryDB.                                                 *)
(***************************************************************************)
EXTENDS QueryDB, TLAPS

-----------------------------------------------------------------------------
(* Stacks.                                                                 *)

\* What Front, Last and Update do to a stack that is not empty.
LEMMA FrontIs ==
    ASSUME NEW s \in Seq(Activations), s # <<>>
    PROVE  /\ Len(s) \in Nat \ {0} /\ DOMAIN s = 1 .. Len(s)
           /\ Last(s) = s[Len(s)] /\ Last(s) \in Activations
           /\ Front(s) \in Seq(Activations) /\ DOMAIN Front(s) = 1 .. Len(s) - 1
           /\ Len(Front(s)) = Len(s) - 1
           /\ \A n \in 1 .. Len(s) - 1 : Front(s)[n] = s[n]
  <1>1. Len(s) \in Nat \ {0} /\ DOMAIN s = 1 .. Len(s)
    OBVIOUS
  <1>2. Last(s) = s[Len(s)] /\ Last(s) \in Activations
    BY <1>1 DEF Last
  <1> DEFINE k == Len(s) - 1
  <1>3. k \in Nat /\ k <= Len(s)
    BY <1>1
  <1>4. Front(s) = SubSeq(s, 1, k)
    BY DEF Front
  <1>5. SubSeq(s, 1, k) \in Seq(Activations)
    BY <1>1, <1>3
  <1>6. Len(SubSeq(s, 1, k)) = k /\ \A n \in 1 .. k : SubSeq(s, 1, k)[n] = s[n]
    BY <1>1, <1>3
  <1>7. DOMAIN SubSeq(s, 1, k) = 1 .. k
    BY <1>5, <1>6
  <1> QED
    BY <1>1, <1>2, <1>4, <1>5, <1>6, <1>7

\* Update replaces the top activation.
LEMMA UpdateIs ==
    ASSUME NEW s \in Seq(Activations), s # <<>>, NEW a \in Activations
    PROVE  /\ Update(s, a) \in Seq(Activations) /\ Update(s, a) # <<>>
           /\ Len(Update(s, a)) = Len(s) /\ DOMAIN Update(s, a) = 1 .. Len(s)
           /\ Last(Update(s, a)) = a
           /\ \A n \in 1 .. Len(s) :
                 Update(s, a)[n] = IF n = Len(s) THEN a ELSE s[n]
  <1>1. /\ Front(s) \in Seq(Activations) /\ Len(Front(s)) = Len(s) - 1
        /\ Len(s) \in Nat \ {0}
        /\ \A n \in 1 .. Len(s) - 1 : Front(s)[n] = s[n]
    BY FrontIs
  <1>2. /\ Len(Append(Front(s), a)) = Len(s) /\ Append(Front(s), a) \in Seq(Activations)
        /\ Append(Front(s), a) # <<>> /\ DOMAIN Append(Front(s), a) = 1 .. Len(s)
    BY <1>1
  <1>3. \A n \in 1 .. Len(s) :
            Append(Front(s), a)[n] = IF n = Len(s) THEN a ELSE s[n]
    BY <1>1
  <1> QED
    BY <1>1, <1>2, <1>3 DEF Update, Last

\* Append puts one more activation on top.
LEMMA AppendIs ==
    ASSUME NEW s \in Seq(Activations), NEW a \in Activations
    PROVE  /\ Append(s, a) \in Seq(Activations) /\ Append(s, a) # <<>>
           /\ Len(s) \in Nat /\ Len(Append(s, a)) = Len(s) + 1
           /\ DOMAIN s = 1 .. Len(s) /\ DOMAIN Append(s, a) = 1 .. Len(s) + 1
           /\ Last(Append(s, a)) = a
           /\ \A n \in 1 .. Len(s) + 1 :
                 Append(s, a)[n] = IF n = Len(s) + 1 THEN a ELSE s[n]
  BY DEF Last

-----------------------------------------------------------------------------
(* One goroutine's stack of activations and its set of queries in progress. *)

\* The phases in which Get holds a copy of the entry it found.
Validating == {"check", "validate", "revalidated", "stamp", "mark"}
\* The phases in which Get answers a query that is being computed.
Approximating == {"approx", "record"}

\* The queries being computed on stack s, as InProgressIsComputing reads them.
Computing(s) == {s[n].query : n \in {k \in DOMAIN s : s[k].phase = "compute"}}

\* An activation has what the code of its phase uses.
Formed(a) ==
    /\ a \in Activations
    /\ a.next # 0
    /\ a.phase \in Validating => a.entry # None
    /\ a.phase \in {"mark", "store"} => a.rev # 0

\* Only the top activation is in the middle of Get's own code: the others wait
\* for the Get their computation or their validation called.
Waiting(s) ==
    \A n \in 1 .. Len(s) - 1 : s[n].phase \in {"compute", "validate"}

\* A query that is being computed is not entered again, only approximated.
Once(s) ==
    \A n \in 1 .. Len(s) : \A m \in 1 .. n - 1 :
        s[m].phase = "compute" /\ s[n].phase \notin Approximating
            => s[m].query # s[n].query

\* A goroutine's stack s with its set ip of queries in progress.
WellFormed(s, ip) ==
    /\ s \in Seq(Activations)
    /\ \A n \in 1 .. Len(s) : Formed(s[n])
    /\ Waiting(s)
    /\ Once(s)
    /\ ip = Computing(s)

\* What the tracker's set has to be when Get replaces its activation: the same
\* query joins it or leaves it.
LEMMA ComputingUpdate ==
    ASSUME NEW s \in Seq(Activations), s # <<>>, NEW a \in Activations
    PROVE  Computing(Update(s, a)) =
             Computing(Front(s)) \cup (IF a.phase = "compute" THEN {a.query} ELSE {})
  <1> DEFINE u == Update(s, a)
             f == Front(s)
  <1>1. Len(s) \in Nat \ {0} /\ DOMAIN u = 1 .. Len(s) /\ DOMAIN f = 1 .. Len(s) - 1
    BY FrontIs, UpdateIs
  <1>3. /\ Len(s) \in 1 .. Len(s)
        /\ \A n \in 1 .. Len(s) - 1 : n \in 1 .. Len(s) /\ n # Len(s)
    BY <1>1
  <1>2. u[Len(s)] = a /\ \A n \in 1 .. Len(s) - 1 : u[n] = f[n]
    <2>1. \A n \in 1 .. Len(s) : u[n] = IF n = Len(s) THEN a ELSE s[n]
      BY UpdateIs
    <2>2. \A n \in 1 .. Len(s) - 1 : f[n] = s[n]
      BY FrontIs
    <2> QED
      BY <2>1, <2>2, <1>3, Zenon
  <1> HIDE DEF u, f
  <1>4. \A n \in 1 .. Len(s) : n = Len(s) \/ n \in 1 .. Len(s) - 1
    BY <1>1
  <1>5. ASSUME NEW x \in Computing(u)
        PROVE  x \in Computing(f) \/ (a.phase = "compute" /\ x = a.query)
    BY <1>1, <1>2, <1>4, Zenon DEF Computing
  <1>6. ASSUME NEW x, x \in Computing(f) \/ (a.phase = "compute" /\ x = a.query)
        PROVE  x \in Computing(u)
    <2>1. PICK n \in 1 .. Len(s) : u[n].phase = "compute" /\ x = u[n].query
      BY <1>1, <1>2, <1>3, <1>6, Zenon DEF Computing
    <2> QED
      BY <2>1, <1>1, Zenon DEF Computing
  <1> QED
    BY <1>5, <1>6 DEF u, f

\* The top activation counts among the computing ones by its phase.
LEMMA TopOfComputing ==
    ASSUME NEW s \in Seq(Activations), s # <<>>
    PROVE  Computing(s) =
             Computing(Front(s)) \cup (IF Last(s).phase = "compute" THEN {Last(s).query} ELSE {})
  <1>1. /\ Len(s) \in Nat \ {0} /\ Len(Front(s)) = Len(s) - 1
        /\ \A n \in 1 .. Len(s) - 1 : Front(s)[n] = s[n]
        /\ DOMAIN s = 1 .. Len(s) /\ DOMAIN Front(s) = 1 .. Len(Front(s))
        /\ Last(s) = s[Len(s)]
    BY FrontIs
  <1>2. \A x : x \in Computing(s) <=>
              \E n \in 1 .. Len(s) : s[n].phase = "compute" /\ x = s[n].query
    BY <1>1 DEF Computing
  <1>3. \A x : x \in Computing(Front(s)) <=>
              \E n \in 1 .. Len(s) - 1 : s[n].phase = "compute" /\ x = s[n].query
    BY <1>1 DEF Computing
  <1>4. \A x : x \in Computing(s) <=>
                  x \in Computing(Front(s)) \/ (Last(s).phase = "compute" /\ x = Last(s).query)
    BY <1>1, <1>2, <1>3
  <1> QED
    BY <1>4

\* Get moves on to another phase of the same activation.
LEMMA UpdateWellFormed ==
    ASSUME NEW s, NEW ip, WellFormed(s, ip), s # <<>>,
           NEW a, Formed(a), a.query = Last(s).query,
           a.phase \in Approximating \/ Last(s).phase \notin Approximating
    PROVE  WellFormed(Update(s, a),
             (ip \ (IF Last(s).phase = "compute" THEN {a.query} ELSE {}))
               \cup (IF a.phase = "compute" THEN {a.query} ELSE {}))
  <1> DEFINE u == Update(s, a)
  <1>0. s \in Seq(Activations) /\ a \in Activations
    BY DEF WellFormed, Formed
  <1>1. /\ u \in Seq(Activations) /\ Len(u) = Len(s) /\ Len(s) \in Nat \ {0}
        /\ \A n \in 1 .. Len(s) : u[n] = IF n = Len(s) THEN a ELSE s[n]
        /\ Last(s) = s[Len(s)]
    BY <1>0, FrontIs, UpdateIs
  <1>2. /\ Len(Front(s)) = Len(s) - 1
        /\ \A n \in 1 .. Len(s) - 1 : Front(s)[n] = s[n]
        /\ DOMAIN Front(s) = 1 .. Len(Front(s))
    BY <1>0, FrontIs
  <1>3. Computing(u) = Computing(Front(s)) \cup (IF a.phase = "compute" THEN {a.query} ELSE {})
    BY <1>0, ComputingUpdate
  <1>4. ip = Computing(Front(s)) \cup (IF Last(s).phase = "compute" THEN {a.query} ELSE {})
    BY <1>0, TopOfComputing DEF WellFormed
  <1>5. Last(s).phase = "compute" => a.query \notin Computing(Front(s))
    <2> SUFFICES ASSUME Last(s).phase = "compute", a.query \in Computing(Front(s))
                 PROVE  FALSE
      OBVIOUS
    <2>1. PICK n \in 1 .. Len(s) - 1 : s[n].phase = "compute" /\ s[n].query = a.query
      BY <1>1, <1>2 DEF Computing
    <2>2. Len(s) \in 1 .. Len(s) /\ n \in 1 .. Len(s) - 1 /\ Last(s).phase \notin Approximating
      BY <1>1 DEF Approximating
    <2> QED
      BY <2>1, <2>2, <1>1 DEF WellFormed, Once
  <1> HIDE DEF u
  <1>6. \A n \in 1 .. Len(u) : Formed(u[n])
    BY <1>1 DEF WellFormed
  <1>7. Waiting(u)
    BY <1>1 DEF WellFormed, Waiting
  <1>8. Once(u)
    <2> SUFFICES ASSUME NEW n \in 1 .. Len(u), NEW m \in 1 .. n - 1,
                        u[m].phase = "compute", u[n].phase \notin Approximating
                 PROVE  u[m].query # u[n].query
      BY DEF Once
    <2>1. m \in 1 .. Len(s) /\ m # Len(s) /\ n \in 1 .. Len(s)
      BY <1>1
    <2>2. u[m] = s[m]
      BY <2>1, <1>1
    <2>3. CASE n = Len(s)
      BY <2>1, <2>2, <2>3, <1>1 DEF WellFormed, Once
    <2>4. CASE n # Len(s)
      BY <2>1, <2>2, <2>4, <1>1 DEF WellFormed, Once
    <2> QED
      BY <2>3, <2>4
  <1>9. Computing(u) = (ip \ (IF Last(s).phase = "compute" THEN {a.query} ELSE {}))
                         \cup (IF a.phase = "compute" THEN {a.query} ELSE {})
    BY <1>3, <1>4, <1>5
  <1> QED
    BY <1>1, <1>6, <1>7, <1>8, <1>9 DEF WellFormed, u


\* Replacing the top twice is replacing it once.
LEMMA UpdateTwice ==
    ASSUME NEW s \in Seq(Activations), s # <<>>,
           NEW a \in Activations, NEW b \in Activations
    PROVE  Update(Update(s, a), b) = Update(s, b)
  <1>1. /\ Front(s) \in Seq(Activations) /\ Len(Front(s)) = Len(s) - 1
        /\ Len(s) \in Nat \ {0} /\ DOMAIN Front(s) = 1 .. Len(s) - 1
        /\ \A n \in 1 .. Len(s) - 1 : Front(s)[n] = s[n]
    BY FrontIs
  <1>2. /\ Update(s, a) \in Seq(Activations) /\ Update(s, a) # <<>>
        /\ Len(Update(s, a)) = Len(s)
        /\ \A n \in 1 .. Len(s) - 1 : Update(s, a)[n] = s[n]
    <2>1. /\ Update(s, a) \in Seq(Activations) /\ Update(s, a) # <<>>
          /\ Len(Update(s, a)) = Len(s)
          /\ \A n \in 1 .. Len(s) : Update(s, a)[n] = IF n = Len(s) THEN a ELSE s[n]
      BY UpdateIs
    <2>2. \A n \in 1 .. Len(s) - 1 : n \in 1 .. Len(s) /\ n # Len(s)
      BY <1>1
    <2> QED
      BY <2>1, <2>2, Zenon
  <1>3. /\ Front(Update(s, a)) \in Seq(Activations)
        /\ DOMAIN Front(Update(s, a)) = 1 .. Len(s) - 1
        /\ \A n \in 1 .. Len(s) - 1 : Front(Update(s, a))[n] = s[n]
    <2> DEFINE u == Update(s, a)
    <2>1. /\ Front(u) \in Seq(Activations)
          /\ DOMAIN Front(u) = 1 .. Len(u) - 1
          /\ \A n \in 1 .. Len(u) - 1 : Front(u)[n] = u[n]
      BY <1>2, FrontIs
    <2> QED
      BY <2>1, <1>2, Zenon
  <1>4. Front(Update(s, a)) = Front(s)
    BY <1>1, <1>3
  <1> QED
    BY <1>4 DEF Update

\* The activation after the source it waits for was recorded and delivered.
Delivered(a, source, last, v) ==
    IF a.phase = "compute"
    THEN [a EXCEPT !.deps = Append(@, [source |-> source, last |-> last]),
                   !.vals = Append(@, v)]
    ELSE [a EXCEPT !.phase = "revalidated"]

\* Delivering a value keeps an activation formed and moves validation on.
LEMMA DeliveredFormed ==
    ASSUME NEW a, Formed(a), a.phase \in {"compute", "validate"},
           NEW source \in Inputs \cup Queries, NEW last \in Revisions, NEW v \in Values
    PROVE  /\ Formed(Delivered(a, source, last, v))
           /\ Delivered(a, source, last, v).query = a.query
           /\ Delivered(a, source, last, v).phase =
                 IF a.phase = "compute" THEN "compute" ELSE "revalidated"
  <1>1. [source |-> source, last |-> last] \in Deps
    BY DEF Deps
  <1>2. Append(a.deps, [source |-> source, last |-> last]) \in Seq(Deps)
    BY <1>1 DEF Formed, Activations
  <1>3. Append(a.vals, v) \in Seq(Values)
    BY DEF Formed, Activations
  <1>4. CASE a.phase = "compute"
    BY <1>2, <1>3, <1>4 DEF Formed, Activations, Delivered, Validating
  <1>5. CASE a.phase = "validate"
    BY <1>5 DEF Formed, Activations, Delivered, Validating, Phases
  <1> QED
    BY <1>4, <1>5

\* Recording a dependency and delivering its value update the top activation.
LEMMA DeliverIs ==
    ASSUME NEW s \in Seq(Activations), s # <<>>, Formed(Last(s)),
           Last(s).phase \in {"compute", "validate"},
           NEW source \in Inputs \cup Queries, NEW last \in Revisions, NEW v \in Values
    PROVE  Deliver(recordDep(s, source, last), v) =
             Update(s, Delivered(Last(s), source, last, v))
  <1> DEFINE a == Last(s)
             b == [a EXCEPT !.deps = Append(@, [source |-> source, last |-> last])]
             u == Update(s, b)
  <1>0. a \in Activations
    BY FrontIs
  <1>1. CASE a.phase = "compute"
    <2>1. recordDep(s, source, last) = u
      BY <1>1 DEF recordDep
    <2>2. b \in Activations /\ b.phase = "compute"
      <3>1. [source |-> source, last |-> last] \in Deps
        BY DEF Deps
      <3>2. Append(a.deps, [source |-> source, last |-> last]) \in Seq(Deps)
        BY <3>1, <1>0 DEF Activations
      <3> QED
        BY <3>2, <1>0, <1>1 DEF Activations
    <2>3. Last(u) = b /\ u # <<>>
      BY <2>2, UpdateIs
    <2>4. [b EXCEPT !.vals = Append(@, v)] = Delivered(a, source, last, v)
      BY <1>0, <1>1 DEF Delivered, Activations
    <2>5. Delivered(a, source, last, v) \in Activations
      BY <1>1, DeliveredFormed DEF Formed
    <2> HIDE DEF u, b, a
    <2>6. Deliver(u, v) = Update(u, [Last(u) EXCEPT !.vals = Append(@, v)])
      BY <2>2, <2>3 DEF Deliver
    <2>7. Deliver(u, v) = Update(u, Delivered(a, source, last, v))
      BY <2>6, <2>3, <2>4
    <2> QED
      BY <2>1, <2>2, <2>5, <2>7, UpdateTwice DEF u, a
  <1>2. CASE a.phase = "validate"
    BY <1>2 DEF recordDep, Deliver, Delivered
  <1> QED
    BY <1>1, <1>2

\* A Get returned to the activation on top, or to the caller outside.
LEMMA DeliverWellFormed ==
    ASSUME NEW s, NEW ip, WellFormed(s, ip),
           s # <<>> => Last(s).phase \in {"compute", "validate"},
           NEW source \in Inputs \cup Queries, NEW last \in Revisions, NEW v \in Values
    PROVE  WellFormed(Deliver(recordDep(s, source, last), v), ip)
  <1>1. CASE s = <<>>
    BY <1>1 DEF recordDep, Deliver
  <1>2. CASE s # <<>>
    <2> DEFINE a == Last(s)
               b == Delivered(a, source, last, v)
    <2>1. s \in Seq(Activations) /\ Formed(a)
      BY <1>2, FrontIs DEF WellFormed
    <2>2. Deliver(recordDep(s, source, last), v) = Update(s, b)
      BY <1>2, <2>1, DeliverIs
    <2>3. Formed(b) /\ b.query = a.query /\ a.phase \notin Approximating
          /\ b.phase = IF a.phase = "compute" THEN "compute" ELSE "revalidated"
      BY <1>2, <2>1, DeliveredFormed DEF Approximating
    <2> HIDE DEF b
    <2>4. WellFormed(Update(s, b),
             (ip \ (IF a.phase = "compute" THEN {b.query} ELSE {}))
               \cup (IF b.phase = "compute" THEN {b.query} ELSE {}))
      BY <1>2, <2>1, <2>3, UpdateWellFormed
    <2>5. a.phase = "compute" => a.query \in ip
      <3>1. ip = Computing(Front(s)) \cup (IF a.phase = "compute" THEN {a.query} ELSE {})
        BY <1>2, <2>1, TopOfComputing DEF WellFormed
      <3> QED
        BY <3>1
    <2>6. ip = (ip \ (IF a.phase = "compute" THEN {b.query} ELSE {}))
                 \cup (IF b.phase = "compute" THEN {b.query} ELSE {})
      BY <2>3, <2>5, <1>2
    <2> QED
      BY <2>2, <2>4, <2>6
  <1> QED
    BY <1>1, <1>2

\* Get calls, or a caller calls Get.
LEMMA PushWellFormed ==
    ASSUME NEW s, NEW ip, WellFormed(s, ip),
           s # <<>> => Last(s).phase \in {"compute", "validate"},
           NEW a, Formed(a), a.phase # "compute",
           a.phase \notin Approximating => a.query \notin ip
    PROVE  WellFormed(Append(s, a), ip)
  <1> DEFINE u == Append(s, a)
             k == Len(s)
  <1>0. s \in Seq(Activations) /\ a \in Activations
    BY DEF WellFormed, Formed
  <1>1. /\ u \in Seq(Activations) /\ Len(u) = k + 1 /\ k \in Nat
        /\ DOMAIN u = 1 .. k + 1 /\ DOMAIN s = 1 .. k
    BY <1>0, AppendIs
  <1>2. u[k + 1] = a /\ \A n \in 1 .. k : u[n] = s[n] /\ n \in 1 .. k + 1
    <2>1. \A n \in 1 .. k + 1 : u[n] = IF n = k + 1 THEN a ELSE s[n]
      BY <1>0, AppendIs
    <2>2. k + 1 \in 1 .. k + 1 /\ \A n \in 1 .. k : n \in 1 .. k + 1 /\ n # k + 1
      BY <1>1
    <2> QED
      BY <2>1, <2>2, Zenon
  <1>3. \A n \in 1 .. k + 1 : n = k + 1 \/ n \in 1 .. k
    BY <1>1
  <1>4. \A n \in 1 .. k + 1 : \A m \in 1 .. n - 1 : m \in 1 .. k
    BY <1>1
  <1> HIDE DEF u
  <1>5. \A n \in 1 .. Len(u) : Formed(u[n])
    BY <1>1, <1>2, <1>3, Zenon DEF WellFormed
  <1>6. Waiting(u)
    <2> SUFFICES ASSUME NEW n \in 1 .. k PROVE s[n].phase \in {"compute", "validate"}
      BY <1>1, <1>2 DEF Waiting
    <2>1. CASE n = k
      BY <2>1, <1>0, <1>1, FrontIs
    <2>2. CASE n # k
      <3>0. k \in Nat /\ n \in 1 .. k
        BY <1>1
      <3> HIDE DEF k
      <3>1. n \in 1 .. k - 1
        BY <3>0, <2>2
      <3> QED
        BY <3>1 DEF WellFormed, Waiting, k
    <2> QED
      BY <2>1, <2>2
  <1>7. Once(u)
    <2> SUFFICES ASSUME NEW n \in 1 .. k + 1, NEW m \in 1 .. n - 1,
                        u[m].phase = "compute", u[n].phase \notin Approximating
                 PROVE  u[m].query # u[n].query
      BY <1>1 DEF Once
    <2>1. m \in 1 .. k /\ u[m] = s[m]
      BY <1>2, <1>4, Zenon
    <2>2. CASE n = k + 1
      <3>1. s[m].query \in ip
        BY <2>1, <1>1 DEF WellFormed, Computing
      <3> QED
        BY <2>1, <2>2, <3>1, <1>2
    <2>3. CASE n \in 1 .. k
      <3>1. u[n] = s[n]
        BY <2>3, <1>2
      <3> QED
        BY <2>1, <2>3, <3>1 DEF WellFormed, Once
    <2> QED
      BY <2>2, <2>3, <1>3
  <1>8. Computing(u) = Computing(s)
    <2>1. \A n \in 1 .. k + 1 : u[n].phase = "compute" => n \in 1 .. k
      BY <1>2, <1>3, Zenon
    <2>2. ASSUME NEW x \in Computing(u) PROVE x \in Computing(s)
      BY <1>1, <1>2, <2>1, Zenon DEF Computing
    <2>3. ASSUME NEW x \in Computing(s) PROVE x \in Computing(u)
      <3>1. PICK n \in 1 .. k : s[n].phase = "compute" /\ x = s[n].query
        BY <1>1, Zenon DEF Computing
      <3>2. n \in 1 .. k + 1 /\ u[n].phase = "compute" /\ x = u[n].query
        BY <3>1, <1>2, Zenon
      <3> QED
        BY <3>2, <1>1, Zenon DEF Computing
    <2> QED
      BY <2>2, <2>3
  <1> QED
    BY <1>1, <1>5, <1>6, <1>7, <1>8 DEF WellFormed, u

\* Get's activation ends; it is not computing.
LEMMA PopWellFormed ==
    ASSUME NEW s, NEW ip, WellFormed(s, ip), s # <<>>, Last(s).phase # "compute"
    PROVE  /\ WellFormed(Front(s), ip)
           /\ Front(s) # <<>> => Last(Front(s)).phase \in {"compute", "validate"}
  <1> DEFINE f == Front(s)
  <1>0. s \in Seq(Activations)
    BY DEF WellFormed
  <1>1. /\ f \in Seq(Activations) /\ Len(s) \in Nat \ {0} /\ Len(f) = Len(s) - 1
        /\ \A n \in 1 .. Len(s) - 1 : f[n] = s[n]
    BY <1>0, FrontIs
  <1>2. Computing(f) = ip
    BY <1>0, TopOfComputing DEF WellFormed
  <1> HIDE DEF f
  <1>3. \A n \in 1 .. Len(f) : Formed(f[n])
    BY <1>1 DEF WellFormed
  <1>4. \A n \in 1 .. Len(f) : f[n].phase \in {"compute", "validate"}
    BY <1>1 DEF WellFormed, Waiting
  <1>5. Waiting(f)
    BY <1>4, <1>1 DEF Waiting
  <1>6. Once(f)
    <2> SUFFICES ASSUME NEW n \in 1 .. Len(f), NEW m \in 1 .. n - 1,
                        f[m].phase = "compute", f[n].phase \notin Approximating
                 PROVE  f[m].query # f[n].query
      BY DEF Once
    <2>1. m \in 1 .. Len(f) /\ f[m] = s[m] /\ f[n] = s[n] /\ n \in 1 .. Len(s)
      BY <1>1
    <2> QED
      BY <2>1 DEF WellFormed, Once
  <1>7. f # <<>> => Last(f).phase \in {"compute", "validate"}
    <2> SUFFICES ASSUME f # <<>> PROVE Last(f).phase \in {"compute", "validate"}
      OBVIOUS
    <2>1. Last(f) = f[Len(f)] /\ Len(f) \in Nat \ {0}
      BY <1>1, FrontIs
    <2> QED
      BY <2>1, <1>4
  <1> QED
    BY <1>1, <1>2, <1>3, <1>5, <1>6, <1>7 DEF WellFormed, f

\* A goroutine outside of Get.
LEMMA EmptyWellFormed == WellFormed(<<>>, {})
  BY DEF WellFormed, Waiting, Once, Computing

-----------------------------------------------------------------------------
(* Types, and the queries in progress.                                     *)

\* What the Go types say: a computation reads inputs and queries; when it reads
\* no more it returns a V, and so does a widen function.
Typed ==
    /\ \A q \in Queries, vals \in Seq(Values) :
          /\ NextRead(q, vals) \in Inputs \cup Queries \cup {None}
          /\ NextRead(q, vals) = None => Combine(q, vals) \in Values
    /\ \A v \in Values, w \in Values : Widen(v, w) \in Values

\* All goroutines' stacks and sets.
Stacks ==
    /\ stack \in [Threads -> Seq(Activations)]
    /\ \A t \in Threads : WellFormed(stack[t], inProgress[t])

\* A step of goroutine t touches its own stack and set only.
Moves(t) ==
    \E s, ip :
        /\ WellFormed(s, ip)
        /\ stack' = [stack EXCEPT ![t] = s]
        /\ inProgress' = [inProgress EXCEPT ![t] = ip]

\* The set in progress holds queries only.
LEMMA ComputingQueries ==
    ASSUME NEW s, NEW ip, WellFormed(s, ip)
    PROVE  ip \subseteq Queries
  <1> SUFFICES ASSUME NEW x \in ip PROVE x \in Queries
    OBVIOUS
  <1>1. PICK n \in DOMAIN s : x = s[n].query
    BY Zenon DEF WellFormed, Computing
  <1>2. s[n] \in Activations
    BY DEF WellFormed
  <1> QED
    BY <1>1, <1>2 DEF Activations

\* A step of one goroutine leaves the others as they were.
LEMMA MovesKeepsStacks ==
    ASSUME TypeOK, Stacks, NEW t \in Threads, Moves(t)
    PROVE  /\ Stacks'
           /\ inProgress' \in [Threads -> SUBSET Queries]
           /\ \A u \in Threads : stack'[u] \in Seq(Activations)
  <1>1. PICK s, ip : /\ WellFormed(s, ip)
                     /\ stack' = [stack EXCEPT ![t] = s]
                     /\ inProgress' = [inProgress EXCEPT ![t] = ip]
    BY DEF Moves
  <1>2. s \in Seq(Activations) /\ ip \subseteq Queries
    BY <1>1, ComputingQueries DEF WellFormed
  <1>3. /\ stack' \in [Threads -> Seq(Activations)]
        /\ inProgress' \in [Threads -> SUBSET Queries]
    BY <1>1, <1>2 DEF Stacks, TypeOK
  <1>4. ASSUME NEW u \in Threads PROVE WellFormed(stack'[u], inProgress'[u])
    <2>1. CASE u = t
      BY <1>1, <2>1 DEF Stacks, TypeOK
    <2>2. CASE u # t
      BY <1>1, <2>2 DEF Stacks, TypeOK
    <2> QED
      BY <2>1, <2>2
  <1> QED
    BY <1>3, <1>4 DEF Stacks

\* What is known of the activation on top.
LEMMA TopIs ==
    ASSUME TypeOK, Stacks, NEW t \in Threads, stack[t] # <<>>
    PROVE  /\ WellFormed(stack[t], inProgress[t])
           /\ stack[t] \in Seq(Activations)
           /\ Top(t) = Last(stack[t])
           /\ Top(t) \in Activations /\ Formed(Top(t))
           /\ Top(t).query \in Queries
           /\ inProgress[t] = Computing(stack[t])
  <1>1. WellFormed(stack[t], inProgress[t]) /\ stack[t] \in Seq(Activations)
    BY DEF Stacks
  <1>2. Top(t) = Last(stack[t]) /\ Formed(Top(t))
    BY <1>1, FrontIs DEF Top, WellFormed
  <1> QED
    BY <1>1, <1>2 DEF WellFormed, Formed, Activations

\* The activation moves to another phase and is computing neither before nor
\* after.
LEMMA GotoMoves ==
    ASSUME TypeOK, Stacks, NEW t \in Threads, stack[t] # <<>>,
           Top(t).phase # "compute",
           NEW a, Formed(a), a.query = Top(t).query, a.phase # "compute",
           a.phase \in Approximating \/ Top(t).phase \notin Approximating,
           Goto(t, a), UNCHANGED inProgress
    PROVE  Moves(t)
  <1>1. WellFormed(stack[t], inProgress[t]) /\ Top(t) = Last(stack[t])
    BY TopIs
  <1>2. WellFormed(Update(stack[t], a), (inProgress[t] \ {}) \cup {})
    BY <1>1, UpdateWellFormed
  <1>3. inProgress' = [inProgress EXCEPT ![t] = (inProgress[t] \ {}) \cup {}]
    BY DEF TypeOK
  <1>4. stack' = [stack EXCEPT ![t] = Update(stack[t], a)]
    BY DEF Goto
  <1> QED
    BY <1>2, <1>3, <1>4 DEF Moves

\* The records the phases of Get make of an activation.
LEMMA StartFormed ==
    ASSUME NEW b, Formed(b)
    PROVE  /\ Formed([b EXCEPT !.phase = "compute", !.entry = None, !.next = 1])
           /\ [b EXCEPT !.phase = "compute", !.entry = None, !.next = 1].query = b.query
           /\ [b EXCEPT !.phase = "compute", !.entry = None, !.next = 1].phase = "compute"
  <1> DEFINE a == [b EXCEPT !.phase = "compute", !.entry = None, !.next = 1]
  <1>1. b \in Activations
    BY DEF Formed
  <1>2. a \in Activations
    BY <1>1 DEF Activations, Phases
  <1>3. a.query = b.query /\ a.phase = "compute" /\ a.next = 1
    BY <1>1 DEF Activations
  <1> QED
    BY <1>2, <1>3 DEF Formed, Validating

\* Validation goes on to the next dependency.
LEMMA NextFormed ==
    ASSUME NEW b, Formed(b), b.phase \in Validating
    PROVE  /\ Formed([b EXCEPT !.phase = "validate", !.next = @ + 1])
           /\ [b EXCEPT !.phase = "validate", !.next = @ + 1].query = b.query
           /\ [b EXCEPT !.phase = "validate", !.next = @ + 1].phase = "validate"
  <1> DEFINE a == [b EXCEPT !.phase = "validate", !.next = @ + 1]
  <1>1. b \in Activations /\ b.next \in Nat
    BY DEF Formed, Activations
  <1>2. a \in Activations
    <2>1. "validate" \in Phases /\ b.next + 1 \in Nat
      BY <1>1 DEF Phases
    <2> HIDE DEF Phases
    <2> QED
      BY <1>1, <2>1 DEF Activations
  <1>3. a.query = b.query /\ a.phase = "validate" /\ a.next = b.next + 1 /\ a.entry = b.entry
    BY <1>1 DEF Activations
  <1>4. a.next # 0 /\ a.entry # None
    BY <1>1, <1>3 DEF Formed
  <1> HIDE DEF a
  <1>5. Formed(a)
    BY <1>2, <1>3, <1>4 DEF Formed, Validating
  <1> QED
    BY <1>3, <1>5 DEF a

\* Get begins to compute.
LEMMA StartMoves ==
    ASSUME TypeOK, Stacks, NEW t \in Threads, stack[t] # <<>>,
           Top(t).phase # "compute", Top(t).phase \notin Approximating,
           StartCompute(t, Top(t))
    PROVE  Moves(t)
  <1> DEFINE a == [Top(t) EXCEPT !.phase = "compute", !.entry = None, !.next = 1]
  <1>1. /\ WellFormed(stack[t], inProgress[t]) /\ Top(t) = Last(stack[t])
        /\ Formed(Top(t)) /\ Top(t) \in Activations
    BY TopIs
  <1>2. Formed(a) /\ a.query = Top(t).query /\ a.phase = "compute"
    BY <1>1, StartFormed
  <1>3. /\ inProgress' = [inProgress EXCEPT ![t] = inProgress[t] \cup {a.query}]
        /\ stack' = [stack EXCEPT ![t] = Update(stack[t], a)]
    BY <1>2 DEF StartCompute, Goto
  <1> HIDE DEF a
  <1>4. WellFormed(Update(stack[t], a), (inProgress[t] \ {}) \cup {a.query})
    BY <1>1, <1>2, UpdateWellFormed
  <1>5. (inProgress[t] \ {}) \cup {a.query} = inProgress[t] \cup {a.query}
    OBVIOUS
  <1> QED
    BY <1>3, <1>4, <1>5 DEF Moves

\* Get returns to its caller.
LEMMA ReturnMoves ==
    ASSUME TypeOK, Stacks, NEW t \in Threads, stack[t] # <<>>,
           Top(t).phase # "compute",
           NEW v \in Values, NEW last \in Revisions,
           Return(t, v, last), UNCHANGED inProgress
    PROVE  Moves(t)
  <1> DEFINE f == Front(stack[t])
             q == Top(t).query
  <1>1. /\ WellFormed(stack[t], inProgress[t]) /\ Top(t) = Last(stack[t])
        /\ q \in Inputs \cup Queries
    BY TopIs
  <1>2. /\ WellFormed(f, inProgress[t])
        /\ f # <<>> => Last(f).phase \in {"compute", "validate"}
    BY <1>1, PopWellFormed
  <1>3. stack' = [stack EXCEPT ![t] = Deliver(recordDep(f, q, last), v)]
    BY DEF Return
  <1> HIDE DEF f, q
  <1>4. WellFormed(Deliver(recordDep(f, q, last), v), inProgress[t])
    BY <1>1, <1>2, DeliverWellFormed
  <1>5. inProgress' = [inProgress EXCEPT ![t] = inProgress[t]]
    BY DEF TypeOK
  <1> QED
    BY <1>3, <1>4, <1>5 DEF Moves

\* Get is called.
LEMMA PushMoves ==
    ASSUME TypeOK, Stacks, NEW t \in Threads,
           stack[t] # <<>> => Top(t).phase \in {"compute", "validate"},
           NEW q \in Queries,
           stack' = [stack EXCEPT ![t] = Append(stack[t], Activation(t, q))],
           UNCHANGED inProgress
    PROVE  Moves(t)
  <1> DEFINE a == Activation(t, q)
  <1>1. /\ Formed(a) /\ a.query = q /\ a.phase # "compute"
        /\ a.phase \notin Approximating => q \notin inProgress[t]
    <2>1. 0 \in Revisions
      BY BoundAssumption DEF Revisions
    <2>2. <<>> \in Seq(Values) /\ <<>> \in Seq(Deps)
      OBVIOUS
    <2> QED
      BY <2>1, <2>2, SourceAssumption
        DEF Activation, Formed, Activations, Phases, Approximating, Validating
  <1>2. WellFormed(stack[t], inProgress[t])
    BY DEF Stacks
  <1>3. stack[t] # <<>> => Last(stack[t]).phase \in {"compute", "validate"}
    BY DEF Top
  <1> HIDE DEF a
  <1>4. WellFormed(Append(stack[t], a), inProgress[t])
    BY <1>1, <1>2, <1>3, PushWellFormed
  <1>5. inProgress' = [inProgress EXCEPT ![t] = inProgress[t]]
    BY DEF TypeOK
  <1> QED
    BY <1>4, <1>5 DEF Moves, a

\* A panic leaves all Gets of its goroutine and empties its set.
LEMMA UnwindMoves ==
    ASSUME TypeOK, Stacks, NEW t \in Threads, Unwind(t)
    PROVE  Moves(t) /\ cycle' \in [Threads -> SUBSET Queries]
  <1>1. inProgress[t] = Computing(stack[t])
    BY DEF Stacks, WellFormed
  <1>2. inProgress' = [inProgress EXCEPT ![t] = inProgress[t] \ Computing(stack[t])]
    BY DEF Unwind, Computing
  <1>3. inProgress[t] \ Computing(stack[t]) = {}
    BY <1>1
  <1>4. stack' = [stack EXCEPT ![t] = <<>>] /\ WellFormed(<<>>, {})
    BY EmptyWellFormed DEF Unwind
  <1>5. cycle' \in [Threads -> SUBSET Queries]
    BY DEF Unwind, TypeOK
  <1> QED
    BY <1>2, <1>3, <1>4, <1>5 DEF Moves

\* A dependency was compared: validation goes on, or the query is computed.
LEMMA ChangedMoves ==
    ASSUME TypeOK, Stacks, NEW t \in Threads, stack[t] # <<>>,
           Top(t).phase \in {"validate", "revalidated"},
           NEW changed, Changed(t, changed)
    PROVE  Moves(t)
  <1>1. Top(t).phase # "compute" /\ Top(t).phase \notin Approximating
    BY DEF Approximating
  <1>2. CASE changed
    BY <1>1, <1>2, StartMoves DEF Changed
  <1>3. CASE ~changed
    <2> DEFINE a == [Top(t) EXCEPT !.phase = "validate", !.next = @ + 1]
    <2>1. Formed(Top(t)) /\ Top(t) \in Activations
      BY TopIs
    <2>2. Formed(a) /\ a.query = Top(t).query /\ a.phase # "compute"
      BY <2>1, NextFormed DEF Validating
    <2>3. Goto(t, a) /\ UNCHANGED inProgress
      BY <1>3 DEF Changed
    <2> HIDE DEF a
    <2> QED
      BY <1>1, <2>2, <2>3, GotoMoves
  <1> QED
    BY <1>2, <1>3 DEF Changed


\* Get has found an entry.
LEMMA CheckFormed ==
    ASSUME NEW b, Formed(b), NEW e \in Entries
    PROVE  /\ Formed([b EXCEPT !.phase = "check", !.entry = e])
           /\ [b EXCEPT !.phase = "check", !.entry = e].query = b.query
           /\ [b EXCEPT !.phase = "check", !.entry = e].phase = "check"
  <1> DEFINE a == [b EXCEPT !.phase = "check", !.entry = e]
  <1>1. b \in Activations /\ "check" \in Phases /\ e # None
    BY NoneAssumption DEF Formed, Phases
  <1>2. a \in Activations
    BY <1>1 DEF Activations
  <1>3. a.query = b.query /\ a.phase = "check" /\ a.next = b.next /\ a.entry = e
    BY <1>1 DEF Activations
  <1> HIDE DEF a
  <1>4. Formed(a)
    BY <1>1, <1>2, <1>3 DEF Formed
  <1> QED
    BY <1>3, <1>4 DEF a

\* Validation begins or ends.
LEMMA PhaseFormed ==
    ASSUME NEW b, Formed(b), b.phase \in Validating, NEW p \in {"validate", "stamp"}
    PROVE  /\ Formed([b EXCEPT !.phase = p])
           /\ [b EXCEPT !.phase = p].query = b.query
           /\ [b EXCEPT !.phase = p].phase = p
  <1> DEFINE a == [b EXCEPT !.phase = p]
  <1>1. b \in Activations /\ p \in Phases
    BY DEF Formed, Phases
  <1>2. a \in Activations
    BY <1>1 DEF Activations
  <1>3. a.query = b.query /\ a.phase = p /\ a.next = b.next /\ a.entry = b.entry
    BY <1>1 DEF Activations
  <1> HIDE DEF a
  <1>4. Formed(a)
    BY <1>1, <1>2, <1>3 DEF Formed
  <1> QED
    BY <1>3, <1>4 DEF a

\* Get has loaded the revision it will write.
LEMMA StampFormed ==
    ASSUME NEW b, Formed(b), NEW r \in Revisions \ {0}, NEW p \in {"mark", "store"},
           p = "mark" => b.phase \in Validating
    PROVE  /\ Formed([b EXCEPT !.phase = p, !.rev = r])
           /\ [b EXCEPT !.phase = p, !.rev = r].query = b.query
           /\ [b EXCEPT !.phase = p, !.rev = r].phase = p
  <1> DEFINE a == [b EXCEPT !.phase = p, !.rev = r]
  <1>1. b \in Activations /\ p \in Phases /\ r # 0 /\ r \in Revisions
    BY DEF Formed, Phases
  <1>2. a \in Activations
    BY <1>1 DEF Activations
  <1>3. a.query = b.query /\ a.phase = p /\ a.next = b.next /\ a.entry = b.entry /\ a.rev = r
    BY <1>1 DEF Activations
  <1> HIDE DEF a
  <1>4. Formed(a)
    BY <1>1, <1>2, <1>3 DEF Formed, Validating
  <1> QED
    BY <1>3, <1>4 DEF a

\* An approximation has been chosen.
LEMMA RecordFormed ==
    ASSUME NEW b, Formed(b), NEW v \in Values
    PROVE  /\ Formed([b EXCEPT !.phase = "record", !.value = v])
           /\ [b EXCEPT !.phase = "record", !.value = v].query = b.query
           /\ [b EXCEPT !.phase = "record", !.value = v].phase = "record"
  <1> DEFINE a == [b EXCEPT !.phase = "record", !.value = v]
  <1>1. b \in Activations /\ "record" \in Phases
    BY DEF Formed, Phases
  <1>2. a \in Activations
    BY <1>1 DEF Activations
  <1>3. a.query = b.query /\ a.phase = "record" /\ a.next = b.next
    BY <1>1 DEF Activations
  <1> HIDE DEF a
  <1>4. Formed(a)
    BY <1>1, <1>2, <1>3 DEF Formed, Validating
  <1> QED
    BY <1>3, <1>4 DEF a

\* A computation is complete.
LEMMA LoadFormed ==
    ASSUME NEW b, Formed(b), NEW v \in Values
    PROVE  /\ Formed([b EXCEPT !.phase = "load", !.vals = <<>>, !.value = v])
           /\ [b EXCEPT !.phase = "load", !.vals = <<>>, !.value = v].query = b.query
           /\ [b EXCEPT !.phase = "load", !.vals = <<>>, !.value = v].phase = "load"
  <1> DEFINE a == [b EXCEPT !.phase = "load", !.vals = <<>>, !.value = v]
  <1>1. b \in Activations /\ "load" \in Phases /\ <<>> \in Seq(Values)
    BY DEF Formed, Phases
  <1>2. a \in Activations
    BY <1>1 DEF Activations
  <1>3. a.query = b.query /\ a.phase = "load" /\ a.next = b.next
    BY <1>1 DEF Activations
  <1> HIDE DEF a
  <1>4. Formed(a)
    BY <1>1, <1>2, <1>3 DEF Formed, Validating
  <1> QED
    BY <1>3, <1>4 DEF a

\* A query that depends on itself is computed again.
LEMMA AgainFormed ==
    ASSUME NEW b, Formed(b), NEW w \in Seq(Values)
    PROVE  /\ Formed([b EXCEPT !.phase = "compute", !.deps = <<>>, !.seen = w])
           /\ [b EXCEPT !.phase = "compute", !.deps = <<>>, !.seen = w].query = b.query
           /\ [b EXCEPT !.phase = "compute", !.deps = <<>>, !.seen = w].phase = "compute"
  <1> DEFINE a == [b EXCEPT !.phase = "compute", !.deps = <<>>, !.seen = w]
  <1>1. b \in Activations /\ "compute" \in Phases /\ <<>> \in Seq(Deps)
    BY DEF Formed, Phases
  <1>2. a \in Activations
    BY <1>1 DEF Activations
  <1>3. a.query = b.query /\ a.phase = "compute" /\ a.next = b.next
    BY <1>1 DEF Activations
  <1> HIDE DEF a
  <1>4. Formed(a)
    BY <1>1, <1>2, <1>3 DEF Formed, Validating
  <1> QED
    BY <1>3, <1>4 DEF a

\* One more iteration of a query that asked for itself: its dependency is
\* recorded with the caller, and it is computed again.
LEMMA FrontAppend ==
    ASSUME NEW s \in Seq(Activations), NEW a \in Activations
    PROVE  Front(Append(s, a)) = s
  <1> DEFINE u == Append(s, a)
  <1>1. /\ u \in Seq(Activations) /\ u # <<>> /\ Len(u) = Len(s) + 1 /\ Len(s) \in Nat
        /\ DOMAIN s = 1 .. Len(s)
        /\ \A n \in 1 .. Len(s) + 1 : u[n] = IF n = Len(s) + 1 THEN a ELSE s[n]
    BY AppendIs
  <1> HIDE DEF u
  <1>2. /\ Front(u) \in Seq(Activations) /\ DOMAIN Front(u) = 1 .. Len(u) - 1
        /\ \A n \in 1 .. Len(u) - 1 : Front(u)[n] = u[n]
    BY <1>1, FrontIs
  <1>3. Len(u) - 1 = Len(s)
    BY <1>1
  <1>4. \A n \in 1 .. Len(s) : Front(u)[n] = s[n]
    BY <1>1, <1>2, <1>3
  <1> QED
    BY <1>1, <1>2, <1>3, <1>4 DEF u

\* The next iteration enters the set in progress once more.
LEMMA AgainWellFormed ==
    ASSUME NEW s, NEW ip, WellFormed(s, ip), s # <<>>, Last(s).phase = "store",
           NEW last \in Revisions, NEW w \in Seq(Values)
    PROVE  WellFormed(Append(recordDep(Front(s), Last(s).query, last),
                        [Last(s) EXCEPT !.phase = "compute", !.deps = <<>>, !.seen = w]),
                      ip \cup {Last(s).query})
  <1> DEFINE f == Front(s)
             a == Last(s)
             q == a.query
             r == recordDep(f, q, last)
             b == [a EXCEPT !.phase = "compute", !.deps = <<>>, !.seen = w]
             u == Append(r, a)
  <1>1. s \in Seq(Activations) /\ Formed(a) /\ a \in Activations /\ q \in Queries
    <2>1. s \in Seq(Activations)
      BY DEF WellFormed
    <2>2. Len(s) \in 1 .. Len(s) /\ a = s[Len(s)]
      BY <2>1, FrontIs
    <2>3. Formed(s[Len(s)])
      BY <2>2 DEF WellFormed
    <2>4. Formed(a)
      BY <2>2, <2>3
    <2>5. a \in Activations
      BY <2>4 DEF Formed
    <2> QED
      BY <2>1, <2>4, <2>5 DEF Activations
  <1>2. /\ WellFormed(f, ip)
        /\ f # <<>> => Last(f).phase \in {"compute", "validate"}
    BY PopWellFormed
  <1>3. a.phase \notin Approximating /\ a.phase # "compute"
    BY DEF Approximating
  <1>4. q \notin ip
    <2> SUFFICES ASSUME q \in ip PROVE FALSE
      OBVIOUS
    <2>1. /\ Len(s) \in Nat \ {0} /\ DOMAIN s = 1 .. Len(s) /\ a = s[Len(s)]
      BY <1>1, FrontIs
    <2>2. PICK n \in 1 .. Len(s) : s[n].phase = "compute" /\ s[n].query = q
      BY <2>1, Zenon DEF WellFormed, Computing
    <2>3. n # Len(s)
      BY <2>1, <2>2, <1>3
    <2>4. n \in 1 .. Len(s) - 1 /\ Len(s) \in 1 .. Len(s)
      <3> DEFINE k == Len(s)
      <3>1. k \in Nat \ {0} /\ n \in 1 .. k /\ n # k
        BY <2>1, <2>3
      <3> HIDE DEF k
      <3>2. n \in 1 .. k - 1 /\ k \in 1 .. k
        BY <3>1
      <3> QED
        BY <3>2 DEF k
    <2> QED
      BY <2>1, <2>2, <2>4, <1>3 DEF WellFormed, Once
  <1>5. /\ WellFormed(r, ip)
        /\ r # <<>> => Last(r).phase \in {"compute", "validate"}
    <2>1. CASE f # <<>> /\ Last(f).phase = "compute"
      <3> DEFINE c == [Last(f) EXCEPT !.deps = Append(@, [source |-> q, last |-> last])]
      <3>1. r = Update(f, c)
        BY <2>1 DEF recordDep
      <3>2. Formed(Last(f)) /\ Last(f) \in Activations
        BY <1>2, <2>1, FrontIs DEF WellFormed
      <3>3. Append(Last(f).deps, [source |-> q, last |-> last]) \in Seq(Deps)
        BY <3>2, <1>1 DEF Activations, Deps
      <3>4. c \in Activations /\ c.query = Last(f).query /\ c.phase = "compute" /\ c.next = Last(f).next
        BY <3>2, <3>3, <2>1 DEF Activations
      <3>5. Formed(c)
        BY <3>2, <3>4 DEF Formed, Validating
      <3> HIDE DEF c
      <3>6. WellFormed(Update(f, c), (ip \ {c.query}) \cup {c.query})
        BY <1>2, <2>1, <3>4, <3>5, UpdateWellFormed DEF Approximating
      <3>7. c.query \in ip
        BY <1>2, <2>1, <3>4, TopOfComputing DEF WellFormed
      <3>8. (ip \ {c.query}) \cup {c.query} = ip
        BY <3>7
      <3>9. Last(Update(f, c)) = c
        BY <1>2, <2>1, <3>4, UpdateIs DEF WellFormed
      <3> QED
        BY <3>1, <3>4, <3>6, <3>8, <3>9
    <2>2. CASE ~(f # <<>> /\ Last(f).phase = "compute")
      BY <2>2, <1>2 DEF recordDep
    <2> QED
      BY <2>1, <2>2
  <1>6. Formed(b) /\ b.query = q /\ b.phase = "compute"
    BY <1>1, AgainFormed
  <1> HIDE DEF r, b, f
  <1>7. WellFormed(u, ip)
    BY <1>1, <1>3, <1>4, <1>5, PushWellFormed
  <1>8. Last(u) = a /\ u # <<>> /\ Front(u) = r
    BY <1>1, <1>5, AppendIs, FrontAppend DEF WellFormed
  <1>9. WellFormed(Update(u, b), (ip \ {}) \cup {q})
    BY <1>3, <1>6, <1>7, <1>8, UpdateWellFormed
  <1>10. Update(u, b) = Append(r, b)
    BY <1>8 DEF Update
  <1>11. (ip \ {}) \cup {q} = ip \cup {q}
    OBVIOUS
  <1> HIDE DEF q, u
  <1> QED
    BY <1>9, <1>10, <1>11 DEF r, b, f, q


\* The entry Store writes, and what it was widened to.
LEMMA StoredIs ==
    ASSUME TypeOK, Typed, NEW a, Formed(a), a.phase = "store", NEW cycled
    PROVE  /\ Widened(a, cycled) \in Values
           /\ updateCacheEntry(a, Widened(a, cycled)) \in Entries
           /\ updateCacheEntry(a, Widened(a, cycled)).updatedAt \in Revisions
  <1> DEFINE c == cache[a.query]
             v == Widened(a, cycled)
  <1>1. /\ a.query \in Queries /\ a.value \in Values /\ a.deps \in Seq(Deps)
        /\ a.rev \in Revisions \ {0}
    BY DEF Formed, Activations
  <1>2. c \in Entries \cup {None}
    BY <1>1 DEF TypeOK
  <1>3. c # None => c.value \in Values /\ c.updatedAt \in Revisions \ {0}
    BY <1>2 DEF Entries
  <1>4. v \in Values
    BY <1>1, <1>3 DEF Widened, Typed
  <1> HIDE DEF v
  <1>5. updateCacheEntry(a, v) =
          [value |-> v, verifiedAt |-> a.rev, deps |-> a.deps,
           updatedAt |-> IF c # None /\ c.value = v THEN c.updatedAt ELSE a.rev]
    BY DEF updateCacheEntry
  <1>6. updateCacheEntry(a, v) \in Entries
    BY <1>1, <1>3, <1>4, <1>5 DEF Entries
  <1> QED
    BY <1>4, <1>6 DEF Entries, v

\* Every step of a Get moves the goroutine's own stack, and keeps the types of
\* what it shares.
LEMMA StepTypes ==
    ASSUME TypeOK, Stacks, Typed, NEW t \in Threads, Step(t)
    PROVE  /\ Moves(t)
           /\ cache' \in [Queries -> Entries \cup {None}]
           /\ cycle' \in [Threads -> SUBSET Queries]
           /\ UNCHANGED <<revision, input, setting>>
  <1> DEFINE a == Top(t)
             q == a.query
             Shared == /\ cache' \in [Queries -> Entries \cup {None}]
                       /\ cycle' \in [Threads -> SUBSET Queries]
                       /\ UNCHANGED <<revision, input, setting>>
  <1>1. ASSUME stack[t] # <<>>
        PROVE  /\ WellFormed(stack[t], inProgress[t]) /\ a = Last(stack[t])
               /\ a \in Activations /\ Formed(a) /\ q \in Queries
    BY <1>1, TopIs
  <1>2. revision \in Revisions \ {0}
    BY DEF TypeOK
  <1>3. ASSUME NEW p \in Queries PROVE UpdatedAt(p) \in Revisions
    BY <1>3, BoundAssumption DEF UpdatedAt, TypeOK, Entries, Revisions
  <1>4. ASSUME UNCHANGED <<revision, input, setting, cache, cycle>> PROVE Shared
    BY <1>4 DEF TypeOK
  <1>5. CASE Approximate(t)
    <2> DEFINE v == IF cache[q] = None THEN Zero ELSE cache[q].value
               b == [a EXCEPT !.phase = "record", !.value = v]
    <2>1. stack[t] # <<>> /\ a.phase = "approx" /\ Goto(t, b) /\ UNCHANGED inProgress
      BY <1>5 DEF Approximate, At
    <2>2. v \in Values
      BY <1>1, <2>1, SourceAssumption DEF TypeOK, Entries
    <2>3. Formed(b) /\ b.query = q /\ b.phase = "record"
      BY <1>1, <2>1, <2>2, RecordFormed
    <2>4. Shared
      BY <1>1, <1>5, <2>1 DEF Approximate, TypeOK
    <2> HIDE DEF b
    <2>5. Moves(t)
      BY <2>1, <2>3, GotoMoves DEF Approximating
    <2> QED
      BY <2>4, <2>5
  <1>6. CASE RecordApproximation(t)
    <2>1. /\ stack[t] # <<>> /\ a.phase = "record" /\ UNCHANGED inProgress
          /\ Return(t, a.value, UpdatedAt(q)) /\ Shared
      BY <1>4, <1>6 DEF RecordApproximation, At
    <2>2. a.value \in Values /\ UpdatedAt(q) \in Revisions
      BY <1>1, <1>3, <2>1 DEF Activations
    <2>3. Moves(t)
      BY <2>1, <2>2, ReturnMoves
    <2> QED
      BY <2>1, <2>3
  <1>7. CASE Lookup(t)
    <2>1. stack[t] # <<>> /\ a.phase = "lookup" /\ Shared
      BY <1>4, <1>7 DEF Lookup, At
    <2>2. CASE cache[q] = None
      <3>1. StartCompute(t, a)
        BY <1>7, <2>2 DEF Lookup
      <3> QED
        BY <2>1, <3>1, StartMoves DEF Approximating
    <2>3. CASE cache[q] # None
      <3> DEFINE b == [a EXCEPT !.phase = "check", !.entry = cache[q]]
      <3>1. Goto(t, b) /\ UNCHANGED inProgress
        BY <1>7, <2>3 DEF Lookup
      <3>2. cache[q] \in Entries
        BY <1>1, <2>1, <2>3 DEF TypeOK
      <3>3. Formed(b) /\ b.query = q /\ b.phase = "check"
        BY <1>1, <2>1, <3>2, CheckFormed
      <3> HIDE DEF b
      <3>4. Moves(t)
        BY <2>1, <3>1, <3>3, GotoMoves DEF Approximating
      <3> QED
        BY <2>1, <3>4
    <2> QED
      BY <2>2, <2>3
  <1>8. CASE Check(t)
    <2>1. stack[t] # <<>> /\ a.phase = "check" /\ Shared /\ UNCHANGED inProgress
      BY <1>4, <1>8 DEF Check, At
    <2>2. CASE a.entry.verifiedAt = revision
      <3>1. Return(t, a.entry.value, a.entry.updatedAt)
        BY <1>8, <2>2 DEF Check
      <3>2. a.entry \in Entries
        BY <1>1, <2>1 DEF Formed, Activations, Validating
      <3>3. a.entry.value \in Values /\ a.entry.updatedAt \in Revisions
        BY <3>2 DEF Entries
      <3>4. Moves(t)
        BY <2>1, <3>1, <3>3, ReturnMoves
      <3> QED
        BY <2>1, <3>4
    <2>3. CASE a.entry.verifiedAt # revision
      <3> DEFINE b == [a EXCEPT !.phase = "validate"]
      <3>1. Goto(t, b)
        BY <1>8, <2>3 DEF Check
      <3>2. Formed(b) /\ b.query = q /\ b.phase = "validate"
        BY <1>1, <2>1, PhaseFormed DEF Validating
      <3> HIDE DEF b
      <3>3. Moves(t)
        BY <2>1, <3>1, <3>2, GotoMoves DEF Approximating
      <3> QED
        BY <2>1, <3>3
    <2> QED
      BY <2>2, <2>3
  <1>9. CASE Validate(t)
    <2> DEFINE d == a.entry.deps[a.next]
    <2>1. stack[t] # <<>> /\ a.phase = "validate" /\ Shared
      BY <1>4, <1>9 DEF Validate, At
    <2>5. a.entry.deps \in Seq(Deps) /\ a.next \in Nat \ {0} /\ revision \in Nat
      <3>1. a.entry \in Entries /\ a.next \in Nat \ {0}
        BY <1>1, <2>1 DEF Formed, Activations, Validating
      <3>2. revision \in Nat
        BY <1>2 DEF Revisions
      <3> QED
        BY <3>1, <3>2 DEF Entries
    <2>6. a.next <= Len(a.entry.deps) => d \in Deps /\ d.last \in Nat
      <3>1. a.next <= Len(a.entry.deps) => d \in Deps
        BY <2>5
      <3> QED
        BY <3>1 DEF Deps, Revisions
    <2>2. CASE a.next > Len(a.entry.deps)
      <3> DEFINE b == [a EXCEPT !.phase = "stamp"]
      <3>0. ~(a.next <= Len(a.entry.deps))
        BY <2>2, <2>5
      <3>1. Goto(t, b) /\ UNCHANGED inProgress
        BY <1>9, <2>2, <3>0, Zenon DEF Validate
      <3>2. Formed(b) /\ b.query = q /\ b.phase = "stamp"
        BY <1>1, <2>1, PhaseFormed DEF Validating
      <3> HIDE DEF b
      <3>3. Moves(t)
        BY <2>1, <3>1, <3>2, GotoMoves DEF Approximating
      <3> QED
        BY <2>1, <3>3
    <2>3. CASE \E changed : Changed(t, changed)
      BY <2>1, <2>3, ChangedMoves
    <2>4. CASE /\ a.next <= Len(a.entry.deps) /\ d.source \notin Inputs
               /\ stack' = [stack EXCEPT ![t] = Append(@, Activation(t, d.source))]
               /\ UNCHANGED inProgress
      <3>2. d \in Deps
        BY <2>4, <2>6
      <3>3. d.source \in Queries
        BY <2>4, <3>2 DEF Deps
      <3>4. stack' = [stack EXCEPT ![t] = Append(stack[t], Activation(t, d.source))]
        BY <2>4
      <3> HIDE DEF d
      <3>5. Moves(t)
        BY <2>1, <2>4, <3>3, <3>4, PushMoves
      <3> QED
        BY <2>1, <3>5
    <2>7. \/ a.next > Len(a.entry.deps)
          \/ a.next <= Len(a.entry.deps) /\ revision <= d.last
          \/ a.next <= Len(a.entry.deps) /\ revision > d.last /\ d.source \in Inputs
          \/ a.next <= Len(a.entry.deps) /\ revision > d.last /\ d.source \notin Inputs
      BY <2>5, <2>6
    <2> QED
      BY <1>9, <2>2, <2>3, <2>4, <2>5, <2>6, <2>7 DEF Validate
  <1>10. CASE Revalidated(t)
    <2>1. stack[t] # <<>> /\ a.phase = "revalidated" /\ Shared
      BY <1>4, <1>10 DEF Revalidated, At
    <2>2. \E changed : Changed(t, changed)
      BY <1>10 DEF Revalidated
    <2> QED
      BY <2>1, <2>2, ChangedMoves
  <1>11. CASE Stamp(t)
    <2> DEFINE b == [a EXCEPT !.phase = "mark", !.rev = revision]
    <2>1. stack[t] # <<>> /\ a.phase = "stamp" /\ Shared /\ Goto(t, b) /\ UNCHANGED inProgress
      BY <1>4, <1>11 DEF Stamp, At
    <2>2. Formed(a) /\ a.phase # "compute" /\ a.phase \notin Approximating
      BY <1>1, <2>1 DEF Approximating
    <2>3. Formed(b) /\ b.query = q /\ b.phase = "mark"
      BY <1>2, <2>1, <2>2, StampFormed DEF Validating
    <2> HIDE DEF b
    <2>4. Moves(t)
      BY <2>1, <2>2, <2>3, GotoMoves
    <2> QED
      BY <2>1, <2>4
  <1>12. CASE MarkVerified(t)
    <2>1. /\ stack[t] # <<>> /\ a.phase = "mark" /\ UNCHANGED inProgress
          /\ Return(t, a.entry.value, a.entry.updatedAt)
          /\ UNCHANGED <<revision, input, setting, cycle>>
          /\ cache' = IF cache[q] = None THEN cache
                      ELSE [cache EXCEPT ![q].verifiedAt = a.rev]
      BY <1>12 DEF MarkVerified, At
    <2>2. a.entry \in Entries /\ a.rev \in Revisions \ {0}
      BY <1>1, <2>1 DEF Formed, Activations, Validating
    <2>3. a.entry.value \in Values /\ a.entry.updatedAt \in Revisions
      BY <2>2 DEF Entries
    <2>4. Moves(t)
      BY <2>1, <2>3, ReturnMoves
    <2>5. cache' \in [Queries -> Entries \cup {None}]
      <3>1. CASE cache[q] = None
        BY <2>1, <3>1 DEF TypeOK
      <3>2. CASE cache[q] # None
        <4>1. cache[q] \in Entries
          BY <1>1, <2>1, <3>2 DEF TypeOK
        <4>2. [cache[q] EXCEPT !.verifiedAt = a.rev] \in Entries
          BY <4>1, <2>2 DEF Entries
        <4>3. cache' = [cache EXCEPT ![q] = [cache[q] EXCEPT !.verifiedAt = a.rev]]
          BY <2>1, <3>2
        <4> QED
          BY <4>2, <4>3 DEF TypeOK
      <3> QED
        BY <3>1, <3>2
    <2> QED
      BY <2>1, <2>4, <2>5 DEF TypeOK
  <1>13. CASE ReadInput(t)
    <2> DEFINE i == NextRead(a.query, a.vals)
    <2>1. /\ stack[t] # <<>> /\ a.phase = "compute" /\ UNCHANGED inProgress /\ Shared
          /\ i \in Inputs
          /\ stack' = [stack EXCEPT ![t] =
                Deliver(recordDep(stack[t], i, input[i].revision), input[i].value)]
      BY <1>4, <1>13 DEF ReadInput, At
    <2> HIDE DEF i
    <2>2. input[i].revision \in Revisions /\ input[i].value \in Values
      BY <2>1 DEF TypeOK
    <2>3. WellFormed(Deliver(recordDep(stack[t], i, input[i].revision), input[i].value),
                     inProgress[t])
      BY <1>1, <2>1, <2>2, DeliverWellFormed
    <2>4. inProgress' = [inProgress EXCEPT ![t] = inProgress[t]]
      BY <2>1 DEF TypeOK
    <2>5. Moves(t)
      BY <2>1, <2>3, <2>4 DEF Moves
    <2> QED
      BY <2>1, <2>5
  <1>14. CASE ReadQuery(t)
    <2> DEFINE p == NextRead(a.query, a.vals)
    <2>1. /\ stack[t] # <<>> /\ a.phase = "compute" /\ UNCHANGED inProgress /\ Shared
          /\ p \in Queries
          /\ stack' = [stack EXCEPT ![t] = Append(stack[t], Activation(t, p))]
      BY <1>4, <1>14 DEF ReadQuery, At
    <2> HIDE DEF p
    <2> QED
      BY <2>1, PushMoves
  <1>15. CASE Computed(t)
    <2> DEFINE v == Combine(a.query, a.vals)
               b == [a EXCEPT !.phase = "load", !.vals = <<>>, !.value = v]
    <2>1. /\ stack[t] # <<>> /\ a.phase = "compute" /\ Shared
          /\ NextRead(a.query, a.vals) = None
          /\ stack' = [stack EXCEPT ![t] = Update(stack[t], b)]
          /\ inProgress' = [inProgress EXCEPT ![t] = inProgress[t] \ {q}]
      BY <1>4, <1>15 DEF Computed, At, Goto
    <2>2. v \in Values
      BY <1>1, <2>1 DEF Typed, Activations
    <2> HIDE DEF v
    <2>3. Formed(b) /\ b.query = q /\ b.phase = "load"
      BY <1>1, <2>1, <2>2, LoadFormed
    <2> HIDE DEF b
    <2>4. WellFormed(Update(stack[t], b), (inProgress[t] \ {b.query}) \cup {})
      BY <1>1, <2>1, <2>3, UpdateWellFormed DEF Approximating
    <2>5. (inProgress[t] \ {b.query}) \cup {} = inProgress[t] \ {q}
      BY <2>3
    <2>6. Moves(t)
      BY <2>1, <2>4, <2>5 DEF Moves
    <2> QED
      BY <2>1, <2>6
  <1>16. CASE ComputePanics(t)
    <2>1. Unwind(t) /\ UNCHANGED <<revision, input, setting, cache>>
      BY <1>16 DEF ComputePanics
    <2> QED
      BY <2>1, UnwindMoves DEF TypeOK
  <1>17. CASE Store(t)
    <2> DEFINE cycled == q \in cycle[t]
               v == Widened(a, cycled)
               e == updateCacheEntry(a, v)
               again == Append(a.seen, v)
               b == [a EXCEPT !.phase = "compute", !.deps = <<>>, !.seen = again]
    <2>1. /\ stack[t] # <<>> /\ a.phase = "store"
          /\ cache' = [cache EXCEPT ![q] = e] /\ UNCHANGED <<revision, input, setting>>
      BY <1>17 DEF Store, At
    <2>2. v \in Values /\ e \in Entries /\ e.updatedAt \in Revisions
      BY <1>1, <2>1, StoredIs
    <2> HIDE DEF v, e
    <2>3. cache' \in [Queries -> Entries \cup {None}]
      BY <2>1, <2>2 DEF TypeOK
    <2>4. ASSUME Return(t, v, e.updatedAt), cycle' = [cycle EXCEPT ![t] = @ \ {q}],
                 UNCHANGED inProgress
          PROVE  Moves(t) /\ cycle' \in [Threads -> SUBSET Queries]
      <3>1. Moves(t)
        BY <2>1, <2>2, <2>4, ReturnMoves
      <3> QED
        BY <2>4, <3>1 DEF TypeOK
    <2>5. ASSUME stack' = [stack EXCEPT ![t] = Append(recordDep(Front(stack[t]), q, e.updatedAt), b)],
                 inProgress' = [inProgress EXCEPT ![t] = @ \cup {q}],
                 cycle' = [cycle EXCEPT ![t] = @ \ {q}]
          PROVE  Moves(t) /\ cycle' \in [Threads -> SUBSET Queries]
      <3>1. again \in Seq(Values)
        BY <1>1, <2>1, <2>2 DEF Activations
      <3>2. WellFormed(Append(recordDep(Front(stack[t]), q, e.updatedAt), b),
                       inProgress[t] \cup {q})
        BY <1>1, <2>1, <2>2, <3>1, AgainWellFormed
      <3>3. Moves(t)
        BY <2>5, <3>2 DEF Moves
      <3> QED
        BY <2>5, <3>3 DEF TypeOK
    <2>6. ASSUME Unwind(t) PROVE Moves(t) /\ cycle' \in [Threads -> SUBSET Queries]
      BY <2>6, UnwindMoves
    <2>7. \/ /\ Return(t, v, e.updatedAt) /\ cycle' = [cycle EXCEPT ![t] = @ \ {q}]
             /\ UNCHANGED inProgress
          \/ /\ stack' = [stack EXCEPT ![t] = Append(recordDep(Front(stack[t]), q, e.updatedAt), b)]
             /\ inProgress' = [inProgress EXCEPT ![t] = @ \cup {q}]
             /\ cycle' = [cycle EXCEPT ![t] = @ \ {q}]
          \/ Unwind(t)
      BY <1>17 DEF Store, v, e
    <2> QED
      BY <2>1, <2>3, <2>4, <2>5, <2>6, <2>7
  <1>18. CASE LoadRevision(t)
    <2> DEFINE b == [a EXCEPT !.phase = "store", !.rev = revision]
    <2>1. stack[t] # <<>> /\ a.phase = "load" /\ Shared /\ Goto(t, b) /\ UNCHANGED inProgress
      BY <1>4, <1>18 DEF LoadRevision, At
    <2>2. Formed(a) /\ a.phase # "compute" /\ a.phase \notin Approximating
      BY <1>1, <2>1 DEF Approximating
    <2>3. Formed(b) /\ b.query = q /\ b.phase = "store"
      BY <1>2, <2>1, <2>2, StampFormed DEF Validating
    <2> HIDE DEF b
    <2>4. Moves(t)
      BY <2>1, <2>2, <2>3, GotoMoves
    <2> QED
      BY <2>1, <2>4
  <1> QED
    BY <1>5, <1>6, <1>7, <1>8, <1>9, <1>10, <1>11, <1>12, <1>13, <1>14, <1>15, <1>16, <1>17,
       <1>18
    DEF Step


\* Types hold at the start.
LEMMA InitTypes ==
    ASSUME Init
    PROVE  TypeOK /\ Stacks
  <1>1. 0 \in Revisions /\ 1 \in Revisions \ {0}
    BY BoundAssumption DEF Revisions
  <1>2. \A t \in Threads : stack[t] = <<>> /\ inProgress[t] = {}
    BY DEF Init
  <1>3. Stacks
    BY <1>2, EmptyWellFormed DEF Init, Stacks
  <1>4. TypeOK
    BY <1>1, <1>2, SourceAssumption DEF Init, TypeOK
  <1> QED
    BY <1>3, <1>4

\* Every step keeps types and stacks.
LEMMA NextTypes ==
    ASSUME TypeOK, Stacks, Typed, [Next]_vars
    PROVE  TypeOK' /\ Stacks'
  <1>1. ASSUME UNCHANGED <<stack, inProgress>>
        PROVE  Stacks' /\ \A t \in Threads : stack'[t] \in Seq(Activations)
    BY <1>1 DEF Stacks
  <1>2. ASSUME NEW i \in Inputs, NEW v \in Values, SetBump(i, v) PROVE TypeOK' /\ Stacks'
    <2>1. revision' \in Revisions \ {0}
      BY <1>2, BoundAssumption DEF SetBump, TypeOK, Revisions
    <2> QED
      BY <1>1, <1>2, <2>1 DEF SetBump, TypeOK, Sets
  <1>3. CASE SetStore
    <2>1. setting \in Sets
      BY <1>3 DEF SetStore, TypeOK
    <2>2. setting.source \in Inputs /\ setting.value \in Values
      BY <2>1 DEF Sets
    <2>3. input' \in [Inputs -> [value : Values, revision : Revisions]]
      BY <1>3, <2>2 DEF SetStore, TypeOK
    <2> QED
      BY <1>1, <1>3, <2>3 DEF SetStore, TypeOK
  <1>4. ASSUME NEW q \in Queries, Clear(q) PROVE TypeOK' /\ Stacks'
    BY <1>1, <1>4 DEF Clear, TypeOK
  <1>5. ASSUME NEW t \in Threads, Moves(t),
               cache' \in [Queries -> Entries \cup {None}],
               cycle' \in [Threads -> SUBSET Queries],
               UNCHANGED <<revision, input, setting>>
        PROVE  TypeOK' /\ Stacks'
    <2>1. /\ Stacks' /\ inProgress' \in [Threads -> SUBSET Queries]
          /\ \A u \in Threads : stack'[u] \in Seq(Activations)
      BY <1>5, MovesKeepsStacks
    <2> QED
      BY <1>5, <2>1 DEF TypeOK
  <1>6. ASSUME NEW t \in Threads, NEW q \in Queries, Get(t, q) PROVE TypeOK' /\ Stacks'
    <2>1. stack[t] = <<>> /\ UNCHANGED <<revision, input, setting, cache, inProgress, cycle>>
          /\ stack' = [stack EXCEPT ![t] = <<Activation(t, q)>>]
      BY <1>6 DEF Get
    <2>2. <<Activation(t, q)>> = Append(<<>>, Activation(t, q))
      OBVIOUS
    <2>3. stack' = [stack EXCEPT ![t] = Append(stack[t], Activation(t, q))]
      BY <2>1, <2>2
    <2>4. Moves(t)
      BY <2>1, <2>3, PushMoves
    <2> QED
      BY <1>5, <2>1, <2>4 DEF TypeOK
  <1>7. ASSUME NEW t \in Threads, Step(t) PROVE TypeOK' /\ Stacks'
    BY <1>5, <1>7, StepTypes
  <1>8. CASE UNCHANGED vars
    BY <1>1, <1>8 DEF vars, TypeOK
  <1> QED
    BY <1>2, <1>3, <1>4, <1>6, <1>7, <1>8 DEF Next

\* Types, whatever the query graph, the number of goroutines and the panics:
\* in particular every stored entry carries a revision Get was at.
THEOREM TypeCorrect ==
    ASSUME Typed
    PROVE  Spec => []TypeOK
  <1>1. Init => TypeOK /\ Stacks
    BY InitTypes
  <1>2. TypeOK /\ Stacks /\ [Next]_vars => (TypeOK /\ Stacks)'
    BY NextTypes
  <1> QED
    BY <1>1, <1>2, PTL DEF Spec

\* The tracker's set is exactly the queries that are being computed, also with
\* queries that ask for themselves and after a panic through several of them.
THEOREM InProgressExact ==
    ASSUME Typed
    PROVE  Spec => []InProgressIsComputing
  <1>1. Init => TypeOK /\ Stacks
    BY InitTypes
  <1>2. TypeOK /\ Stacks /\ [Next]_vars => (TypeOK /\ Stacks)'
    BY NextTypes
  <1>3. Stacks => InProgressIsComputing
    BY DEF Stacks, WellFormed, InProgressIsComputing, Computing
  <1> QED
    BY <1>1, <1>2, <1>3, PTL DEF Spec

-----------------------------------------------------------------------------
(***************************************************************************)
(* Get returns what computing everything again would return: AnswerIsFresh *)
(* and VerifiedIsFresh, for queries that do not depend on themselves and   *)
(* callers that keep Set and Clear apart from Get.                         *)
(***************************************************************************)

-----------------------------------------------------------------------------
(* Computing from nothing.                                                 *)

\* What the inputs may hold.
Contents == [Inputs -> [value : Values, revision : Revisions]]

\* F is a computation from nothing: what each query gives over the inputs in,
\* after the values it has read, by the equations Fresh is defined with.
Solves(F, in) ==
    \A q \in Queries, vals \in Seq(Values) :
        F[<<q, vals>>] =
            IF NextRead(q, vals) = None THEN Combine(q, vals)
            ELSE F[<<q, Append(vals, IF NextRead(q, vals) \in Inputs
                                     THEN in[NextRead(q, vals)].value
                                     ELSE F[<<NextRead(q, vals), <<>>>>])>>]

\* The compute functions end, so that there is such a computation.
WellDefined ==
    \A in \in Contents : \E F \in [Queries \X Seq(Values) -> Values] : Solves(F, in)

\* No query depends on itself: it reads only queries of a lower rank.
Ranked(rank) ==
    /\ rank \in [Queries -> Nat]
    /\ \A q \in Queries, vals \in Seq(Values) :
          NextRead(q, vals) \in Queries => rank[NextRead(q, vals)] < rank[q]

\* v is what q computes from nothing.
IsFresh(in, q, v) == \A F : Solves(F, in) => v = F[<<q, <<>>>>]

\* Having read vals, q still computes what it would from nothing.
Midway(in, q, vals) == \A F : Solves(F, in) => F[<<q, vals>>] = F[<<q, <<>>>>]

\* Reading an input goes on as the computation from nothing does,
LEMMA MidwayInput ==
    ASSUME NEW in, NEW q \in Queries, NEW vals \in Seq(Values), Midway(in, q, vals),
           NEW i \in Inputs, NextRead(q, vals) = i
    PROVE  Midway(in, q, Append(vals, in[i].value))
  <1> SUFFICES ASSUME NEW F, Solves(F, in)
               PROVE  F[<<q, Append(vals, in[i].value)>>] = F[<<q, <<>>>>]
    BY DEF Midway
  <1>1. i # None
    BY SourceAssumption
  <1>2. F[<<q, vals>>] = F[<<q, Append(vals, in[i].value)>>]
    BY <1>1 DEF Solves
  <1> QED
    BY <1>2 DEF Midway

\* and so does reading a fresh value of a query,
LEMMA MidwayQuery ==
    ASSUME NEW in, NEW q \in Queries, NEW vals \in Seq(Values), Midway(in, q, vals),
           NEW p \in Queries, NextRead(q, vals) = p, NEW v, IsFresh(in, p, v)
    PROVE  Midway(in, q, Append(vals, v))
  <1> SUFFICES ASSUME NEW F, Solves(F, in)
               PROVE  F[<<q, Append(vals, v)>>] = F[<<q, <<>>>>]
    BY DEF Midway
  <1>1. p # None /\ p \notin Inputs
    BY SourceAssumption
  <1>2. F[<<q, vals>>] = F[<<q, Append(vals, F[<<p, <<>>>>])>>]
    BY <1>1 DEF Solves
  <1>3. v = F[<<p, <<>>>>]
    BY DEF IsFresh
  <1> QED
    BY <1>2, <1>3 DEF Midway

\* so that what is combined in the end is fresh.
LEMMA MidwayDone ==
    ASSUME NEW in, NEW q \in Queries, NEW vals \in Seq(Values), Midway(in, q, vals),
           NextRead(q, vals) = None
    PROVE  IsFresh(in, q, Combine(q, vals))
  <1> SUFFICES ASSUME NEW F, Solves(F, in) PROVE Combine(q, vals) = F[<<q, <<>>>>]
    BY DEF IsFresh
  <1>1. F[<<q, vals>>] = Combine(q, vals)
    BY DEF Solves
  <1> QED
    BY <1>1 DEF Midway

\* A query has one fresh value.
LEMMA FreshUnique ==
    ASSUME WellDefined, NEW in \in Contents, NEW q, NEW v, NEW w,
           IsFresh(in, q, v), IsFresh(in, q, w)
    PROVE  v = w
  <1>1. PICK F : Solves(F, in)
    BY DEF WellDefined
  <1> QED
    BY <1>1 DEF IsFresh

\* Fresh of QueryDB is such a computation.
LEMMA FreshSolves ==
    ASSUME WellDefined, input \in Contents
    PROVE  Solves(Fresh, input)
  <1> DEFINE Body(f) ==
               [read \in Queries \X Seq(Values) |->
                  IF NextRead(read[1], read[2]) = None THEN Combine(read[1], read[2])
                  ELSE f[<<read[1], Append(read[2],
                             IF NextRead(read[1], read[2]) \in Inputs
                             THEN input[NextRead(read[1], read[2])].value
                             ELSE f[<<NextRead(read[1], read[2]), <<>>>>])>>]]
  <1>1. Fresh = CHOOSE f : f = Body(f)
    BY DEF Fresh
  <1>2. PICK G \in [Queries \X Seq(Values) -> Values] : Solves(G, input)
    BY DEF WellDefined
  <1>3. G = Body(G)
    <2> SUFFICES ASSUME NEW read \in Queries \X Seq(Values)
                 PROVE  G[read] = Body(G)[read]
      OBVIOUS
    <2>1. read = <<read[1], read[2]>> /\ read[1] \in Queries /\ read[2] \in Seq(Values)
      OBVIOUS
    <2> QED
      BY <1>2, <2>1 DEF Solves
  <1> HIDE DEF Body
  <1>4. Fresh = Body(Fresh)
    BY <1>1, <1>3
  <1> HIDE DEF Fresh
  <1> QED
    BY <1>4 DEF Body, Solves

-----------------------------------------------------------------------------
(* What an entry's dependencies say.                                       *)

\* The stored entries.
Cache == [Queries -> Entries \cup {None}]

\* Query q has been verified at revision r: Get's fast path returns it.
Verified(c, r, q) == c[q] # None /\ c[q].verifiedAt = r

\* The recorded dependency d stands for the value v read: as long as its source
\* is not newer than d.last, the source's value is v.
DepOk(c, r, in, d, v) ==
    /\ d.last <= r
    /\ d.source \in Inputs /\ in[d.source].revision <= d.last => in[d.source].value = v
    /\ d.source \in Queries =>
          /\ c[d.source] # None /\ c[d.source].updatedAt <= d.last
                => c[d.source].value = v
          /\ d.last = r => IsFresh(in, d.source, v)

\* The dependencies q recorded while it read vals.
Backed(c, r, in, q, deps, vals) ==
    /\ vals \in Seq(Values)
    /\ deps \in Seq(Deps)
    /\ Len(deps) = Len(vals)
    /\ \A k \in 1 .. Len(vals) :
          /\ NextRead(q, SubSeq(vals, 1, k - 1)) = deps[k].source
          /\ DepOk(c, r, in, deps[k], vals[k])

\* ... and the value it returned.
Supports(c, r, in, q, deps, value, vals) ==
    /\ Backed(c, r, in, q, deps, vals)
    /\ NextRead(q, vals) = None
    /\ Combine(q, vals) = value

\* An entry came from reads that its dependencies stand for; one verified at
\* this revision is fresh.
EntryOk(c, r, in, q) ==
    c[q] # None =>
        /\ \E vals : Supports(c, r, in, q, c[q].deps, c[q].value, vals)
        /\ c[q].verifiedAt = r => IsFresh(in, q, c[q].value)

\* Prefixes of the values read.
LEMMA PrefixIs ==
    ASSUME NEW vals \in Seq(Values)
    PROVE  /\ Len(vals) \in Nat
           /\ SubSeq(vals, 1, Len(vals)) = vals
           /\ \A k \in 1 .. Len(vals) :
                 /\ SubSeq(vals, 1, k - 1) \in Seq(Values)
                 /\ Append(SubSeq(vals, 1, k - 1), vals[k]) = SubSeq(vals, 1, k)
  <1>1. Len(vals) \in Nat
    OBVIOUS
  <1>2. SubSeq(vals, 1, Len(vals)) = vals
    OBVIOUS
  <1>3. ASSUME NEW k \in 1 .. Len(vals)
        PROVE  /\ SubSeq(vals, 1, k - 1) \in Seq(Values)
               /\ Append(SubSeq(vals, 1, k - 1), vals[k]) = SubSeq(vals, 1, k)
    <2>1. k - 1 \in Nat /\ k \in Nat /\ k <= Len(vals)
      BY <1>1
    <2>2. SubSeq(vals, 1, k - 1) \in Seq(Values) /\ Len(SubSeq(vals, 1, k - 1)) = k - 1
      BY <2>1
    <2>3. SubSeq(vals, 1, k) \in Seq(Values) /\ Len(SubSeq(vals, 1, k)) = k
      BY <2>1
    <2> DEFINE u == Append(SubSeq(vals, 1, k - 1), vals[k])
               w == SubSeq(vals, 1, k)
    <2>4. u \in Seq(Values) /\ Len(u) = k
      BY <2>1, <2>2
    <2>5. ASSUME NEW n \in 1 .. k PROVE u[n] = w[n]
      BY <2>1, <2>2
    <2> HIDE DEF u, w
    <2>6. u = w
      BY <2>3, <2>4, <2>5 DEF w
    <2> QED
      BY <2>2, <2>6 DEF u, w
  <1> QED
    BY <1>1, <1>2, <1>3

\* One more value read leaves the prefixes as they were.
LEMMA PrefixOfAppend ==
    ASSUME NEW vals \in Seq(Values), NEW v \in Values, NEW k \in 1 .. Len(vals) + 1
    PROVE  SubSeq(Append(vals, v), 1, k - 1) = SubSeq(vals, 1, k - 1)
  <1>1. Len(vals) \in Nat /\ Len(Append(vals, v)) = Len(vals) + 1
    OBVIOUS
  <1>2. k - 1 \in Nat /\ k - 1 <= Len(vals)
    BY <1>1
  <1> DEFINE u == SubSeq(Append(vals, v), 1, k - 1)
             w == SubSeq(vals, 1, k - 1)
  <1>3. u \in Seq(Values) /\ Len(u) = k - 1
    BY <1>1, <1>2
  <1>4. w \in Seq(Values) /\ Len(w) = k - 1
    BY <1>1, <1>2
  <1>5. ASSUME NEW n \in 1 .. k - 1 PROVE u[n] = w[n]
    BY <1>1, <1>2
  <1> HIDE DEF u, w
  <1>6. u = w
    BY <1>3, <1>4, <1>5
  <1> QED
    BY <1>6 DEF u, w

\* Nothing read, nothing recorded.
LEMMA BackedEmpty ==
    ASSUME NEW c, NEW r, NEW in, NEW q
    PROVE  Backed(c, r, in, q, <<>>, <<>>) /\ Midway(in, q, <<>>)
  BY DEF Backed, Midway

\* One more read, recorded.
LEMMA BackedAppend ==
    ASSUME NEW c, NEW r, NEW in, NEW q, NEW deps, NEW vals, Backed(c, r, in, q, deps, vals),
           NEW d \in Deps, NEW v \in Values,
           NextRead(q, vals) = d.source, DepOk(c, r, in, d, v)
    PROVE  Backed(c, r, in, q, Append(deps, d), Append(vals, v))
  <1> DEFINE n == Len(vals)
             ds == Append(deps, d)
             vs == Append(vals, v)
  <1>1. vals \in Seq(Values) /\ deps \in Seq(Deps) /\ Len(deps) = n /\ n \in Nat
    BY DEF Backed
  <1>2. /\ vs \in Seq(Values) /\ ds \in Seq(Deps) /\ Len(vs) = n + 1 /\ Len(ds) = n + 1
        /\ vs[n + 1] = v /\ ds[n + 1] = d
        /\ \A k \in 1 .. n : vs[k] = vals[k] /\ ds[k] = deps[k]
    BY <1>1
  <1>3. \A k \in 1 .. n + 1 : SubSeq(vs, 1, k - 1) = SubSeq(vals, 1, k - 1)
    BY <1>1, PrefixOfAppend
  <1>4. SubSeq(vals, 1, n) = vals
    BY <1>1
  <1> HIDE DEF vs, ds
  <1>5. ASSUME NEW k \in 1 .. Len(vs)
        PROVE  /\ NextRead(q, SubSeq(vs, 1, k - 1)) = ds[k].source
               /\ DepOk(c, r, in, ds[k], vs[k])
    <2>1. CASE k = n + 1
      <3>1. SubSeq(vs, 1, k - 1) = vals
        BY <2>1, <1>1, <1>2, <1>3, <1>4
      <3> QED
        BY <2>1, <3>1, <1>2
    <2>2. CASE k # n + 1
      <3>1. k \in 1 .. n
        BY <2>2, <1>1, <1>2
      <3>2. SubSeq(vs, 1, k - 1) = SubSeq(vals, 1, k - 1) /\ vs[k] = vals[k] /\ ds[k] = deps[k]
        BY <3>1, <1>2, <1>3
      <3> QED
        BY <3>1, <3>2 DEF Backed
    <2> QED
      BY <2>1, <2>2
  <1> QED
    BY <1>2, <1>5 DEF Backed, vs, ds

-----------------------------------------------------------------------------
(* Activations.                                                            *)

\* The copy e of q's entry: the entry is still there, with e's value unless
\* another goroutine has verified it meanwhile.
Held(c, r, in, q, e) ==
    /\ e.updatedAt <= r
    /\ c[q] # None
    /\ c[q].value = e.value \/ Verified(c, r, q)
    /\ e.verifiedAt = r => IsFresh(in, q, e.value) /\ Verified(c, r, q)

\* The dependencies before the next one have not changed.
Unchanged(c, r, in, a, vals) ==
    /\ Supports(c, r, in, a.query, a.entry.deps, a.entry.value, vals)
    /\ a.next \in 1 .. Len(vals) + 1
    /\ Midway(in, a.query, SubSeq(vals, 1, a.next - 1))

\* What Get knows in each phase.
Sound(c, r, in, a) ==
    /\ a.phase \notin Approximating
    /\ a.phase \in {"lookup"} \cup Validating => a.vals = <<>> /\ a.deps = <<>>
    /\ a.phase \in {"lookup", "check"} => a.next = 1
    /\ a.phase \in Validating => Held(c, r, in, a.query, a.entry)
    /\ a.phase \in {"check", "validate", "revalidated"} =>
          \E vals : Unchanged(c, r, in, a, vals)
    /\ a.phase = "revalidated" =>
          /\ a.next <= Len(a.entry.deps)
          /\ a.entry.deps[a.next].source \in Queries
          /\ Verified(c, r, a.entry.deps[a.next].source)
    /\ a.phase \in {"stamp", "mark"} => IsFresh(in, a.query, a.entry.value)
    /\ a.phase = "compute" =>
          Backed(c, r, in, a.query, a.deps, a.vals) /\ Midway(in, a.query, a.vals)
    /\ a.phase \in {"load", "store"} =>
          /\ IsFresh(in, a.query, a.value)
          /\ \E vals : Supports(c, r, in, a.query, a.deps, a.value, vals)
    /\ a.phase \in {"mark", "store"} => a.rev = r

\* What a waiting activation a waits for is the query of the one above it.
Linked(a, b) ==
    /\ a.phase = "compute" => b.query = NextRead(a.query, a.vals)
    /\ a.phase = "validate" =>
          a.next <= Len(a.entry.deps) /\ b.query = a.entry.deps[a.next].source

\* Ranks fall along a stack: no query is asked for below itself.
Chained(rank, s) ==
    /\ \A n \in 1 .. Len(s) - 1 : Linked(s[n], s[n + 1])
    /\ \A n \in 1 .. Len(s) : \A m \in 1 .. n - 1 : rank[s[n].query] < rank[s[m].query]

\* What all activations of a goroutine know.
AllSound(c, r, in, s) == \A n \in 1 .. Len(s) : Sound(c, r, in, s[n])

-----------------------------------------------------------------------------
(* Other goroutines refresh the cache under a Get.                         *)

\* Between c and c2 entries were verified at r: with the value and UpdatedAt
\* they had, or updated at r.
Refreshed(c, c2, r, in) ==
    \A q \in Queries :
        \/ c2[q] = c[q]
        \/ /\ Verified(c2, r, q)
           /\ IsFresh(in, q, c2[q].value)
           /\ \/ c2[q].updatedAt = r
              \/ /\ c[q] # None /\ c2[q].value = c[q].value
                 /\ c2[q].updatedAt = c[q].updatedAt

\* What a dependency stands for survives a refresh: an entry with another value is
\* newer than the dependency.
LEMMA DepOkRefreshed ==
    ASSUME WellDefined, NEW in \in Contents, NEW r \in Revisions,
           NEW c \in Cache, NEW c2 \in Cache, Refreshed(c, c2, r, in),
           NEW d \in Deps, NEW v, DepOk(c, r, in, d, v)
    PROVE  DepOk(c2, r, in, d, v)
  <1>1. d.last \in Nat /\ r \in Nat
    BY DEF Deps, Revisions
  <1> SUFFICES ASSUME d.source \in Queries,
                      c2[d.source] # None, c2[d.source].updatedAt <= d.last
               PROVE  c2[d.source].value = v
    BY DEF DepOk
  <1> DEFINE p == d.source
  <1>2. CASE c2[p] = c[p]
    BY <1>2 DEF DepOk
  <1>3. CASE c[p] # None /\ c2[p].value = c[p].value /\ c2[p].updatedAt = c[p].updatedAt
    BY <1>3 DEF DepOk
  <1>4. CASE IsFresh(in, p, c2[p].value) /\ c2[p].updatedAt = r
    <2>1. d.last = r
      BY <1>1, <1>4 DEF DepOk
    <2>2. IsFresh(in, p, v)
      BY <2>1 DEF DepOk
    <2> QED
      BY <2>2, <1>4, FreshUnique
  <1> QED
    BY <1>2, <1>3, <1>4 DEF Refreshed

\* So do the dependencies recorded so far,
LEMMA BackedRefreshed ==
    ASSUME WellDefined, NEW in \in Contents, NEW r \in Revisions,
           NEW c \in Cache, NEW c2 \in Cache, Refreshed(c, c2, r, in),
           NEW q, NEW deps, NEW vals, Backed(c, r, in, q, deps, vals)
    PROVE  Backed(c2, r, in, q, deps, vals)
  <1>1. ASSUME NEW k \in 1 .. Len(vals) PROVE DepOk(c2, r, in, deps[k], vals[k])
    <2>1. deps[k] \in Deps /\ DepOk(c, r, in, deps[k], vals[k])
      BY DEF Backed
    <2> QED
      BY <2>1, DepOkRefreshed
  <1> QED
    BY <1>1 DEF Backed

\* and those of a complete entry.
LEMMA SupportsRefreshed ==
    ASSUME WellDefined, NEW in \in Contents, NEW r \in Revisions,
           NEW c \in Cache, NEW c2 \in Cache, Refreshed(c, c2, r, in),
           NEW q, NEW deps, NEW value, NEW vals, Supports(c, r, in, q, deps, value, vals)
    PROVE  Supports(c2, r, in, q, deps, value, vals)
  BY BackedRefreshed DEF Supports

\* A verified entry stays verified.
LEMMA VerifiedRefreshed ==
    ASSUME NEW in, NEW r, NEW c, NEW c2, Refreshed(c, c2, r, in),
           NEW q \in Queries, Verified(c, r, q)
    PROVE  Verified(c2, r, q)
  BY DEF Refreshed, Verified

\* What a Get knows stays true when another goroutine refreshes the cache.
LEMMA SoundRefreshed ==
    ASSUME WellDefined, NEW in \in Contents, NEW r \in Revisions,
           NEW c \in Cache, NEW c2 \in Cache, Refreshed(c, c2, r, in),
           NEW a \in Activations, Sound(c, r, in, a)
    PROVE  Sound(c2, r, in, a)
  <1>0. a.query \in Queries
    BY DEF Activations
  <1>1. a.phase \in Validating => Held(c2, r, in, a.query, a.entry)
    <2> SUFFICES ASSUME Held(c, r, in, a.query, a.entry)
                 PROVE  Held(c2, r, in, a.query, a.entry)
      BY DEF Sound
    <2>1. c2[a.query] = c[a.query] \/ Verified(c2, r, a.query)
      BY <1>0 DEF Refreshed
    <2>2. Verified(c, r, a.query) => Verified(c2, r, a.query)
      BY <1>0, VerifiedRefreshed
    <2> QED
      BY <2>1, <2>2 DEF Held, Verified
  <1>2. a.phase \in {"check", "validate", "revalidated"} =>
          \E vals : Unchanged(c2, r, in, a, vals)
    <2> SUFFICES ASSUME NEW vals, Unchanged(c, r, in, a, vals)
                 PROVE  Unchanged(c2, r, in, a, vals)
      BY DEF Sound
    <2> QED
      BY SupportsRefreshed DEF Unchanged
  <1>3. a.phase = "revalidated" => Verified(c2, r, a.entry.deps[a.next].source)
    BY VerifiedRefreshed DEF Sound
  <1>4. a.phase = "compute" => Backed(c2, r, in, a.query, a.deps, a.vals)
    BY BackedRefreshed DEF Sound
  <1>5. a.phase \in {"load", "store"} =>
          \E vals : Supports(c2, r, in, a.query, a.deps, a.value, vals)
    BY SupportsRefreshed DEF Sound
  <1> QED
    BY <1>1, <1>2, <1>3, <1>4, <1>5 DEF Sound

\* Entries stay sound if the new ones have their dependencies.
LEMMA EntryOkRefreshed ==
    ASSUME WellDefined, NEW in \in Contents, NEW r \in Revisions,
           NEW c \in Cache, NEW c2 \in Cache, Refreshed(c, c2, r, in),
           NEW q \in Queries, EntryOk(c, r, in, q),
           c2[q] # c[q] =>
             \E vals : Supports(c, r, in, q, c2[q].deps, c2[q].value, vals)
    PROVE  EntryOk(c2, r, in, q)
  <1>1. CASE c2[q] = c[q]
    BY <1>1, SupportsRefreshed DEF EntryOk
  <1>2. CASE c2[q] # c[q]
    <2>1. \E vals : Supports(c2, r, in, q, c2[q].deps, c2[q].value, vals)
      BY <1>2, SupportsRefreshed
    <2>2. IsFresh(in, q, c2[q].value)
      BY <1>2 DEF Refreshed
    <2> QED
      BY <2>1, <2>2 DEF EntryOk
  <1> QED
    BY <1>1, <1>2

-----------------------------------------------------------------------------
(* Stacks of sound activations.                                            *)

\* One goroutine's stack.
Good(rank, c, r, in, s) == AllSound(c, r, in, s) /\ Chained(rank, s)

\* The top activation moves on to what it may know.
LEMMA UpdateGood ==
    ASSUME NEW rank, NEW c, NEW r, NEW in, NEW s \in Seq(Activations), s # <<>>,
           Good(rank, c, r, in, s),
           NEW a \in Activations, a.query = Last(s).query, Sound(c, r, in, a)
    PROVE  Good(rank, c, r, in, Update(s, a))
  <1> DEFINE u == Update(s, a)
             k == Len(s)
  <1>1. Len(u) = k /\ k \in Nat \ {0} /\ Last(s) = s[k]
    BY UpdateIs, FrontIs
  <1>2. \A n \in 1 .. k : u[n] = IF n = k THEN a ELSE s[n]
    BY UpdateIs
  <1> HIDE DEF u, k
  <1>3. \A n \in 1 .. k : u[n].query = s[n].query
    BY <1>1, <1>2
  <1>4. AllSound(c, r, in, u)
    BY <1>1, <1>2 DEF Good, AllSound, k
  <1>5. \A n \in 1 .. k - 1 : Linked(u[n], u[n + 1])
    <2> SUFFICES ASSUME NEW n \in 1 .. k - 1 PROVE Linked(u[n], u[n + 1])
      OBVIOUS
    <2>1. n \in 1 .. k /\ n + 1 \in 1 .. k /\ n # k
      BY <1>1
    <2>2. u[n] = s[n] /\ u[n + 1].query = s[n + 1].query
      BY <2>1, <1>2, <1>3
    <2>3. Linked(s[n], s[n + 1])
      BY DEF Good, Chained, k
    <2> QED
      BY <2>2, <2>3 DEF Linked
  <1>6. \A n \in 1 .. k : \A m \in 1 .. n - 1 : rank[u[n].query] < rank[u[m].query]
    <2> SUFFICES ASSUME NEW n \in 1 .. k, NEW m \in 1 .. n - 1
                 PROVE  rank[u[n].query] < rank[u[m].query]
      OBVIOUS
    <2>1. m \in 1 .. k
      BY <1>1
    <2> QED
      BY <2>1, <1>3 DEF Good, Chained, k
  <1> QED
    BY <1>1, <1>4, <1>5, <1>6 DEF Good, Chained, u

\* A Get is called for a query of lower rank.
LEMMA PushGood ==
    ASSUME NEW rank \in [Queries -> Nat], NEW c, NEW r, NEW in, NEW s \in Seq(Activations),
           Good(rank, c, r, in, s),
           NEW a \in Activations, Sound(c, r, in, a),
           s # <<>> => Linked(Last(s), a) /\ rank[a.query] < rank[Last(s).query]
    PROVE  Good(rank, c, r, in, Append(s, a))
  <1> DEFINE u == Append(s, a)
             k == Len(s)
  <1>1. Len(u) = k + 1 /\ k \in Nat
    BY AppendIs
  <1>2. \A n \in 1 .. k + 1 : u[n] = IF n = k + 1 THEN a ELSE s[n]
    BY AppendIs
  <1>3. k # 0 => s # <<>> /\ Last(s) = s[k]
    BY DEF Last
  <1>4. ASSUME NEW n \in 1 .. k PROVE rank[s[n].query] \in Nat
    <2>1. s[n] \in Activations
      OBVIOUS
    <2>2. s[n].query \in Queries
      BY <2>1 DEF Activations
    <2> QED
      BY <2>2
  <1> HIDE DEF u, k
  <1>5. AllSound(c, r, in, u)
    <2> SUFFICES ASSUME NEW n \in 1 .. k + 1 PROVE Sound(c, r, in, u[n])
      BY <1>1 DEF AllSound
    <2>1. CASE n = k + 1
      BY <2>1, <1>1, <1>2
    <2>2. CASE n # k + 1
      <3>1. n \in 1 .. k /\ u[n] = s[n]
        BY <2>2, <1>1, <1>2
      <3> QED
        BY <3>1 DEF Good, AllSound, k
    <2> QED
      BY <2>1, <2>2
  <1>6. \A n \in 1 .. k : Linked(u[n], u[n + 1])
    <2> SUFFICES ASSUME NEW n \in 1 .. k PROVE Linked(u[n], u[n + 1])
      OBVIOUS
    <2>1. n \in 1 .. k + 1 /\ n + 1 \in 1 .. k + 1 /\ n # k + 1 /\ k # 0
      BY <1>1
    <2>2. u[n] = s[n]
      BY <2>1, <1>2
    <2>3. CASE n = k
      BY <2>1, <2>2, <2>3, <1>2, <1>3
    <2>4. CASE n # k
      <3>1. n \in 1 .. k - 1 /\ n + 1 # k + 1
        BY <2>4, <1>1
      <3>2. u[n + 1] = s[n + 1]
        BY <2>1, <3>1, <1>2
      <3> QED
        BY <2>2, <3>1, <3>2 DEF Good, Chained, k
    <2> QED
      BY <2>3, <2>4
  <1>7. \A n \in 1 .. k + 1 : \A m \in 1 .. n - 1 : rank[u[n].query] < rank[u[m].query]
    <2> SUFFICES ASSUME NEW n \in 1 .. k + 1, NEW m \in 1 .. n - 1
                 PROVE  rank[u[n].query] < rank[u[m].query]
      OBVIOUS
    <2>1. m \in 1 .. k /\ m \in 1 .. k + 1 /\ m # k + 1 /\ k # 0
      BY <1>1
    <2>2. u[m] = s[m]
      BY <2>1, <1>2
    <2>3. CASE n = k + 1
      <3>1. rank[a.query] < rank[s[k].query] /\ u[n] = a
        BY <2>1, <2>3, <1>2, <1>3
      <3>2. rank[a.query] \in Nat /\ rank[s[m].query] \in Nat /\ rank[s[k].query] \in Nat
        BY <2>1, <1>1, <1>4 DEF Activations
      <3>3. m = k \/ rank[s[k].query] < rank[s[m].query]
        <4>1. m # k => k \in 1 .. k /\ m \in 1 .. k - 1
          BY <2>1, <1>1
        <4> QED
          BY <4>1 DEF Good, Chained, k
      <3> QED
        BY <2>2, <3>1, <3>2, <3>3
    <2>4. CASE n # k + 1
      <3>1. n \in 1 .. k /\ u[n] = s[n]
        BY <2>4, <1>1, <1>2
      <3> QED
        BY <2>2, <3>1 DEF Good, Chained, k
    <2> QED
      BY <2>3, <2>4
  <1>8. Len(u) - 1 = k
    BY <1>1
  <1> QED
    BY <1>1, <1>5, <1>6, <1>7, <1>8 DEF Good, Chained, u

\* A Get returns to a caller that waits for its query.
LEMMA PopGood ==
    ASSUME NEW rank, NEW c, NEW r, NEW in, NEW s \in Seq(Activations), s # <<>>,
           Good(rank, c, r, in, s)
    PROVE  /\ Good(rank, c, r, in, Front(s))
           /\ Front(s) # <<>> =>
                 Linked(Last(Front(s)), Last(s)) /\ Sound(c, r, in, Last(Front(s)))
  <1> DEFINE f == Front(s)
             k == Len(s)
  <1>1. f \in Seq(Activations) /\ k \in Nat \ {0} /\ Len(f) = k - 1 /\ Last(s) = s[k]
    BY FrontIs
  <1>2. \A n \in 1 .. k - 1 : f[n] = s[n]
    BY FrontIs
  <1>3. f # <<>> => k - 1 \in 1 .. k - 1 /\ Last(f) = f[k - 1]
    BY <1>1 DEF Last
  <1> HIDE DEF f, k
  <1>4. AllSound(c, r, in, f)
    <2> SUFFICES ASSUME NEW n \in 1 .. k - 1 PROVE Sound(c, r, in, f[n])
      BY <1>1 DEF AllSound
    <2>1. n \in 1 .. k /\ f[n] = s[n]
      BY <1>1, <1>2
    <2> QED
      BY <2>1 DEF Good, AllSound, k
  <1>5. Chained(rank, f)
    <2>1. ASSUME NEW n \in 1 .. Len(f) - 1 PROVE Linked(f[n], f[n + 1])
      <3>1. n \in 1 .. k - 1 /\ n + 1 \in 1 .. k - 1
        BY <1>1
      <3> QED
        BY <3>1, <1>2 DEF Good, Chained, k
    <2>2. ASSUME NEW n \in 1 .. Len(f), NEW m \in 1 .. n - 1
          PROVE  rank[f[n].query] < rank[f[m].query]
      <3>1. n \in 1 .. k - 1 /\ m \in 1 .. k - 1 /\ n \in 1 .. k
        BY <1>1
      <3> QED
        BY <3>1, <1>2 DEF Good, Chained, k
    <2> QED
      BY <2>1, <2>2 DEF Chained
  <1>6. ASSUME f # <<>> PROVE Linked(Last(f), Last(s)) /\ Sound(c, r, in, Last(f))
    <2>1. k - 1 \in 1 .. k - 1 /\ k - 1 \in 1 .. k /\ (k - 1) + 1 = k
      BY <1>1, <1>3, <1>6
    <2>2. Last(f) = s[k - 1]
      BY <2>1, <1>2, <1>3, <1>6
    <2>3. Linked(s[k - 1], s[(k - 1) + 1])
      BY <2>1 DEF Good, Chained, k
    <2> QED
      BY <2>1, <2>2, <2>3, <1>1 DEF Good, AllSound, k
  <1> QED
    BY <1>4, <1>5, <1>6 DEF Good, f

\* Stacks stay good when the cache is refreshed.
LEMMA RefreshedGood ==
    ASSUME WellDefined, NEW in \in Contents, NEW r \in Revisions,
           NEW c \in Cache, NEW c2 \in Cache, Refreshed(c, c2, r, in),
           NEW rank, NEW s \in Seq(Activations), Good(rank, c, r, in, s)
    PROVE  Good(rank, c2, r, in, s)
  <1>1. ASSUME NEW n \in 1 .. Len(s) PROVE Sound(c2, r, in, s[n])
    <2>1. s[n] \in Activations /\ Sound(c, r, in, s[n])
      BY DEF Good, AllSound
    <2> QED
      BY <2>1, SoundRefreshed
  <1> QED
    BY <1>1 DEF Good, AllSound

\* A goroutine outside of Get.
LEMMA EmptyGood ==
    ASSUME NEW rank, NEW c, NEW r, NEW in
    PROVE  Good(rank, c, r, in, <<>>)
  BY DEF Good, AllSound, Chained

-----------------------------------------------------------------------------
(* The phases of a Get.                                                    *)

\* The entry found is the one to validate.
LEMMA LookupSound ==
    ASSUME NEW c \in Cache, NEW r, NEW in, NEW b \in Activations, Sound(c, r, in, b),
           b.phase = "lookup", c[b.query] # None, EntryOk(c, r, in, b.query),
           c[b.query].updatedAt <= r
    PROVE  Sound(c, r, in, [b EXCEPT !.phase = "check", !.entry = c[b.query]])
  <1> DEFINE e == c[b.query]
             a == [b EXCEPT !.phase = "check", !.entry = e]
  <1>1. /\ a.phase = "check" /\ a.entry = e /\ a.query = b.query /\ a.next = 1
        /\ a.vals = <<>> /\ a.deps = <<>>
    BY DEF Activations, Sound
  <1>2. PICK vals : Supports(c, r, in, b.query, e.deps, e.value, vals)
    BY DEF EntryOk
  <1>3. vals \in Seq(Values)
    BY <1>2 DEF Supports, Backed
  <1>4. 1 \in 1 .. Len(vals) + 1 /\ SubSeq(vals, 1, 1 - 1) = <<>>
    BY <1>3
  <1> HIDE DEF a, e
  <1>5. Midway(in, b.query, SubSeq(vals, 1, 1 - 1))
    BY <1>4, BackedEmpty
  <1>6. Unchanged(c, r, in, a, vals)
    BY <1>1, <1>2, <1>4, <1>5 DEF Unchanged
  <1>7. Held(c, r, in, a.query, a.entry)
    BY <1>1 DEF Held, EntryOk, e, Verified
  <1> QED
    BY <1>1, <1>6, <1>7 DEF Sound, Approximating, a, e

\* A computation starts from no reads.
LEMMA StartSound ==
    ASSUME NEW c, NEW r, NEW in, NEW b \in Activations, Sound(c, r, in, b),
           b.phase \in {"lookup"} \cup Validating
    PROVE  Sound(c, r, in, [b EXCEPT !.phase = "compute", !.entry = None, !.next = 1])
  <1> DEFINE a == [b EXCEPT !.phase = "compute", !.entry = None, !.next = 1]
  <1>1. a.phase = "compute" /\ a.query = b.query /\ a.vals = <<>> /\ a.deps = <<>>
    BY DEF Activations, Sound
  <1> HIDE DEF a
  <1>2. Backed(c, r, in, a.query, a.deps, a.vals) /\ Midway(in, a.query, a.vals)
    BY <1>1, BackedEmpty
  <1> QED
    BY <1>1, <1>2 DEF Sound, Approximating, Validating, a

\* Validation starts with the first dependency.
LEMMA CheckSound ==
    ASSUME NEW c, NEW r, NEW in, NEW b \in Activations, Sound(c, r, in, b),
           b.phase = "check"
    PROVE  Sound(c, r, in, [b EXCEPT !.phase = "validate"])
  <1> DEFINE a == [b EXCEPT !.phase = "validate"]
  <1>1. /\ a.phase = "validate" /\ a.query = b.query /\ a.vals = b.vals /\ a.deps = b.deps
        /\ a.entry = b.entry /\ a.next = b.next
    BY DEF Activations
  <1> HIDE DEF a
  <1>2. /\ a.vals = <<>> /\ a.deps = <<>> /\ Held(c, r, in, a.query, a.entry)
        /\ \E vals : Unchanged(c, r, in, a, vals)
    BY <1>1 DEF Sound, Validating, Unchanged
  <1> QED
    BY <1>1, <1>2 DEF Sound, Approximating, a

\* The next dependency has not changed either.
LEMMA NextMidway ==
    ASSUME NEW c, NEW r, NEW in, NEW b \in Activations, NEW vals,
           Unchanged(c, r, in, b, vals), b.next <= Len(vals),
           LET d == b.entry.deps[b.next]
           IN  \/ d.source \in Inputs /\ in[d.source].revision <= d.last
               \/ d.source \in Queries /\ IsFresh(in, d.source, vals[b.next])
    PROVE  Midway(in, b.query, SubSeq(vals, 1, b.next))
  <1> DEFINE d == b.entry.deps[b.next]
             q == b.query
             n == b.next
             pre == SubSeq(vals, 1, n - 1)
  <1>1. /\ vals \in Seq(Values) /\ n \in 1 .. Len(vals) /\ q \in Queries
        /\ Midway(in, q, pre)
    BY DEF Unchanged, Supports, Backed, Activations
  <1>2. NextRead(q, pre) = d.source /\ DepOk(c, r, in, d, vals[n])
    BY <1>1 DEF Unchanged, Supports, Backed
  <1>3. pre \in Seq(Values) /\ Append(pre, vals[n]) = SubSeq(vals, 1, n)
    BY <1>1, PrefixIs
  <1>4. CASE d.source \in Inputs /\ in[d.source].revision <= d.last
    <2>1. in[d.source].value = vals[n]
      BY <1>2, <1>4 DEF DepOk
    <2> HIDE DEF pre, d, q, n
    <2>2. Midway(in, q, Append(pre, in[d.source].value))
      BY <1>1, <1>2, <1>3, <1>4, MidwayInput
    <2> QED
      BY <1>3, <2>1, <2>2 DEF n, q
  <1>5. CASE d.source \in Queries /\ IsFresh(in, d.source, vals[n])
    <2> HIDE DEF pre, d, q, n
    <2>1. Midway(in, q, Append(pre, vals[n]))
      BY <1>1, <1>2, <1>3, <1>5, MidwayQuery
    <2> QED
      BY <1>3, <2>1 DEF n, q
  <1> QED
    BY <1>4, <1>5

\* One more dependency is unchanged.
LEMMA NextSound ==
    ASSUME NEW c, NEW r, NEW in, NEW b \in Activations, Sound(c, r, in, b),
           b.phase \in {"validate", "revalidated"},
           NEW vals, Unchanged(c, r, in, b, vals), b.next <= Len(vals),
           Midway(in, b.query, SubSeq(vals, 1, b.next))
    PROVE  Sound(c, r, in, [b EXCEPT !.phase = "validate", !.next = @ + 1])
  <1> DEFINE a == [b EXCEPT !.phase = "validate", !.next = @ + 1]
  <1>1. /\ a.phase = "validate" /\ a.query = b.query /\ a.vals = b.vals /\ a.deps = b.deps
        /\ a.entry = b.entry /\ a.next = b.next + 1
    BY DEF Activations
  <1>2. vals \in Seq(Values) /\ b.next \in 1 .. Len(vals)
    BY DEF Unchanged, Supports, Backed, Activations
  <1> HIDE DEF a
  <1>3. a.next \in 1 .. Len(vals) + 1 /\ a.next - 1 = b.next
    BY <1>1, <1>2
  <1>4. Unchanged(c, r, in, a, vals)
    BY <1>1, <1>3 DEF Unchanged
  <1>5. a.vals = <<>> /\ a.deps = <<>> /\ Held(c, r, in, a.query, a.entry)
    BY <1>1 DEF Sound, Validating
  <1> QED
    BY <1>1, <1>4, <1>5 DEF Sound, Approximating, a

\* Every dependency is unchanged.
LEMMA ValidatedSound ==
    ASSUME NEW c, NEW r, NEW in, NEW b \in Activations, Sound(c, r, in, b),
           b.phase = "validate", b.next > Len(b.entry.deps)
    PROVE  Sound(c, r, in, [b EXCEPT !.phase = "stamp"])
  <1> DEFINE a == [b EXCEPT !.phase = "stamp"]
  <1>1. /\ a.phase = "stamp" /\ a.query = b.query /\ a.vals = b.vals /\ a.deps = b.deps
        /\ a.entry = b.entry
    BY DEF Activations
  <1>2. PICK vals : Unchanged(c, r, in, b, vals)
    BY DEF Sound
  <1>3. /\ vals \in Seq(Values) /\ b.next \in 1 .. Len(vals) + 1
        /\ Len(b.entry.deps) = Len(vals) /\ NextRead(b.query, vals) = None
        /\ b.entry.value = Combine(b.query, vals) /\ b.query \in Queries
    BY <1>2 DEF Unchanged, Supports, Backed, Activations
  <1>4. b.next - 1 = Len(vals) /\ SubSeq(vals, 1, Len(vals)) = vals
    BY <1>3
  <1>5. Midway(in, b.query, vals)
    BY <1>2, <1>4 DEF Unchanged
  <1>6. IsFresh(in, b.query, b.entry.value)
    BY <1>3, <1>5, MidwayDone
  <1> HIDE DEF a
  <1>7. a.vals = <<>> /\ a.deps = <<>> /\ Held(c, r, in, a.query, a.entry)
    BY <1>1 DEF Sound, Validating
  <1> QED
    BY <1>1, <1>6, <1>7 DEF Sound, Approximating, a

\* The revision to write is the present one, as no Set runs during a Get.
LEMMA StampSound ==
    ASSUME NEW c, NEW r, NEW in, NEW b \in Activations, Sound(c, r, in, b),
           NEW p \in {"mark", "store"},
           p = "mark" => b.phase = "stamp", p = "store" => b.phase = "load"
    PROVE  Sound(c, r, in, [b EXCEPT !.phase = p, !.rev = r])
  <1> DEFINE a == [b EXCEPT !.phase = p, !.rev = r]
  <1>1. /\ a.phase = p /\ a.query = b.query /\ a.vals = b.vals /\ a.deps = b.deps
        /\ a.entry = b.entry /\ a.value = b.value /\ a.rev = r
    BY DEF Activations
  <1> HIDE DEF a
  <1>2. CASE p = "mark"
    <2>1. /\ a.vals = <<>> /\ a.deps = <<>> /\ Held(c, r, in, a.query, a.entry)
          /\ IsFresh(in, a.query, a.entry.value)
      BY <1>1, <1>2 DEF Sound, Validating
    <2> QED
      BY <1>1, <1>2, <2>1 DEF Sound, Approximating, a
  <1>3. CASE p = "store"
    <2>1. /\ IsFresh(in, a.query, a.value)
          /\ \E vals : Supports(c, r, in, a.query, a.deps, a.value, vals)
      BY <1>1, <1>3 DEF Sound
    <2> QED
      BY <1>1, <1>3, <2>1 DEF Sound, Approximating, Validating, a
  <1> QED
    BY <1>2, <1>3

\* What is returned for q stands for its entry.
LEMMA ReturnDepOk ==
    ASSUME WellDefined, NEW in \in Contents, NEW c, NEW r, NEW q \in Queries,
           Verified(c, r, q), EntryOk(c, r, in, q),
           NEW v, IsFresh(in, q, v), NEW last, last <= r
    PROVE  DepOk(c, r, in, [source |-> q, last |-> last], v)
  <1>1. c[q].value = v
    BY FreshUnique DEF Verified, EntryOk
  <1>2. q \notin Inputs
    BY SourceAssumption
  <1> QED
    BY <1>1, <1>2 DEF DepOk

\* Another read of a computation.
LEMMA ReadSound ==
    ASSUME NEW c, NEW r, NEW in, NEW b \in Activations, Sound(c, r, in, b),
           b.phase = "compute",
           NEW source \in Inputs \cup Queries, NEW last \in Revisions, NEW v \in Values,
           NextRead(b.query, b.vals) = source,
           DepOk(c, r, in, [source |-> source, last |-> last], v),
           Midway(in, b.query, Append(b.vals, v))
    PROVE  Sound(c, r, in, Delivered(b, source, last, v))
  <1> DEFINE d == [source |-> source, last |-> last]
             a == Delivered(b, source, last, v)
  <1>1. /\ a.phase = "compute" /\ a.query = b.query
        /\ a.vals = Append(b.vals, v) /\ a.deps = Append(b.deps, d)
    BY DEF Activations, Delivered
  <1>2. d \in Deps /\ d.source = source
    BY DEF Deps
  <1> HIDE DEF a, d
  <1>3. Backed(c, r, in, b.query, b.deps, b.vals)
    BY DEF Sound
  <1>4. Backed(c, r, in, a.query, a.deps, a.vals)
    BY <1>1, <1>2, <1>3, BackedAppend DEF d
  <1> QED
    BY <1>1, <1>4 DEF Sound, Approximating, Validating, a

\* A computation reads an input.
LEMMA ReadInputSound ==
    ASSUME NEW in \in Contents, NEW c, NEW r, NEW b \in Activations, Sound(c, r, in, b),
           b.phase = "compute", NEW i \in Inputs, NextRead(b.query, b.vals) = i,
           in[i].revision <= r
    PROVE  Sound(c, r, in, Delivered(b, i, in[i].revision, in[i].value))
  <1>1. in[i].revision \in Revisions /\ in[i].value \in Values
    BY DEF Contents
  <1>2. i \notin Queries
    BY SourceAssumption
  <1>3. DepOk(c, r, in, [source |-> i, last |-> in[i].revision], in[i].value)
    BY <1>2 DEF DepOk
  <1>4. b.query \in Queries /\ b.vals \in Seq(Values) /\ Midway(in, b.query, b.vals)
    BY DEF Sound, Activations
  <1>5. Midway(in, b.query, Append(b.vals, in[i].value))
    BY <1>4, MidwayInput
  <1> QED
    BY <1>1, <1>3, <1>5, ReadSound

\* A Get of q returned v to the activation that waits for it.
LEMMA DeliveredSound ==
    ASSUME WellDefined, NEW in \in Contents, NEW c, NEW r,
           NEW b \in Activations, Sound(c, r, in, b),
           b.phase \in {"compute", "validate"},
           NEW q \in Queries, NEW callee, callee.query = q, Linked(b, callee),
           Verified(c, r, q), EntryOk(c, r, in, q),
           NEW v \in Values, IsFresh(in, q, v), NEW last \in Revisions, last <= r
    PROVE  Sound(c, r, in, Delivered(b, q, last, v))
  <1>1. CASE b.phase = "compute"
    <2>1. NextRead(b.query, b.vals) = q
      BY <1>1 DEF Linked
    <2>2. DepOk(c, r, in, [source |-> q, last |-> last], v)
      BY ReturnDepOk
    <2>3. b.query \in Queries /\ b.vals \in Seq(Values) /\ Midway(in, b.query, b.vals)
      BY <1>1 DEF Sound, Activations
    <2>4. Midway(in, b.query, Append(b.vals, v))
      BY <2>1, <2>3, MidwayQuery
    <2> QED
      BY <1>1, <2>1, <2>2, <2>4, ReadSound
  <1>2. CASE b.phase = "validate"
    <2> DEFINE a == Delivered(b, q, last, v)
    <2>1. /\ a.phase = "revalidated" /\ a.query = b.query /\ a.entry = b.entry
          /\ a.next = b.next /\ a.vals = b.vals /\ a.deps = b.deps
      BY <1>2 DEF Delivered, Activations
    <2> HIDE DEF a
    <2>2. /\ a.vals = <<>> /\ a.deps = <<>> /\ Held(c, r, in, a.query, a.entry)
          /\ \E vals : Unchanged(c, r, in, a, vals)
      BY <1>2, <2>1 DEF Sound, Validating, Unchanged
    <2>3. a.next <= Len(a.entry.deps) /\ a.entry.deps[a.next].source = q
      BY <1>2, <2>1 DEF Linked
    <2> QED
      BY <2>1, <2>2, <2>3 DEF Sound, Approximating, a
  <1> QED
    BY <1>1, <1>2

\* A computation ends with a fresh value.
LEMMA ComputedSound ==
    ASSUME NEW c, NEW r, NEW in, NEW b \in Activations, Sound(c, r, in, b),
           b.phase = "compute", NextRead(b.query, b.vals) = None
    PROVE  Sound(c, r, in, [b EXCEPT !.phase = "load", !.vals = <<>>,
                                     !.value = Combine(b.query, b.vals)])
  <1> DEFINE v == Combine(b.query, b.vals)
             a == [b EXCEPT !.phase = "load", !.vals = <<>>, !.value = v]
  <1>1. a.phase = "load" /\ a.query = b.query /\ a.deps = b.deps /\ a.value = v
    BY DEF Activations
  <1>2. /\ b.query \in Queries /\ b.vals \in Seq(Values) /\ Midway(in, b.query, b.vals)
        /\ Backed(c, r, in, b.query, b.deps, b.vals)
    BY DEF Sound, Activations
  <1>3. IsFresh(in, b.query, v)
    BY <1>2, MidwayDone
  <1>4. Supports(c, r, in, b.query, b.deps, v, b.vals)
    BY <1>2 DEF Supports
  <1> HIDE DEF a, v
  <1> QED
    BY <1>1, <1>3, <1>4 DEF Sound, Approximating, Validating, a, v

\* The callee on top returns v, which is fresh, and its entry is verified.
LEMMA ReturnGood ==
    ASSUME WellDefined, NEW in \in Contents, NEW c, NEW r, NEW rank,
           NEW s, NEW ip, WellFormed(s, ip), s # <<>>, Last(s).phase # "compute",
           Good(rank, c, r, in, s),
           Verified(c, r, Last(s).query), EntryOk(c, r, in, Last(s).query),
           NEW v \in Values, IsFresh(in, Last(s).query, v),
           NEW last \in Revisions, last <= r
    PROVE  Good(rank, c, r, in, Deliver(recordDep(Front(s), Last(s).query, last), v))
  <1> DEFINE f == Front(s)
             q == Last(s).query
             b == Last(f)
             a == Delivered(b, q, last, v)
  <1>1. s \in Seq(Activations) /\ f \in Seq(Activations) /\ q \in Queries
    <2>1. s \in Seq(Activations)
      BY DEF WellFormed
    <2>2. Last(s) \in Activations /\ f \in Seq(Activations)
      BY <2>1, FrontIs
    <2> QED
      BY <2>1, <2>2 DEF Activations
  <1>2. /\ Good(rank, c, r, in, f)
        /\ f # <<>> => Linked(b, Last(s)) /\ Sound(c, r, in, b)
    BY <1>1, PopGood
  <1>3. WellFormed(f, ip) /\ (f # <<>> => b.phase \in {"compute", "validate"})
    BY PopWellFormed
  <1>4. CASE f = <<>>
    <2>1. Deliver(recordDep(f, q, last), v) = f
      BY <1>4 DEF recordDep, Deliver
    <2> QED
      BY <1>2, <2>1
  <1>5. CASE f # <<>>
    <2>1. Formed(b) /\ b \in Activations
      BY <1>1, <1>3, <1>5, FrontIs DEF WellFormed
    <2>2. Deliver(recordDep(f, q, last), v) = Update(f, a)
      BY <1>1, <1>3, <1>5, <2>1, DeliverIs
    <2>3. Formed(a) /\ a.query = b.query
      BY <1>1, <1>3, <1>5, <2>1, DeliveredFormed
    <2>4. a \in Activations
      BY <2>3 DEF Formed
    <2>5. Sound(c, r, in, a)
      BY <1>1, <1>2, <1>3, <1>5, <2>1, DeliveredSound
    <2> HIDE DEF a, f
    <2>6. Good(rank, c, r, in, Update(f, a))
      BY <1>1, <1>2, <1>5, <2>3, <2>4, <2>5, UpdateGood
    <2> QED
      BY <2>2, <2>6 DEF f, q
  <1> QED
    BY <1>4, <1>5

\* A query of a lower rank than the top's is not being computed.
LEMMA LowerNotInProgress ==
    ASSUME NEW rank \in [Queries -> Nat], NEW s, NEW ip, WellFormed(s, ip), s # <<>>,
           Chained(rank, s), NEW q \in Queries, rank[q] < rank[Last(s).query]
    PROVE  q \notin ip
  <1> SUFFICES ASSUME q \in ip PROVE FALSE
    OBVIOUS
  <1> DEFINE k == Len(s)
  <1>1. s \in Seq(Activations)
    BY DEF WellFormed
  <1>2. k \in Nat \ {0} /\ DOMAIN s = 1 .. k /\ Last(s) = s[k]
    BY <1>1, FrontIs
  <1>3. PICK n \in 1 .. k : s[n].query = q
    BY <1>2, Zenon DEF WellFormed, Computing
  <1>4. s[k] \in Activations
    BY <1>1, <1>2
  <1>5. rank[q] \in Nat /\ rank[s[k].query] \in Nat
    BY <1>4 DEF Activations
  <1> HIDE DEF k
  <1>6. n # k => k \in 1 .. k /\ n \in 1 .. k - 1
    BY <1>2
  <1>7. n # k => rank[s[k].query] < rank[s[n].query]
    BY <1>6 DEF Chained, k
  <1> QED
    BY <1>2, <1>3, <1>5, <1>7

-----------------------------------------------------------------------------
(* The invariant.                                                          *)

\* The last revision whose Set is complete.
Now == IF setting = None THEN revision ELSE revision - 1

\* Nothing carries a revision later than now.
StampsUpTo(c, in, now) ==
    /\ \A i \in Inputs : in[i].revision <= now
    /\ \A q \in Queries : c[q] # None =>
          /\ c[q].verifiedAt <= now
          /\ c[q].updatedAt <= now
          /\ \A k \in 1 .. Len(c[q].deps) : c[q].deps[k].last <= now

\* The inductive invariant: sound entries and Gets, a fresh last answer, and no
\* Set while a Get runs.
FreshInv(rank) ==
    /\ \A t \in Threads : cycle[t] = {}
    /\ setting # None => Idle /\ answer = None
    /\ StampsUpTo(cache, input, Now)
    /\ \A q \in Queries : EntryOk(cache, revision, input, q)
    /\ \A t \in Threads : Good(rank, cache, revision, input, stack[t])
    /\ answer # None => IsFresh(input, answer.query, answer.value)

\* A step of a Get of goroutine t; c2 is the cache after it.
LEMMA GetStep ==
    ASSUME WellDefined, TypeOK, Stacks, NEW rank, FreshInv(rank),
           NEW t \in Threads, setting = None,
           UNCHANGED <<revision, input, setting>>,
           cache' \in Cache, Refreshed(cache, cache', revision, input),
           \A q \in Queries : cache'[q] # cache[q] =>
              /\ \E vals : Supports(cache, revision, input, q, cache'[q].deps, cache'[q].value, vals)
              /\ cache'[q].updatedAt <= revision,
           \A u \in Threads : cycle'[u] = {},
           NEW s, stack' = [stack EXCEPT ![t] = s], Good(rank, cache', revision, input, s),
           answer' = answer \/ answer' = None \/ IsFresh(input, answer'.query, answer'.value)
    PROVE  FreshInv(rank)'
  <1>1. input \in Contents /\ revision \in Revisions /\ cache \in Cache /\ revision \in Nat
    BY DEF TypeOK, Contents, Cache, Revisions
  <1>2. Now = revision /\ Now' = revision
    BY DEF Now
  <1>3. StampsUpTo(cache, input, revision)
    BY <1>2 DEF FreshInv
  <1>4. StampsUpTo(cache', input, revision)
    <2> SUFFICES ASSUME NEW q \in Queries, cache'[q] # None
                 PROVE  /\ cache'[q].verifiedAt <= revision
                        /\ cache'[q].updatedAt <= revision
                        /\ \A k \in 1 .. Len(cache'[q].deps) : cache'[q].deps[k].last <= revision
      BY <1>3 DEF StampsUpTo
    <2>1. CASE cache'[q] = cache[q]
      BY <2>1, <1>3 DEF StampsUpTo
    <2>2. CASE cache'[q] # cache[q]
      <3>1. PICK vals : Supports(cache, revision, input, q, cache'[q].deps, cache'[q].value, vals)
        BY <2>2
      <3>2. cache'[q].verifiedAt = revision
        BY <2>2 DEF Refreshed, Verified
      <3>3. \A k \in 1 .. Len(cache'[q].deps) : cache'[q].deps[k].last <= revision
        BY <3>1 DEF Supports, Backed, DepOk
      <3> QED
        BY <2>2, <3>2, <3>3, <1>1
    <2> QED
      BY <2>1, <2>2
  <1>5. ASSUME NEW q \in Queries PROVE EntryOk(cache', revision, input, q)
    <2>1. EntryOk(cache, revision, input, q)
      BY DEF FreshInv
    <2> QED
      BY <1>1, <2>1, EntryOkRefreshed
  <1>6. ASSUME NEW u \in Threads PROVE Good(rank, cache', revision, input, stack'[u])
    <2>1. stack[u] \in Seq(Activations) /\ Good(rank, cache, revision, input, stack[u])
      BY DEF Stacks, FreshInv
    <2>2. Good(rank, cache', revision, input, stack[u])
      BY <1>1, <2>1, RefreshedGood
    <2>3. CASE u = t
      BY <2>3 DEF Stacks
    <2>4. CASE u # t
      BY <2>2, <2>4 DEF Stacks
    <2> QED
      BY <2>3, <2>4
  <1>7. answer' # None => IsFresh(input, answer'.query, answer'.value)
    BY DEF FreshInv
  <1>8. setting' = None
    OBVIOUS
  <1>9. input' = input /\ revision' = revision
    OBVIOUS
  <1>10. /\ StampsUpTo(cache', input', Now')
         /\ \A q \in Queries : EntryOk(cache', revision', input', q)
         /\ \A u \in Threads : Good(rank, cache', revision', input', stack'[u])
         /\ answer' # None => IsFresh(input', answer'.query, answer'.value)
    BY <1>2, <1>4, <1>5, <1>6, <1>7, <1>9, Zenon
  <1> QED
    BY <1>8, <1>10 DEF FreshInv

\* A Get is running, so no Set is.
LEMMA RunningIs ==
    ASSUME TypeOK, Stacks, NEW rank, FreshInv(rank), NEW t \in Threads, stack[t] # <<>>
    PROVE  /\ setting = None
           /\ Good(rank, cache, revision, input, stack[t])
           /\ Sound(cache, revision, input, Top(t))
           /\ StampsUpTo(cache, input, revision)
           /\ input \in Contents /\ revision \in Revisions /\ cache \in Cache
  <1>1. setting = None
    BY DEF FreshInv, Idle
  <1>2. Good(rank, cache, revision, input, stack[t]) /\ stack[t] \in Seq(Activations)
    BY DEF FreshInv, Stacks
  <1>3. Len(stack[t]) \in 1 .. Len(stack[t]) /\ Top(t) = stack[t][Len(stack[t])]
    BY <1>2, FrontIs DEF Top
  <1>4. Sound(cache, revision, input, Top(t))
    BY <1>2, <1>3 DEF Good, AllSound
  <1>5. input \in Contents /\ revision \in Revisions /\ cache \in Cache
    BY DEF TypeOK, Contents, Cache
  <1>6. StampsUpTo(cache, input, revision)
    BY <1>1 DEF FreshInv, Now
  <1> QED
    BY <1>1, <1>2, <1>4, <1>5, <1>6

\* A step of a Get that leaves the cache alone.
LEMMA LocalStep ==
    ASSUME WellDefined, TypeOK, Stacks, NEW rank, FreshInv(rank),
           NEW t \in Threads, setting = None,
           UNCHANGED <<revision, input, setting, cache>>,
           \A u \in Threads : cycle'[u] = {},
           NEW s, stack' = [stack EXCEPT ![t] = s], Good(rank, cache, revision, input, s),
           answer' = answer \/ answer' = None \/ IsFresh(input, answer'.query, answer'.value)
    PROVE  FreshInv(rank)'
  <1>1. cache' \in Cache /\ Refreshed(cache, cache', revision, input)
    BY DEF TypeOK, Cache, Refreshed
  <1>2. Good(rank, cache', revision, input, s)
    OBVIOUS
  <1> QED
    BY <1>1, <1>2, GetStep

\* A step that only moves the top activation on.
LEMMA GotoFresh ==
    ASSUME WellDefined, TypeOK, Stacks, NEW rank, FreshInv(rank),
           NEW t \in Threads, stack[t] # <<>>,
           UNCHANGED <<revision, input, setting, cache, cycle, answer>>,
           NEW a, Formed(a), a.query = Top(t).query, Sound(cache, revision, input, a),
           Goto(t, a)
    PROVE  FreshInv(rank)'
  <1>1. /\ setting = None /\ Good(rank, cache, revision, input, stack[t])
        /\ stack[t] \in Seq(Activations) /\ Top(t) = Last(stack[t]) /\ a \in Activations
    BY RunningIs, TopIs DEF Formed
  <1>2. Good(rank, cache, revision, input, Update(stack[t], a))
    BY <1>1, UpdateGood
  <1>3. stack' = [stack EXCEPT ![t] = Update(stack[t], a)]
    BY DEF Goto
  <1>4. \A u \in Threads : cycle'[u] = {}
    BY DEF FreshInv
  <1> QED
    BY <1>1, <1>2, <1>3, <1>4, LocalStep

\* A step that begins a computation.
LEMMA StartFresh ==
    ASSUME WellDefined, TypeOK, Stacks, NEW rank, FreshInv(rank),
           NEW t \in Threads, stack[t] # <<>>,
           Top(t).phase \in {"lookup"} \cup Validating,
           UNCHANGED <<revision, input, setting, cache, cycle, answer>>,
           StartCompute(t, Top(t))
    PROVE  FreshInv(rank)'
  <1> DEFINE a == [Top(t) EXCEPT !.phase = "compute", !.entry = None, !.next = 1]
  <1>1. Formed(Top(t)) /\ Top(t) \in Activations /\ Sound(cache, revision, input, Top(t))
    BY RunningIs, TopIs
  <1>2. Formed(a) /\ a.query = Top(t).query
    BY <1>1, StartFormed
  <1>3. Sound(cache, revision, input, a)
    BY <1>1, StartSound
  <1>4. Goto(t, a)
    BY DEF StartCompute
  <1> HIDE DEF a
  <1> QED
    BY <1>2, <1>3, <1>4, GotoFresh

\* A step that returns a fresh value and has refreshed the cache.
LEMMA ReturnFresh ==
    ASSUME WellDefined, TypeOK, Stacks, NEW rank, FreshInv(rank),
           NEW t \in Threads, stack[t] # <<>>, Top(t).phase # "compute",
           UNCHANGED <<revision, input, setting>>,
           cache' \in Cache, Refreshed(cache, cache', revision, input),
           \A q \in Queries : cache'[q] # cache[q] =>
              /\ \E vals : Supports(cache, revision, input, q, cache'[q].deps, cache'[q].value, vals)
              /\ cache'[q].updatedAt <= revision,
           \A u \in Threads : cycle'[u] = {},
           Verified(cache', revision, Top(t).query),
           NEW v \in Values, IsFresh(input, Top(t).query, v),
           NEW last \in Revisions, last <= revision,
           Return(t, v, last)
    PROVE  FreshInv(rank)'
  <1> DEFINE q == Top(t).query
             s == Deliver(recordDep(Front(stack[t]), q, last), v)
  <1>1. /\ setting = None /\ Good(rank, cache, revision, input, stack[t])
        /\ input \in Contents /\ revision \in Revisions /\ cache \in Cache
    BY RunningIs
  <1>2. /\ stack[t] \in Seq(Activations) /\ Top(t) = Last(stack[t]) /\ q \in Queries
        /\ WellFormed(stack[t], inProgress[t])
    BY TopIs
  <1>3. Good(rank, cache', revision, input, stack[t])
    BY <1>1, <1>2, RefreshedGood
  <1>4. EntryOk(cache', revision, input, q)
    <2>1. EntryOk(cache, revision, input, q)
      BY <1>2 DEF FreshInv
    <2> QED
      BY <1>1, <1>2, <2>1, EntryOkRefreshed
  <1>5. Good(rank, cache', revision, input, s)
    BY <1>1, <1>2, <1>3, <1>4, ReturnGood
  <1>6. stack' = [stack EXCEPT ![t] = s]
    BY DEF Return
  <1>7. answer' = answer \/ answer' = [query |-> q, value |-> v]
    BY DEF Return
  <1>8. answer' = answer \/ answer' = None \/ IsFresh(input, answer'.query, answer'.value)
    BY <1>7
  <1> HIDE DEF s, q
  <1> QED
    BY <1>1, <1>5, <1>6, <1>8, GetStep

\* A new activation starts with the lookup: its query is not in progress.
LEMMA PushFresh ==
    ASSUME WellDefined, TypeOK, Stacks, NEW rank \in [Queries -> Nat], FreshInv(rank),
           NEW t \in Threads, setting = None, NEW q \in Queries,
           UNCHANGED <<revision, input, setting, cache, cycle>>,
           answer' = answer \/ answer' = None,
           stack' = [stack EXCEPT ![t] = Append(stack[t], Activation(t, q))],
           stack[t] # <<>> => /\ Linked(Top(t), [query |-> q])
                              /\ rank[q] < rank[Top(t).query]
    PROVE  FreshInv(rank)'
  <1> DEFINE a == Activation(t, q)
  <1>1. /\ stack[t] \in Seq(Activations) /\ WellFormed(stack[t], inProgress[t])
        /\ Good(rank, cache, revision, input, stack[t])
    BY DEF Stacks, FreshInv
  <1>2. q \notin inProgress[t]
    <2>1. CASE stack[t] = <<>>
      BY <2>1, <1>1 DEF WellFormed, Computing
    <2>2. CASE stack[t] # <<>>
      BY <2>2, <1>1, LowerNotInProgress DEF Good, Top
    <2> QED
      BY <2>1, <2>2
  <1>3. /\ a.query = q /\ a.phase = "lookup" /\ a.next = 1
        /\ a.vals = <<>> /\ a.deps = <<>>
    BY <1>2 DEF Activation
  <1>4. a \in Activations
    <2>1. 0 \in Revisions /\ <<>> \in Seq(Values) /\ <<>> \in Seq(Deps) /\ "lookup" \in Phases
      BY BoundAssumption DEF Revisions, Phases
    <2> QED
      BY <2>1, <1>2, SourceAssumption DEF Activation, Activations
  <1> HIDE DEF a
  <1>5. Sound(cache, revision, input, a)
    BY <1>3 DEF Sound, Approximating, Validating
  <1>6. stack[t] # <<>> => Linked(Last(stack[t]), a) /\ rank[a.query] < rank[Last(stack[t]).query]
    BY <1>3 DEF Linked, Top
  <1>7. Good(rank, cache, revision, input, Append(stack[t], a))
    BY <1>1, <1>4, <1>5, <1>6, PushGood
  <1>8. \A u \in Threads : cycle'[u] = {}
    BY DEF FreshInv
  <1>9. stack' = [stack EXCEPT ![t] = Append(stack[t], a)]
    BY DEF a
  <1> QED
    BY <1>7, <1>8, <1>9, LocalStep

\* changedAt answered, and rightly if it answered unchanged.
LEMMA ChangedFresh ==
    ASSUME WellDefined, TypeOK, Stacks, NEW rank, FreshInv(rank),
           NEW t \in Threads, stack[t] # <<>>,
           Top(t).phase \in {"validate", "revalidated"},
           UNCHANGED <<revision, input, setting, cache, cycle, answer>>,
           NEW changed, Changed(t, changed),
           ~changed => \E vals : /\ Unchanged(cache, revision, input, Top(t), vals)
                                 /\ Top(t).next <= Len(vals)
                                 /\ Midway(input, Top(t).query, SubSeq(vals, 1, Top(t).next))
    PROVE  FreshInv(rank)'
  <1>1. Formed(Top(t)) /\ Top(t) \in Activations /\ Sound(cache, revision, input, Top(t))
    BY RunningIs, TopIs
  <1>2. Top(t).phase \in Validating
    BY DEF Validating
  <1>3. CASE changed
    BY <1>2, <1>3, StartFresh DEF Changed
  <1>4. CASE ~changed
    <2> DEFINE a == [Top(t) EXCEPT !.phase = "validate", !.next = @ + 1]
    <2>1. Formed(a) /\ a.query = Top(t).query
      BY <1>1, <1>2, NextFormed
    <2>2. Sound(cache, revision, input, a)
      BY <1>1, <1>4, NextSound
    <2>3. Goto(t, a)
      BY <1>4 DEF Changed
    <2> HIDE DEF a
    <2> QED
      BY <2>1, <2>2, <2>3, GotoFresh
  <1> QED
    BY <1>3, <1>4

\* What a validating Get knows of the dependency it is at.
LEMMA NextDependency ==
    ASSUME TypeOK, Stacks, NEW rank, FreshInv(rank), NEW t \in Threads, stack[t] # <<>>,
           Top(t).phase \in {"validate", "revalidated"}, Top(t).next <= Len(Top(t).entry.deps),
           NEW vals, Unchanged(cache, revision, input, Top(t), vals)
    PROVE  LET a == Top(t)
               d == a.entry.deps[a.next]
           IN  /\ a.next \in 1 .. Len(vals) /\ vals \in Seq(Values)
               /\ d \in Deps /\ d.last \in Nat /\ revision \in Nat
               /\ d.source = NextRead(a.query, SubSeq(vals, 1, a.next - 1))
               /\ SubSeq(vals, 1, a.next - 1) \in Seq(Values)
               /\ DepOk(cache, revision, input, d, vals[a.next])
  <1> DEFINE a == Top(t)
             d == a.entry.deps[a.next]
  <1>1. /\ Supports(cache, revision, input, a.query, a.entry.deps, a.entry.value, vals)
        /\ a.next \in 1 .. Len(vals) + 1
    BY DEF Unchanged
  <1>2. /\ vals \in Seq(Values) /\ a.entry.deps \in Seq(Deps) /\ Len(a.entry.deps) = Len(vals)
        /\ \A k \in 1 .. Len(vals) :
              /\ NextRead(a.query, SubSeq(vals, 1, k - 1)) = a.entry.deps[k].source
              /\ DepOk(cache, revision, input, a.entry.deps[k], vals[k])
    BY <1>1 DEF Supports, Backed
  <1>3. a.next \in 1 .. Len(vals)
    BY <1>1, <1>2
  <1>4. d \in Deps
    BY <1>2, <1>3
  <1>5. SubSeq(vals, 1, a.next - 1) \in Seq(Values)
    BY <1>2, <1>3, PrefixIs
  <1>6. d.last \in Nat /\ revision \in Nat
    BY <1>4 DEF Deps, Revisions, TypeOK
  <1> QED
    BY <1>2, <1>3, <1>4, <1>5, <1>6

\* Every step of a Get keeps the invariant.
LEMMA StepFresh ==
    ASSUME WellDefined, Typed, TypeOK, Stacks, NEW rank, Ranked(rank), FreshInv(rank),
           NEW t \in Threads, Step(t)
    PROVE  FreshInv(rank)'
  <1> DEFINE a == Top(t)
             q == a.query
  <1>0. rank \in [Queries -> Nat]
    BY DEF Ranked
  <1>1. ASSUME stack[t] # <<>>
        PROVE  /\ Sound(cache, revision, input, a) /\ a \in Activations /\ Formed(a)
               /\ q \in Queries /\ EntryOk(cache, revision, input, q)
               /\ StampsUpTo(cache, input, revision) /\ setting = None
               /\ stack[t] \in Seq(Activations) /\ a = Last(stack[t])
    BY <1>1, RunningIs, TopIs DEF FreshInv
  <1>2. /\ input \in Contents /\ revision \in Revisions /\ revision # 0 /\ cache \in Cache
        /\ revision \in Nat
    BY DEF TypeOK, Contents, Cache, Revisions
  <1>3. \A u \in Threads : cycle[u] = {}
    BY DEF FreshInv
  <1>4. ASSUME UNCHANGED cache
        PROVE  /\ cache' \in Cache /\ Refreshed(cache, cache', revision, input)
               /\ \A p \in Queries : cache'[p] = cache[p]
    BY <1>2, <1>4 DEF Refreshed
  <1>5. CASE Approximate(t) \/ RecordApproximation(t)
    <2>1. stack[t] # <<>> /\ a.phase \in Approximating
      BY <1>5 DEF Approximate, RecordApproximation, At, Approximating
    <2> QED
      BY <1>1, <2>1 DEF Sound
  <1>7. CASE Lookup(t)
    <2>1. /\ stack[t] # <<>> /\ a.phase = "lookup"
          /\ UNCHANGED <<revision, input, setting, cache, cycle, answer>>
      BY <1>7 DEF Lookup, At
    <2>2. CASE cache[q] = None
      <3>1. StartCompute(t, a)
        BY <1>7, <2>2 DEF Lookup
      <3> QED
        BY <2>1, <3>1, StartFresh
    <2>3. CASE cache[q] # None
      <3> DEFINE b == [a EXCEPT !.phase = "check", !.entry = cache[q]]
      <3>1. Goto(t, b)
        BY <1>7, <2>3 DEF Lookup
      <3>2. cache[q] \in Entries /\ cache[q].updatedAt <= revision
        BY <1>1, <1>2, <2>1, <2>3 DEF Cache, StampsUpTo
      <3>3. Formed(b) /\ b.query = q
        BY <1>1, <2>1, <3>2, CheckFormed
      <3>4. Sound(cache, revision, input, b)
        BY <1>1, <1>2, <2>1, <2>3, <3>2, LookupSound
      <3> HIDE DEF b
      <3> QED
        BY <2>1, <3>1, <3>3, <3>4, GotoFresh
    <2> QED
      BY <2>2, <2>3
  <1>8. CASE Check(t)
    <2>1. /\ stack[t] # <<>> /\ a.phase = "check"
          /\ UNCHANGED <<revision, input, setting, cache, cycle>>
      BY <1>8 DEF Check, At
    <2>2. CASE a.entry.verifiedAt = revision
      <3>1. Return(t, a.entry.value, a.entry.updatedAt)
        BY <1>8, <2>2 DEF Check
      <3>2. a.entry \in Entries
        BY <1>1, <2>1 DEF Formed, Activations, Validating
      <3>3. a.entry.value \in Values /\ a.entry.updatedAt \in Revisions
        BY <3>2 DEF Entries
      <3>4. Held(cache, revision, input, q, a.entry)
        BY <1>1, <2>1 DEF Sound, Validating
      <3>5. /\ IsFresh(input, q, a.entry.value) /\ a.entry.updatedAt <= revision
            /\ Verified(cache', revision, q)
        BY <2>1, <2>2, <3>4 DEF Held
      <3> QED
        BY <1>3, <1>4, <2>1, <3>1, <3>3, <3>5, ReturnFresh
    <2>3. CASE a.entry.verifiedAt # revision
      <3> DEFINE b == [a EXCEPT !.phase = "validate"]
      <3>1. Goto(t, b) /\ UNCHANGED answer
        BY <1>8, <2>3 DEF Check
      <3>2. Formed(b) /\ b.query = q
        BY <1>1, <2>1, PhaseFormed DEF Validating
      <3>3. Sound(cache, revision, input, b)
        BY <1>1, <2>1, CheckSound
      <3> HIDE DEF b
      <3> QED
        BY <2>1, <3>1, <3>2, <3>3, GotoFresh
    <2> QED
      BY <2>2, <2>3
  <1>9. CASE Validate(t)
    <2> DEFINE d == a.entry.deps[a.next]
    <2>1. /\ stack[t] # <<>> /\ a.phase = "validate"
          /\ UNCHANGED <<revision, input, setting, cache, cycle, answer>>
      BY <1>9 DEF Validate, At
    <2>2. a.next \in Nat \ {0} /\ a.entry.deps \in Seq(Deps)
      <3>1. a.entry \in Entries /\ a.next \in Nat \ {0}
        BY <1>1, <2>1 DEF Formed, Activations, Validating
      <3> QED
        BY <3>1 DEF Entries
    <2>3. CASE a.next > Len(a.entry.deps)
      <3> DEFINE b == [a EXCEPT !.phase = "stamp"]
      <3>0. ~(a.next <= Len(a.entry.deps))
        BY <2>2, <2>3
      <3>1. Goto(t, b)
        BY <1>9, <2>3, <3>0, Zenon DEF Validate
      <3>2. Formed(b) /\ b.query = q
        BY <1>1, <2>1, PhaseFormed DEF Validating
      <3>3. Sound(cache, revision, input, b)
        BY <1>1, <2>1, <2>3, ValidatedSound
      <3> HIDE DEF b
      <3> QED
        BY <2>1, <3>1, <3>2, <3>3, GotoFresh
    <2>4. CASE a.next <= Len(a.entry.deps)
      <3>0. ~(a.next > Len(a.entry.deps))
        BY <2>2, <2>4
      <3>1. PICK vals : Unchanged(cache, revision, input, a, vals)
        BY <1>1, <2>1 DEF Sound
      <3>2. /\ a.next \in 1 .. Len(vals) /\ vals \in Seq(Values)
            /\ d \in Deps /\ d.last \in Nat
            /\ d.source = NextRead(q, SubSeq(vals, 1, a.next - 1))
            /\ SubSeq(vals, 1, a.next - 1) \in Seq(Values)
            /\ DepOk(cache, revision, input, d, vals[a.next])
        BY <2>1, <2>4, <3>1, NextDependency
      <3>3. a.next <= Len(vals)
        BY <3>2
      <3>4. d.source \in Inputs => input[d.source].revision <= revision
        BY <1>1, <2>1 DEF StampsUpTo
      <3>5. CASE revision <= d.last
        <4>0. ~(revision > d.last)
          BY <1>2, <3>2, <3>5
        <4>1. Changed(t, FALSE)
          BY <1>9, <2>4, <3>0, <3>5, <4>0, Zenon DEF Validate
        <4>2. d.last = revision
          BY <1>2, <3>2, <3>5 DEF DepOk
        <4>3. \/ d.source \in Inputs /\ input[d.source].revision <= d.last
              \/ d.source \in Queries /\ IsFresh(input, d.source, vals[a.next])
          BY <3>2, <3>4, <4>2 DEF DepOk, Deps
        <4>4. Midway(input, q, SubSeq(vals, 1, a.next))
          BY <1>1, <2>1, <3>1, <3>3, <4>3, NextMidway
        <4> QED
          BY <2>1, <3>1, <3>3, <4>1, <4>4, ChangedFresh
      <3>6. CASE revision > d.last /\ d.source \in Inputs
        <4>0. ~(revision <= d.last)
          BY <1>2, <3>2, <3>6
        <4>1. Changed(t, input[d.source].revision > d.last)
          BY <1>9, <2>4, <3>0, <3>6, <4>0, Zenon DEF Validate
        <4>2. ~(input[d.source].revision > d.last) =>
                 input[d.source].revision <= d.last
          <5>1. input[d.source].revision \in Nat
            BY <1>2, <3>6 DEF Contents, Revisions
          <5> QED
            BY <3>2, <5>1
        <4>3. ~(input[d.source].revision > d.last) =>
                 Midway(input, q, SubSeq(vals, 1, a.next))
          BY <1>1, <2>1, <3>1, <3>3, <3>6, <4>2, NextMidway
        <4> QED
          BY <2>1, <3>1, <3>3, <4>1, <4>3, ChangedFresh
      <3>7. CASE revision > d.last /\ d.source \notin Inputs
        <4>0. ~(revision <= d.last)
          BY <1>2, <3>2, <3>7
        <4>1. stack' = [stack EXCEPT ![t] = Append(@, Activation(t, d.source))]
          BY <1>9, <2>4, <3>0, <3>7, <4>0, Zenon DEF Validate
        <4>2. d.source \in Queries
          BY <3>2, <3>7 DEF Deps
        <4>3. rank[d.source] < rank[q]
          BY <1>1, <2>1, <3>2, <4>2 DEF Ranked
        <4>4. Linked(a, [query |-> d.source])
          BY <2>1, <2>4 DEF Linked
        <4>5. stack' = [stack EXCEPT ![t] = Append(stack[t], Activation(t, d.source))]
          BY <4>1
        <4> HIDE DEF d
        <4> QED
          BY <1>0, <1>1, <2>1, <4>2, <4>3, <4>4, <4>5, PushFresh
      <3> QED
        BY <1>2, <3>2, <3>5, <3>6, <3>7
    <2> QED
      BY <2>2, <2>3, <2>4
  <1>10. CASE Revalidated(t)
    <2> DEFINE d == a.entry.deps[a.next]
    <2>1. /\ stack[t] # <<>> /\ a.phase = "revalidated"
          /\ UNCHANGED <<revision, input, setting, cache, cycle, answer>>
          /\ Changed(t, UpdatedAt(d.source) > d.last)
      BY <1>10 DEF Revalidated, At
    <2>2. /\ a.next <= Len(a.entry.deps) /\ d.source \in Queries
          /\ Verified(cache, revision, d.source)
      BY <1>1, <2>1 DEF Sound
    <2>3. PICK vals : Unchanged(cache, revision, input, a, vals)
      BY <1>1, <2>1 DEF Sound
    <2>4. /\ a.next \in 1 .. Len(vals) /\ vals \in Seq(Values) /\ d.last \in Nat
          /\ DepOk(cache, revision, input, d, vals[a.next])
      BY <2>1, <2>2, <2>3, NextDependency
    <2>5. a.next <= Len(vals)
      BY <2>4
    <2>6. UpdatedAt(d.source) = cache[d.source].updatedAt /\ cache[d.source] # None
      BY <2>2 DEF UpdatedAt, Verified
    <2>7. cache[d.source].updatedAt \in Nat
      <3>1. cache \in Cache /\ d.source \in Queries
        BY <1>2, <2>2
      <3> HIDE DEF d
      <3>2. cache[d.source] \in Entries
        BY <2>6, <3>1 DEF Cache
      <3> QED
        BY <3>2 DEF Entries, Revisions
    <2>8. IsFresh(input, d.source, cache[d.source].value)
      BY <2>2 DEF FreshInv, EntryOk, Verified
    <2>9. ~(UpdatedAt(d.source) > d.last) => IsFresh(input, d.source, vals[a.next])
      <3>1. ~(UpdatedAt(d.source) > d.last) => cache[d.source].updatedAt <= d.last
        <4>1. d.last \in Nat
          BY <2>4
        <4> HIDE DEF d
        <4> QED
          BY <2>6, <2>7, <4>1
      <3>2. cache[d.source].updatedAt <= d.last => cache[d.source].value = vals[a.next]
        BY <2>2, <2>4, <2>6 DEF DepOk
      <3> QED
        BY <2>8, <3>1, <3>2
    <2>10. ~(UpdatedAt(d.source) > d.last) => Midway(input, q, SubSeq(vals, 1, a.next))
      BY <1>1, <2>1, <2>2, <2>3, <2>5, <2>9, NextMidway
    <2> QED
      BY <2>1, <2>3, <2>5, <2>10, ChangedFresh
  <1>11. CASE Stamp(t)
    <2> DEFINE b == [a EXCEPT !.phase = "mark", !.rev = revision]
    <2>1. /\ stack[t] # <<>> /\ a.phase = "stamp" /\ Goto(t, b)
          /\ UNCHANGED <<revision, input, setting, cache, cycle, answer>>
      BY <1>11 DEF Stamp, At
    <2>2. Formed(b) /\ b.query = q
      <3>1. Formed(a) /\ a.phase \in Validating /\ revision \in Revisions \ {0}
        BY <1>1, <1>2, <2>1 DEF Validating
      <3> QED
        BY <3>1, StampFormed
    <2>3. Sound(cache, revision, input, b)
      <3>1. a \in Activations /\ Sound(cache, revision, input, a)
        BY <1>1, <2>1
      <3> QED
        BY <2>1, <3>1, StampSound
    <2> HIDE DEF b
    <2> QED
      BY <2>1, <2>2, <2>3, GotoFresh
  <1>12. CASE LoadRevision(t)
    <2> DEFINE b == [a EXCEPT !.phase = "store", !.rev = revision]
    <2>1. /\ stack[t] # <<>> /\ a.phase = "load" /\ Goto(t, b)
          /\ UNCHANGED <<revision, input, setting, cache, cycle, answer>>
      BY <1>12 DEF LoadRevision, At
    <2>2. Formed(b) /\ b.query = q
      BY <1>1, <1>2, <2>1, StampFormed
    <2>3. Sound(cache, revision, input, b)
      <3>1. a \in Activations /\ Sound(cache, revision, input, a)
        BY <1>1, <2>1
      <3> QED
        BY <2>1, <3>1, StampSound
    <2> HIDE DEF b
    <2> QED
      BY <2>1, <2>2, <2>3, GotoFresh
  <1>13. CASE ReadInput(t)
    <2> DEFINE i == NextRead(a.query, a.vals)
               b == Delivered(a, i, input[i].revision, input[i].value)
    <2>1. /\ stack[t] # <<>> /\ a.phase = "compute" /\ i \in Inputs
          /\ UNCHANGED <<revision, input, setting, cache, cycle, answer>>
          /\ stack' = [stack EXCEPT ![t] =
                Deliver(recordDep(stack[t], i, input[i].revision), input[i].value)]
      BY <1>13 DEF ReadInput, At
    <2>2. input[i].revision \in Revisions /\ input[i].value \in Values
          /\ input[i].revision <= revision
      BY <1>1, <1>2, <2>1 DEF Contents, StampsUpTo
    <2>3. Sound(cache, revision, input, b)
      BY <1>1, <1>2, <2>1, <2>2, ReadInputSound
    <2>4. Formed(b) /\ b.query = q
      BY <1>1, <2>1, <2>2, DeliveredFormed
    <2>5. Deliver(recordDep(stack[t], i, input[i].revision), input[i].value) = Update(stack[t], b)
      BY <1>1, <2>1, <2>2, DeliverIs
    <2> HIDE DEF b, i
    <2>6. Goto(t, b)
      BY <2>1, <2>5 DEF Goto
    <2> QED
      BY <2>1, <2>3, <2>4, <2>6, GotoFresh
  <1>14. CASE ReadQuery(t)
    <2> DEFINE p == NextRead(a.query, a.vals)
    <2>1. /\ stack[t] # <<>> /\ a.phase = "compute" /\ p \in Queries
          /\ UNCHANGED <<revision, input, setting, cache, cycle, answer>>
          /\ stack' = [stack EXCEPT ![t] = Append(stack[t], Activation(t, p))]
      BY <1>14 DEF ReadQuery, At
    <2>2. rank[p] < rank[q]
      BY <1>1, <2>1 DEF Ranked, Activations
    <2>3. Linked(a, [query |-> p])
      BY <2>1 DEF Linked
    <2> HIDE DEF p
    <2> QED
      BY <1>0, <1>1, <2>1, <2>2, <2>3, PushFresh
  <1>15. CASE Computed(t)
    <2> DEFINE v == Combine(a.query, a.vals)
               b == [a EXCEPT !.phase = "load", !.vals = <<>>, !.value = v]
    <2>1. /\ stack[t] # <<>> /\ a.phase = "compute" /\ Goto(t, b)
          /\ NextRead(a.query, a.vals) = None
          /\ UNCHANGED <<revision, input, setting, cache, cycle, answer>>
      BY <1>15 DEF Computed, At
    <2>2. v \in Values
      BY <1>1, <2>1 DEF Typed, Activations
    <2>3. Sound(cache, revision, input, b)
      BY <1>1, <2>1, ComputedSound
    <2> HIDE DEF v
    <2>4. Formed(b) /\ b.query = q
      BY <1>1, <2>1, <2>2, LoadFormed
    <2> HIDE DEF b
    <2> QED
      BY <2>1, <2>3, <2>4, GotoFresh
  <1>16. CASE ComputePanics(t)
    <2>1. /\ stack[t] # <<>> /\ UNCHANGED <<revision, input, setting, cache, answer>>
          /\ stack' = [stack EXCEPT ![t] = <<>>]
          /\ \E x : cycle' = [cycle EXCEPT ![t] = @ \ x]
      BY <1>16 DEF ComputePanics, At, Unwind
    <2>2. \A u \in Threads : cycle'[u] = {}
      BY <1>3, <2>1 DEF TypeOK
    <2>3. Good(rank, cache, revision, input, <<>>)
      BY EmptyGood
    <2> QED
      BY <1>1, <2>1, <2>2, <2>3, LocalStep
  <1>17. CASE MarkVerified(t)
    <2> DEFINE e == [cache[q] EXCEPT !.verifiedAt = revision]
    <2>1. /\ stack[t] # <<>> /\ a.phase = "mark"
          /\ UNCHANGED <<revision, input, setting, cycle>>
          /\ Return(t, a.entry.value, a.entry.updatedAt)
          /\ cache' = IF cache[q] = None THEN cache
                      ELSE [cache EXCEPT ![q].verifiedAt = a.rev]
      BY <1>17 DEF MarkVerified, At
    <2>2. /\ Held(cache, revision, input, q, a.entry) /\ a.rev = revision
          /\ IsFresh(input, q, a.entry.value)
      BY <1>1, <2>1 DEF Sound, Validating
    <2>3. a.entry \in Entries
      BY <1>1, <2>1 DEF Formed, Activations, Validating
    <2>4. a.entry.value \in Values /\ a.entry.updatedAt \in Revisions /\ a.entry.updatedAt <= revision
      BY <2>2, <2>3 DEF Entries, Held
    <2>5. cache[q] # None /\ cache[q] \in Entries
      BY <1>1, <1>2, <2>1, <2>2 DEF Held, Cache
    <2>6. e \in Entries /\ e # None
      BY <1>2, <2>5, NoneAssumption DEF Entries
    <2>7. /\ e.verifiedAt = revision /\ e.value = cache[q].value
          /\ e.updatedAt = cache[q].updatedAt /\ e.deps = cache[q].deps
      BY <2>5 DEF Entries
    <2>8. IsFresh(input, q, cache[q].value)
      BY <1>1, <2>1, <2>2 DEF Held, EntryOk, Verified
    <2>9. cache' = [cache EXCEPT ![q] = e]
      BY <2>1, <2>2, <2>5
    <2> HIDE DEF e
    <2>10. cache'[q] = e /\ cache' \in Cache /\ \A p \in Queries : p # q => cache'[p] = cache[p]
      BY <1>1, <1>2, <2>1, <2>6, <2>9 DEF Cache
    <2>11. Refreshed(cache, cache', revision, input) /\ Verified(cache', revision, q)
      BY <2>5, <2>6, <2>7, <2>8, <2>10 DEF Refreshed, Verified
    <2>12. \E vals : Supports(cache, revision, input, q, e.deps, e.value, vals)
      BY <1>1, <2>1, <2>5, <2>7 DEF EntryOk
    <2>13. e.updatedAt <= revision
      BY <1>1, <2>1, <2>5, <2>7 DEF StampsUpTo
    <2>14. a.phase # "compute" /\ \A u \in Threads : cycle'[u] = {}
      BY <1>3, <2>1
    <2>15. \A p \in Queries : cache'[p] # cache[p] =>
              /\ \E vals : Supports(cache, revision, input, p, cache'[p].deps, cache'[p].value, vals)
              /\ cache'[p].updatedAt <= revision
      BY <2>10, <2>12, <2>13
    <2> QED
      BY <2>1, <2>2, <2>4, <2>10, <2>11, <2>14, <2>15, ReturnFresh
  <1>18. CASE Store(t)
    <2> DEFINE e == updateCacheEntry(a, a.value)
    <2>1. stack[t] # <<>> /\ a.phase = "store" /\ UNCHANGED <<revision, input, setting>>
      BY <1>18 DEF Store, At
    <2>2. q \notin cycle[t]
      BY <1>3
    <2>3. Widened(a, q \in cycle[t]) = a.value
      BY <2>2 DEF Widened
    <2>4. /\ cache' = [cache EXCEPT ![q] = e]
          /\ Return(t, a.value, e.updatedAt)
          /\ cycle' = [cycle EXCEPT ![t] = @ \ {q}]
      BY <1>18, <2>2, <2>3 DEF Store
    <2>5. e \in Entries /\ e.updatedAt \in Revisions
      BY <1>1, <2>1, <2>3, StoredIs
    <2>6. /\ a.rev = revision /\ IsFresh(input, q, a.value)
          /\ \E vals : Supports(cache, revision, input, q, a.deps, a.value, vals)
      BY <1>1, <2>1 DEF Sound
    <2>7. /\ e.verifiedAt = revision /\ e.value = a.value /\ e.deps = a.deps
          /\ \/ e.updatedAt = revision
             \/ /\ cache[q] # None /\ e.value = cache[q].value
                /\ e.updatedAt = cache[q].updatedAt
      BY <2>6 DEF updateCacheEntry
    <2> HIDE DEF e
    <2>8. e # None
      BY <2>5, NoneAssumption
    <2>9. cache'[q] = e /\ cache' \in Cache /\ \A p \in Queries : p # q => cache'[p] = cache[p]
      BY <1>1, <1>2, <2>1, <2>4, <2>5 DEF Cache
    <2>10. Refreshed(cache, cache', revision, input) /\ Verified(cache', revision, q)
      BY <2>6, <2>7, <2>8, <2>9 DEF Refreshed, Verified
    <2>11. e.updatedAt <= revision
      BY <1>1, <1>2, <2>1, <2>7 DEF StampsUpTo
    <2>12. a.phase # "compute" /\ \A u \in Threads : cycle'[u] = {}
      BY <1>3, <2>1, <2>4 DEF TypeOK
    <2>13. \A p \in Queries : cache'[p] # cache[p] =>
              /\ \E vals : Supports(cache, revision, input, p, cache'[p].deps, cache'[p].value, vals)
              /\ cache'[p].updatedAt <= revision
      BY <2>6, <2>7, <2>9, <2>11
    <2>14. a.value \in Values
      BY <1>1, <2>1 DEF Activations
    <2> QED
      BY <2>1, <2>4, <2>5, <2>6, <2>9, <2>10, <2>11, <2>12, <2>13, <2>14, ReturnFresh
  <1> QED
    BY <1>5, <1>7, <1>8, <1>9, <1>10, <1>11, <1>12, <1>13, <1>14, <1>15, <1>16, <1>17, <1>18
    DEF Step

-----------------------------------------------------------------------------
(* Set and Clear, between the Gets.                                        *)

\* The entries stay supported if the dependencies still stand for their values.
LEMMA SupportsKept ==
    ASSUME NEW c, NEW r, NEW in, NEW c2, NEW r2, NEW in2,
           NEW q, NEW deps, NEW value, NEW vals, Supports(c, r, in, q, deps, value, vals),
           \A k \in 1 .. Len(deps) : \A v :
              deps[k] \in Deps /\ DepOk(c, r, in, deps[k], v) => DepOk(c2, r2, in2, deps[k], v)
    PROVE  Supports(c2, r2, in2, q, deps, value, vals)
  <1>1. ASSUME NEW k \in 1 .. Len(vals) PROVE DepOk(c2, r2, in2, deps[k], vals[k])
    <2>1. k \in 1 .. Len(deps) /\ deps[k] \in Deps /\ DepOk(c, r, in, deps[k], vals[k])
      BY DEF Supports, Backed
    <2> QED
      BY <2>1
  <1> QED
    BY <1>1 DEF Supports, Backed

\* Nothing is to be known while no Get runs.
LEMMA IdleGood ==
    ASSUME Idle, NEW rank
    PROVE  \A c, r, in : \A t \in Threads : Good(rank, c, r, in, stack[t])
  BY EmptyGood DEF Idle

\* Set bumps the revision: from then on no entry is verified.
LEMMA SetBumpFresh ==
    ASSUME Exclusive, TypeOK, NEW rank, FreshInv(rank),
           NEW i \in Inputs, NEW v \in Values, SetBump(i, v)
    PROVE  FreshInv(rank)'
  <1> DEFINE r == revision
  <1>1. /\ setting = None /\ Idle /\ r \in Nat /\ revision' = r + 1 /\ answer' = None
        /\ setting' = [source |-> i, value |-> v]
        /\ UNCHANGED <<input, cache, stack, cycle>>
    BY DEF SetBump, TypeOK, Revisions
  <1>2. setting' # None
    <2>1. setting' \in Sets
      BY <1>1 DEF Sets
    <2> QED
      BY <2>1, NoneAssumption
  <1>3. Now = r /\ Now' = r
    BY <1>1, <1>2 DEF Now
  <1>4. StampsUpTo(cache, input, r)
    BY <1>3 DEF FreshInv
  <1>5. ASSUME NEW q \in Queries PROVE EntryOk(cache, r + 1, input, q)
    <2> SUFFICES ASSUME cache[q] # None
                 PROVE  /\ \E vals : Supports(cache, r + 1, input, q, cache[q].deps, cache[q].value, vals)
                        /\ cache[q].verifiedAt # r + 1
      BY DEF EntryOk
    <2>1. PICK vals : Supports(cache, r, input, q, cache[q].deps, cache[q].value, vals)
      BY DEF FreshInv, EntryOk
    <2>2. ASSUME NEW d \in Deps, NEW w, DepOk(cache, r, input, d, w)
          PROVE  DepOk(cache, r + 1, input, d, w)
      <3>1. d.last \in Nat /\ d.last <= r
        BY <2>2 DEF Deps, Revisions, DepOk
      <3>2. d.last <= r + 1 /\ d.last # r + 1
        BY <1>1, <3>1
      <3> QED
        BY <2>2, <3>2 DEF DepOk
    <2>3. Supports(cache, r + 1, input, q, cache[q].deps, cache[q].value, vals)
      BY <2>1, <2>2, SupportsKept
    <2>4. cache[q].verifiedAt \in Nat /\ cache[q].verifiedAt <= r
      BY <1>4 DEF StampsUpTo, TypeOK, Entries, Revisions
    <2> QED
      BY <1>1, <2>3, <2>4
  <1>6. \A t \in Threads : Good(rank, cache, r + 1, input, stack[t])
    BY <1>1, IdleGood
  <1>7. Idle' /\ \A t \in Threads : cycle'[t] = {}
    BY <1>1 DEF Idle, FreshInv
  <1>8. /\ StampsUpTo(cache', input', Now')
        /\ \A q \in Queries : EntryOk(cache', revision', input', q)
        /\ \A t \in Threads : Good(rank, cache', revision', input', stack'[t])
    BY <1>1, <1>3, <1>4, <1>5, <1>6
  <1> QED
    BY <1>1, <1>7, <1>8 DEF FreshInv

\* Set stores the value, newer than every recorded dependency.
LEMMA SetStoreFresh ==
    ASSUME TypeOK, NEW rank, FreshInv(rank), SetStore
    PROVE  FreshInv(rank)'
  <1> DEFINE r == revision
             i == setting.source
             in2 == [input EXCEPT ![i] = [value |-> setting.value, revision |-> r]]
  <1>1. /\ setting # None /\ Idle /\ answer' = None /\ r \in Nat /\ setting' = None
        /\ input' = in2 /\ UNCHANGED <<revision, cache, stack, cycle>>
    BY DEF SetStore, FreshInv, TypeOK, Revisions
  <1>2. i \in Inputs
    BY <1>1 DEF TypeOK, Sets
  <1>3. in2[i].revision = r /\ \A j \in Inputs : j # i => in2[j] = input[j]
    BY <1>2 DEF TypeOK
  <1>4. Now = r - 1 /\ Now' = r
    BY <1>1 DEF Now
  <1>5. StampsUpTo(cache, input, r - 1)
    BY <1>4 DEF FreshInv
  <1> HIDE DEF in2, i
  <1>6. StampsUpTo(cache, in2, r)
    <2>1. ASSUME NEW j \in Inputs PROVE in2[j].revision <= r
      <3>1. input[j].revision \in Nat /\ input[j].revision <= r - 1
        BY <1>5 DEF StampsUpTo, TypeOK, Revisions
      <3>2. CASE j = i
        BY <1>1, <1>3, <3>2
      <3>3. CASE j # i
        BY <1>1, <1>3, <3>1, <3>3
      <3> QED
        BY <3>2, <3>3
    <2>2. ASSUME NEW q \in Queries, cache[q] # None
          PROVE  /\ cache[q].verifiedAt <= r
                 /\ cache[q].updatedAt <= r
                 /\ \A k \in 1 .. Len(cache[q].deps) : cache[q].deps[k].last <= r
      <3>1. cache[q] \in Entries
        BY <2>2 DEF TypeOK
      <3>2. cache[q].verifiedAt \in Nat /\ cache[q].updatedAt \in Nat /\ cache[q].deps \in Seq(Deps)
        BY <3>1 DEF Entries, Revisions
      <3>3. ASSUME NEW k \in 1 .. Len(cache[q].deps) PROVE cache[q].deps[k].last \in Nat
        <4>1. cache[q].deps[k] \in Deps
          BY <3>2
        <4> QED
          BY <4>1 DEF Deps, Revisions
      <3>4. /\ cache[q].verifiedAt <= r - 1
            /\ cache[q].updatedAt <= r - 1
            /\ \A k \in 1 .. Len(cache[q].deps) : cache[q].deps[k].last <= r - 1
        BY <1>5, <2>2 DEF StampsUpTo
      <3> QED
        BY <1>1, <3>2, <3>3, <3>4
    <2> QED
      BY <2>1, <2>2 DEF StampsUpTo
  <1>7. ASSUME NEW q \in Queries PROVE EntryOk(cache, r, in2, q)
    <2> SUFFICES ASSUME cache[q] # None
                 PROVE  /\ \E vals : Supports(cache, r, in2, q, cache[q].deps, cache[q].value, vals)
                        /\ cache[q].verifiedAt # r
      BY DEF EntryOk
    <2>1. PICK vals : Supports(cache, r, input, q, cache[q].deps, cache[q].value, vals)
      BY DEF FreshInv, EntryOk
    <2>2. \A k \in 1 .. Len(cache[q].deps) : cache[q].deps[k].last <= r - 1
      BY <1>5 DEF StampsUpTo
    <2>3. ASSUME NEW d \in Deps, d.last <= r - 1, NEW w, DepOk(cache, r, input, d, w)
          PROVE  DepOk(cache, r, in2, d, w)
      <3>1. d.last \in Nat
        BY DEF Deps, Revisions
      <3>2. d.last # r /\ ~(r <= d.last)
        BY <1>1, <2>3, <3>1
      <3>3. d.source \in Inputs /\ in2[d.source].revision <= d.last => in2[d.source].value = w
        <4>1. CASE d.source = i
          BY <1>3, <3>2, <4>1
        <4>2. CASE d.source # i
          BY <1>3, <2>3, <4>2 DEF DepOk
        <4> QED
          BY <4>1, <4>2
      <3> QED
        BY <2>3, <3>2, <3>3 DEF DepOk
    <2>4. Supports(cache, r, in2, q, cache[q].deps, cache[q].value, vals)
      BY <2>1, <2>2, <2>3, SupportsKept
    <2>5. cache[q].verifiedAt \in Nat /\ cache[q].verifiedAt <= r - 1
      BY <1>5 DEF StampsUpTo, TypeOK, Entries, Revisions
    <2> QED
      BY <1>1, <2>4, <2>5
  <1>8. \A t \in Threads : Good(rank, cache, r, in2, stack[t])
    BY <1>1, IdleGood
  <1>9. \A t \in Threads : cycle'[t] = {}
    BY <1>1 DEF FreshInv
  <1>10. /\ StampsUpTo(cache', input', Now')
         /\ \A q \in Queries : EntryOk(cache', revision', input', q)
         /\ \A t \in Threads : Good(rank, cache', revision', input', stack'[t])
    BY <1>1, <1>4, <1>6, <1>7, <1>8
  <1> QED
    BY <1>1, <1>9, <1>10 DEF FreshInv

\* Clear drops an entry.
LEMMA ClearFresh ==
    ASSUME Exclusive, TypeOK, NEW rank, FreshInv(rank), NEW p \in Queries, Clear(p)
    PROVE  FreshInv(rank)'
  <1> DEFINE c2 == [cache EXCEPT ![p] = None]
  <1>1. /\ Idle /\ answer' = None /\ cache' = c2
        /\ UNCHANGED <<revision, input, setting, stack, cycle>>
    BY DEF Clear
  <1>2. c2[p] = None /\ \A q \in Queries : q # p => c2[q] = cache[q]
    BY DEF TypeOK
  <1> HIDE DEF c2
  <1>3. \A q \in Queries : c2[q] # None => c2[q] = cache[q] /\ cache[q] # None
    BY <1>2
  <1>4. StampsUpTo(c2, input, Now)
    BY <1>3 DEF FreshInv, StampsUpTo
  <1>5. ASSUME NEW q \in Queries PROVE EntryOk(c2, revision, input, q)
    <2> SUFFICES ASSUME c2[q] # None PROVE EntryOk(c2, revision, input, q)
      BY DEF EntryOk
    <2>1. c2[q] = cache[q] /\ cache[q] # None
      BY <1>3
    <2>2. PICK vals : Supports(cache, revision, input, q, cache[q].deps, cache[q].value, vals)
      BY <2>1 DEF FreshInv, EntryOk
    <2>3. ASSUME NEW d \in Deps, NEW w, DepOk(cache, revision, input, d, w)
          PROVE  DepOk(c2, revision, input, d, w)
      BY <1>3, <2>3 DEF DepOk
    <2>4. Supports(c2, revision, input, q, cache[q].deps, cache[q].value, vals)
      BY <2>2, <2>3, SupportsKept
    <2> QED
      BY <2>1, <2>4 DEF FreshInv, EntryOk
  <1>6. \A t \in Threads : Good(rank, c2, revision, input, stack[t])
    BY <1>1, IdleGood
  <1>7. Idle' /\ \A t \in Threads : cycle'[t] = {}
    BY <1>1 DEF Idle, FreshInv
  <1>8. Now' = Now
    BY <1>1 DEF Now
  <1>9. /\ StampsUpTo(cache', input', Now')
        /\ \A q \in Queries : EntryOk(cache', revision', input', q)
        /\ \A t \in Threads : Good(rank, cache', revision', input', stack'[t])
    BY <1>1, <1>4, <1>5, <1>6, <1>8
  <1> QED
    BY <1>1, <1>7, <1>9 DEF FreshInv

\* The invariant holds at the start.
LEMMA InitFresh ==
    ASSUME Init, NEW rank
    PROVE  FreshInv(rank)
  <1>1. Idle /\ \A t \in Threads : cycle[t] = {}
    BY DEF Init, Idle
  <1>2. StampsUpTo(cache, input, Now)
    BY DEF Init, StampsUpTo, Now
  <1>3. \A q \in Queries : EntryOk(cache, revision, input, q)
    BY DEF Init, EntryOk
  <1>4. \A t \in Threads : Good(rank, cache, revision, input, stack[t])
    BY <1>1, IdleGood
  <1> QED
    BY <1>1, <1>2, <1>3, <1>4 DEF FreshInv, Init

\* Every step keeps the invariant.
LEMMA NextFresh ==
    ASSUME Exclusive, Typed, WellDefined, NEW rank, Ranked(rank),
           TypeOK, Stacks, FreshInv(rank), [Next]_vars
    PROVE  FreshInv(rank)'
  <1>1. ASSUME NEW t \in Threads, NEW q \in Queries, Get(t, q) PROVE FreshInv(rank)'
    <2>1. /\ stack[t] = <<>> /\ setting = None /\ answer' = None
          /\ UNCHANGED <<revision, input, setting, cache, cycle>>
          /\ stack' = [stack EXCEPT ![t] = <<Activation(t, q)>>]
      BY <1>1 DEF Get
    <2>2. <<Activation(t, q)>> = Append(<<>>, Activation(t, q))
      OBVIOUS
    <2>3. stack' = [stack EXCEPT ![t] = Append(stack[t], Activation(t, q))]
      BY <2>1, <2>2
    <2>4. rank \in [Queries -> Nat]
      BY DEF Ranked
    <2> QED
      BY <2>1, <2>3, <2>4, PushFresh
  <1>2. CASE UNCHANGED vars
    <2>1. /\ revision' = revision /\ input' = input /\ setting' = setting /\ cache' = cache
          /\ stack' = stack /\ cycle' = cycle /\ answer' = answer
      BY <1>2 DEF vars
    <2> QED
      BY <2>1, Zenon DEF FreshInv, Now, Idle
  <1> QED
    BY <1>1, <1>2, SetBumpFresh, SetStoreFresh, ClearFresh, StepFresh DEF Next

-----------------------------------------------------------------------------
(* The theorems.                                                           *)

\* The callers keep Set and Clear apart from Get, the compute functions end and
\* none depends on itself.
Hypotheses ==
    /\ Exclusive
    /\ Typed
    /\ WellDefined
    /\ \E rank : Ranked(rank)

\* The invariant is about the Fresh of QueryDB.
LEMMA FreshFollows ==
    ASSUME WellDefined, TypeOK, NEW rank, FreshInv(rank)
    PROVE  AnswerIsFresh /\ VerifiedIsFresh
  <1>1. Solves(Fresh, input)
    BY FreshSolves DEF TypeOK, Contents
  <1> HIDE DEF Fresh
  <1>2. AnswerIsFresh
    BY <1>1 DEF FreshInv, IsFresh, AnswerIsFresh
  <1>3. VerifiedIsFresh
    BY <1>1 DEF FreshInv, EntryOk, IsFresh, VerifiedIsFresh
  <1> QED
    BY <1>2, <1>3

\* Get returns what computing everything again would return, whatever the query
\* graph, however many goroutines ask at once and whichever computations panic.
THEOREM AnswersFresh ==
    ASSUME Hypotheses
    PROVE  Spec => []AnswerIsFresh
  <1>1. PICK rank : Ranked(rank)
    BY DEF Hypotheses
  <1> DEFINE Inv == TypeOK /\ Stacks /\ FreshInv(rank)
  <1>2. Init => Inv
    BY InitTypes, InitFresh
  <1>3. Inv /\ [Next]_vars => Inv'
    BY <1>1, NextTypes, NextFresh DEF Hypotheses
  <1>4. Inv => AnswerIsFresh
    BY FreshFollows DEF Hypotheses
  <1> HIDE DEF Inv
  <1> QED
    BY <1>2, <1>3, <1>4, PTL DEF Spec

\* The entries the fast path returns without looking further are those computed
\* from the present inputs.
THEOREM VerifiedFresh ==
    ASSUME Hypotheses
    PROVE  Spec => []VerifiedIsFresh
  <1>1. PICK rank : Ranked(rank)
    BY DEF Hypotheses
  <1> DEFINE Inv == TypeOK /\ Stacks /\ FreshInv(rank)
  <1>2. Init => Inv
    BY InitTypes, InitFresh
  <1>3. Inv /\ [Next]_vars => Inv'
    BY <1>1, NextTypes, NextFresh DEF Hypotheses
  <1>4. Inv => VerifiedIsFresh
    BY FreshFollows DEF Hypotheses
  <1> HIDE DEF Inv
  <1> QED
    BY <1>2, <1>3, <1>4, PTL DEF Spec

=============================================================================
