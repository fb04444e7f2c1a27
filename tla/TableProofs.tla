----------------------------- MODULE TableProofs -----------------------------
(***************************************************************************)
(* Theorems about Table, for arrays, gaps, keys and values of any number:  *)
(* the array and hash parts are the map of TableMap, whatever migrates     *)
(* between them; and about next(): a loop that only changes and clears     *)
(* fields answers each field once, and the order of traversal does not     *)
(* outgrow the fields it lists.                                            *)
(***************************************************************************)
EXTENDS Table, FiniteSetTheorems, WellFoundedInduction, TLAPS

\* Append does not look at the limit of the array part, so the caller keeps
\* below it.
BelowLimit == MaxLen < MaxArrayIndex

-----------------------------------------------------------------------------
(* The shape of a table.                                                   *)

\* The fields of an LTable.
Fields == {"arr", "made", "str", "dict", "hasDict", "sparse", "keys", "k2i", "ordered"}

\* The keys of strdict,
StrKeys == {<<"str", s>> : s \in Strings}
\* the keys of dict that are no positions,
RestKeys == {<<"int", n>> : n \in {0, MaxArrayIndex}} \cup {<<"ref", r>> : r \in Refs}
\* all keys of dict,
DictKeys == ArrayKeys \cup RestKeys
\* and all keys of the hash parts.
HashKeys == StrKeys \cup DictKeys

\* The parts of a table: present fields of the right keys, an array within its limit.
Shape(t) ==
    /\ DOMAIN t = Fields
    /\ t.arr \in Seq(Values \cup {Nil})
    /\ Len(t.arr) < MaxArrayIndex
    /\ \A k \in DOMAIN t.str : k \in StrKeys /\ t.str[k] \in Values
    /\ \A k \in DOMAIN t.dict : k \in DictKeys /\ t.dict[k] \in Values

\* Positions are hashed only past the array, and not where the array would go on.
Beyond(t) == \A n \in Positions : <<"flt", n>> \in DOMAIN t.dict => n > Len(t.arr)
\* The same after migration: the array would not go on with a hashed position.
Apart(t) == \A n \in Positions : <<"flt", n>> \in DOMAIN t.dict => n > Len(t.arr) + 1

\* u holds the fields of t, wherever its order of traversal has them.
SameData(t, u) ==
    /\ DOMAIN u = Fields
    /\ u.arr = t.arr /\ u.str = t.str /\ u.dict = t.dict

\* g is f without the entries of S.
Dropped(f, g, S) ==
    /\ DOMAIN g = DOMAIN f \ S
    /\ \A k \in DOMAIN g : g[k] = f[k]

\* The order of traversal is no part of the shape.
LEMMA ShapeKept ==
    ASSUME NEW t, NEW u, Shape(t), SameData(t, u)
    PROVE  Shape(u)
  BY DEF Shape, SameData

\* A set of naturals has a smallest element.
LEMMA SmallestExists ==
    ASSUME NEW T \in SUBSET Nat, T # {}
    PROVE  \E x \in T : \A y \in T : x <= y
  <1> DEFINE less == OpToRel(<, Nat)
  <1>1. IsWellFoundedOn(less, Nat)
    BY NatLessThanWellFounded
  <1>2. \A y, x \in Nat : y < x => <<y, x>> \in less
    BY DEF OpToRel
  <1> HIDE DEF less
  <1>3. T \subseteq Nat
    OBVIOUS
  <1>4. PICK x \in T : \A y \in T : ~ (<<y, x>> \in less)
    BY <1>1, <1>3, WFMin, Zenon
  <1>5. ASSUME NEW y \in T PROVE x <= y
    <2>1. x \in Nat /\ y \in Nat
      BY <1>3
    <2>2. ~ (y < x)
      BY <1>2, <1>4, <2>1
    <2> QED
      BY <2>1, <2>2
  <1> QED
    BY <1>5

\* Keys of different Go types differ.
LEMMA KeysApart ==
    /\ \A n \in Positions : <<"flt", n>> \notin StrKeys \cup RestKeys
    /\ \A n, m \in Positions : <<"flt", n>> = <<"flt", m>> => n = m
    /\ \A k \in StrKeys : k \notin DictKeys
    /\ \A k \in RestKeys : k \notin ArrayKeys
  BY DEF StrKeys, RestKeys, DictKeys, ArrayKeys, Positions

\* numericTableKey leaves the keys of the hash parts as they are.
LEMMA KeysCanonical ==
    ASSUME NEW k \in HashKeys
    PROVE  numericTableKey(k) = k
  <1> USE SizeAssumption
  <1>1. CASE k \in StrKeys
    BY <1>1 DEF StrKeys, numericTableKey
  <1>2. CASE k \in ArrayKeys
    BY <1>2 DEF ArrayKeys, numericTableKey
  <1>3. CASE k \in RestKeys
    BY <1>3 DEF RestKeys, numericTableKey, Positions
  <1> QED
    BY <1>1, <1>2, <1>3 DEF HashKeys, DictKeys

\* What the table answers, by where the fields are.
LEMMA ReadStr ==
    ASSUME NEW t, Shape(t), NEW k \in StrKeys
    PROVE  RawGetH(t, k) = IF k \in DOMAIN t.str THEN t.str[k] ELSE Nil
  <1>1. numericTableKey(k) = k
    BY KeysCanonical DEF HashKeys
  <1>2. k \notin DOMAIN t.dict
    BY KeysApart DEF Shape
  <1> QED
    BY <1>1, <1>2 DEF RawGetH

\* Reading by a key of dict.
LEMMA ReadDict ==
    ASSUME NEW t, Shape(t), NEW k \in DictKeys
    PROVE  RawGetH(t, k) = IF k \in DOMAIN t.dict THEN t.dict[k] ELSE Nil
  <1>1. numericTableKey(k) = k
    BY KeysCanonical DEF HashKeys
  <1>2. k \notin DOMAIN t.str
    BY KeysApart DEF Shape
  <1> QED
    BY <1>1, <1>2 DEF RawGetH

\* Reading by a position: the array first, then dict.
LEMMA ReadPosition ==
    ASSUME NEW t, Shape(t), NEW n \in Positions
    PROVE  getIntKey(t, n) = IF n <= Len(t.arr) THEN t.arr[n]
                             ELSE IF <<"flt", n>> \in DOMAIN t.dict THEN t.dict[<<"flt", n>>]
                             ELSE Nil
  <1>1. <<"flt", n>> \in DictKeys
    BY DEF DictKeys, ArrayKeys
  <1>2. RawGetH(t, <<"flt", n>>) =
            IF <<"flt", n>> \in DOMAIN t.dict THEN t.dict[<<"flt", n>>] ELSE Nil
    BY <1>1, ReadDict
  <1> QED
    BY <1>2 DEF getIntKey

-----------------------------------------------------------------------------
(* The order of traversal does not touch the fields.                       *)

\* Deleting a key from the order of traversal changes no field,
LEMMA DeleteKeepsData ==
    ASSUME NEW t, DOMAIN t = Fields, NEW k
    PROVE  SameData(t, deleteIterationKey(t, k))
  BY DEF SameData, deleteIterationKey, Fields

\* nor does compacting the order,
LEMMA CompactedKeepsData ==
    ASSUME NEW t, DOMAIN t = Fields
    PROVE  SameData(t, compacted(t))
  BY DEF SameData, compacted, Fields

\* adding a key to it,
LEMMA AddKeepsData ==
    ASSUME NEW t, DOMAIN t = Fields, NEW k
    PROVE  SameData(t, addIterationKey(t, k))
  <1>1. SameData(t, compacted(t)) /\ SameData(t, t)
    BY CompactedKeepsData DEF SameData
  <1>2. PICK u : /\ SameData(t, u)
                 /\ \/ addIterationKey(t, k) = t
                    \/ addIterationKey(t, k) =
                         [u EXCEPT !.k2i = With(@, k, Len(u.keys) + 1), !.keys = Append(@, k)]
    BY <1>1 DEF addIterationKey
  <1> QED
    BY <1>1, <1>2 DEF SameData, Fields

\* forgetting slots of positions,
LEMMA ForgetKeepsData ==
    ASSUME NEW t, DOMAIN t = Fields, NEW ns
    PROVE  SameData(t, forgetDeletedArrayKey(t, ns))
  BY DEF SameData, forgetDeletedArrayKey, Fields

\* or dropping an empty hash part.
LEMMA ReleaseKeepsData ==
    ASSUME NEW t, DOMAIN t = Fields
    PROVE  SameData(t, releaseEmptySparseHash(t))
  BY DEF SameData, releaseEmptySparseHash, Fields

-----------------------------------------------------------------------------
(* What the writing operations do to the fields.                           *)

\* Positions, and other keys, read the same in t and u.
PositionsSame(t, u) == \A n \in Positions : getIntKey(u, n) = getIntKey(t, n)
\* t and u agree on all keys that are no positions.
OthersSame(t, u) == \A k \in OtherKeys : RawGetH(u, k) = RawGetH(t, k)

\* The keys that are no positions.
LEMMA OtherForms == OtherKeys = StrKeys \cup RestKeys
  BY DEF OtherKeys, StrKeys, RestKeys

\* Other keys read the same if only positions moved.
LEMMA OthersFollow ==
    ASSUME NEW t, NEW u, Shape(t), Shape(u), u.str = t.str,
           \A k \in RestKeys : k \in DOMAIN u.dict <=> k \in DOMAIN t.dict,
           \A k \in RestKeys : k \in DOMAIN t.dict => u.dict[k] = t.dict[k]
    PROVE  OthersSame(t, u)
  <1> SUFFICES ASSUME NEW k \in OtherKeys PROVE RawGetH(u, k) = RawGetH(t, k)
    BY DEF OthersSame
  <1>1. CASE k \in StrKeys
    BY <1>1, ReadStr
  <1>2. CASE k \in RestKeys
    <2>1. k \in DictKeys
      BY <1>2 DEF DictKeys
    <2> QED
      BY <1>2, <2>1, ReadDict
  <1> QED
    BY <1>1, <1>2, OtherForms

\* Tables with the same data answer the same.
LEMMA SameReads ==
    ASSUME NEW t, NEW u, Shape(t), SameData(t, u)
    PROVE  PositionsSame(t, u) /\ OthersSame(t, u)
  BY DEF SameData, PositionsSame, OthersSame, getIntKey, RawGetH

\* The hashed positions among ns.
Taken(t, ns) == {k \in DOMAIN t.dict : k[1] = "flt" /\ k[2] \in ns}

\* takeHashed removes the given positions from dict.
LEMMA TakeData ==
    ASSUME NEW t, DOMAIN t = Fields, NEW ns
    PROVE  /\ DOMAIN takeHashed(t, ns) = Fields
           /\ takeHashed(t, ns).arr = t.arr
           /\ takeHashed(t, ns).str = t.str
           /\ Dropped(t.dict, takeHashed(t, ns).dict, Taken(t, ns))
  <1> DEFINE f == forgetDeletedArrayKey(t, ns)
             w == [f EXCEPT !.dict = Without(@, Taken(t, ns)),
                            !.k2i = Without(@, Taken(t, ns)),
                            !.keys = [i \in DOMAIN @ |-> IF @[i] \in Taken(t, ns) THEN Dead
                                                         ELSE @[i]]]
  <1>1. SameData(t, f)
    BY ForgetKeepsData
  <1>2. takeHashed(t, ns) = IF Taken(t, ns) = {} THEN f ELSE releaseEmptySparseHash(w)
    BY DEF takeHashed, Taken
  <1> HIDE DEF f
  <1>3. /\ DOMAIN w = Fields /\ w.arr = t.arr /\ w.str = t.str
        /\ w.dict = Without(t.dict, Taken(t, ns))
    BY <1>1 DEF SameData, Fields
  <1> HIDE DEF w
  <1>4. SameData(w, releaseEmptySparseHash(w))
    BY <1>3, ReleaseKeepsData
  <1>5. CASE Taken(t, ns) = {}
    BY <1>1, <1>2, <1>5 DEF SameData, Dropped
  <1>6. CASE Taken(t, ns) # {}
    BY <1>2, <1>3, <1>4, <1>6 DEF SameData, Dropped, Without
  <1> QED
    BY <1>5, <1>6

\* And nothing else.
LEMMA TakenKeys ==
    ASSUME NEW t, Shape(t), NEW ns
    PROVE  /\ \A n \in Positions : <<"flt", n>> \in Taken(t, ns)
                                    <=> <<"flt", n>> \in DOMAIN t.dict /\ n \in ns
           /\ \A k \in RestKeys : k \notin Taken(t, ns)
  BY DEF Taken, RestKeys

\* RawSetH with nil removes the key,
LEMMA SetHNil ==
    ASSUME NEW t, DOMAIN t = Fields, NEW k \in DictKeys
    PROVE  /\ DOMAIN RawSetH(t, k, Nil) = Fields
           /\ RawSetH(t, k, Nil).arr = t.arr
           /\ RawSetH(t, k, Nil).str = t.str
           /\ RawSetH(t, k, Nil).dict = Without(t.dict, {k})
  <1> DEFINE w == [t EXCEPT !.dict = Without(@, {k})]
             d == deleteIterationKey(w, k)
  <1>1. numericTableKey(k) = k /\ k[1] # "str"
    BY KeysCanonical DEF HashKeys, DictKeys, ArrayKeys, RestKeys
  <1>2. RawSetH(t, k, Nil) = releaseEmptySparseHash(d)
    BY <1>1 DEF RawSetH
  <1>3. /\ DOMAIN w = Fields /\ w.arr = t.arr /\ w.str = t.str
        /\ w.dict = Without(t.dict, {k})
    BY DEF Fields
  <1> HIDE DEF w
  <1>4. SameData(w, d)
    BY <1>3, DeleteKeepsData
  <1> HIDE DEF d
  <1>5. SameData(d, releaseEmptySparseHash(d))
    BY <1>4, ReleaseKeepsData DEF SameData
  <1> QED
    BY <1>2, <1>3, <1>4, <1>5 DEF SameData

\* and with a value stores it,
LEMMA SetHValue ==
    ASSUME NEW t, DOMAIN t = Fields, NEW k \in DictKeys, NEW v, v # Nil
    PROVE  /\ DOMAIN RawSetH(t, k, v) = Fields
           /\ RawSetH(t, k, v).arr = t.arr
           /\ RawSetH(t, k, v).str = t.str
           /\ RawSetH(t, k, v).dict = With(t.dict, k, v)
  <1> DEFINE a == addIterationKey(t, k)
  <1>1. numericTableKey(k) = k /\ k[1] # "str"
    BY KeysCanonical DEF HashKeys, DictKeys, ArrayKeys, RestKeys
  <1>2. RawSetH(t, k, v) = [a EXCEPT !.sparse = FALSE, !.hasDict = TRUE,
                                     !.dict = With(@, k, v)]
    BY <1>1 DEF RawSetH
  <1>3. SameData(t, a)
    BY AddKeepsData
  <1> HIDE DEF a
  <1> QED
    BY <1>2, <1>3 DEF SameData, Fields

\* A field of the hash part is written or, with Nil, deleted.
DictSet(t, u, k, v) ==
    /\ DOMAIN u = Fields
    /\ u.arr = t.arr /\ u.str = t.str
    /\ u.dict = IF v = Nil THEN Without(t.dict, {k}) ELSE With(t.dict, k, v)

\* so that it sets one key of dict.
LEMMA SetHSets ==
    ASSUME NEW t, DOMAIN t = Fields, NEW k \in DictKeys, NEW v
    PROVE  DictSet(t, RawSetH(t, k, v), k, v)
  <1>1. CASE v = Nil
    BY <1>1, SetHNil DEF DictSet
  <1>2. CASE v # Nil
    BY <1>2, SetHValue DEF DictSet
  <1> QED
    BY <1>1, <1>2

\* Setting a key of dict keeps the shape
LEMMA DictSetShape ==
    ASSUME NEW t, NEW u, Shape(t), NEW k \in DictKeys, NEW v \in Values \cup {Nil},
           DictSet(t, u, k, v)
    PROVE  Shape(u)
  <1>1. \A x \in DOMAIN u.dict : x \in DictKeys /\ u.dict[x] \in Values
    <2>1. CASE v = Nil
      BY <2>1 DEF DictSet, Without, Shape
    <2>2. CASE v # Nil
      BY <2>2 DEF DictSet, With, Shape
    <2> QED
      BY <2>1, <2>2
  <1> QED
    BY <1>1 DEF DictSet, Shape

\* and every other key's value.
LEMMA DictSetReads ==
    ASSUME NEW t, NEW u, Shape(t), NEW k \in DictKeys, NEW v \in Values \cup {Nil},
           DictSet(t, u, k, v), NEW x \in DictKeys
    PROVE  RawGetH(u, x) = IF x = k THEN v ELSE RawGetH(t, x)
  <1>1. Shape(u)
    BY DictSetShape
  <1>2. /\ RawGetH(u, x) = IF x \in DOMAIN u.dict THEN u.dict[x] ELSE Nil
        /\ RawGetH(t, x) = IF x \in DOMAIN t.dict THEN t.dict[x] ELSE Nil
    BY <1>1, ReadDict
  <1>3. CASE v = Nil
    BY <1>2, <1>3 DEF DictSet, Without
  <1>4. CASE v # Nil
    BY <1>2, <1>4 DEF DictSet, With
  <1> QED
    BY <1>3, <1>4

\* Any key but a position: the positions stay as they are.
LEMMA SetRest ==
    ASSUME NEW t, NEW u, Shape(t), Apart(t), NEW k \in RestKeys, NEW v \in Values \cup {Nil},
           DictSet(t, u, k, v)
    PROVE  /\ Shape(u) /\ Apart(u)
           /\ PositionsSame(t, u)
           /\ \A x \in OtherKeys : RawGetH(u, x) = IF x = k THEN v ELSE RawGetH(t, x)
  <1> USE SizeAssumption
  <1>1. k \in DictKeys
    BY DEF DictKeys
  <1>2. Shape(u)
    BY <1>1, DictSetShape
  <1>3. \A n \in Positions : <<"flt", n>> \in DictKeys /\ <<"flt", n>> # k
    BY KeysApart DEF DictKeys, ArrayKeys
  <1>4. Apart(u)
    <2>1. CASE v = Nil
      BY <1>3, <2>1 DEF Apart, DictSet, Without
    <2>2. CASE v # Nil
      BY <1>3, <2>2 DEF Apart, DictSet, With
    <2> QED
      BY <2>1, <2>2
  <1>5. ASSUME NEW n \in Positions PROVE getIntKey(u, n) = getIntKey(t, n)
    <2>1. RawGetH(u, <<"flt", n>>) = RawGetH(t, <<"flt", n>>)
      BY <1>1, <1>3, DictSetReads
    <2> QED
      BY <2>1 DEF getIntKey, DictSet
  <1>6. ASSUME NEW x \in OtherKeys
        PROVE  RawGetH(u, x) = IF x = k THEN v ELSE RawGetH(t, x)
    <2>1. CASE x \in StrKeys
      <3>1. x # k
        BY <1>1, <2>1, KeysApart
      <3> QED
        BY <1>2, <2>1, <3>1, ReadStr DEF DictSet
    <2>2. CASE x \in RestKeys
      BY <1>1, <2>2, DictSetReads DEF DictKeys
    <2> QED
      BY <2>1, <2>2, OtherForms
  <1> QED
    BY <1>2, <1>4, <1>5, <1>6 DEF PositionsSame

\* A position that is hashed, or is to be hashed.
LEMMA SetHashed ==
    ASSUME NEW t, NEW u, Shape(t), Apart(t), NEW n \in Positions,
           NEW v \in Values \cup {Nil}, DictSet(t, u, <<"flt", n>>, v),
           n > Len(t.arr), v # Nil => n > Len(t.arr) + 1
    PROVE  /\ Shape(u) /\ Apart(u)
           /\ OthersSame(t, u)
           /\ \A m \in Positions : getIntKey(u, m) = IF m = n THEN v ELSE getIntKey(t, m)
  <1> USE SizeAssumption
  <1>1. \A m \in Positions : <<"flt", m>> \in DictKeys
    BY DEF DictKeys, ArrayKeys
  <1>2. Shape(u)
    BY <1>1, DictSetShape
  <1>3. Apart(u)
    <2>1. CASE v = Nil
      BY <2>1 DEF Apart, DictSet, Without
    <2>2. CASE v # Nil
      BY <2>2, KeysApart DEF Apart, DictSet, With
    <2> QED
      BY <2>1, <2>2
  <1>4. OthersSame(t, u)
    <2> SUFFICES ASSUME NEW x \in OtherKeys PROVE RawGetH(u, x) = RawGetH(t, x)
      BY DEF OthersSame
    <2>1. CASE x \in StrKeys
      BY <1>2, <2>1, ReadStr DEF DictSet
    <2>2. CASE x \in RestKeys
      <3>1. x \in DictKeys /\ x # <<"flt", n>>
        BY <2>2, KeysApart DEF DictKeys
      <3> QED
        BY <1>1, <3>1, DictSetReads
    <2> QED
      BY <2>1, <2>2, OtherForms
  <1>5. ASSUME NEW m \in Positions
        PROVE  getIntKey(u, m) = IF m = n THEN v ELSE getIntKey(t, m)
    <2>1. RawGetH(u, <<"flt", m>>) = IF m = n THEN v ELSE RawGetH(t, <<"flt", m>>)
      <3>1. <<"flt", m>> = <<"flt", n>> <=> m = n
        OBVIOUS
      <3> QED
        BY <1>1, <3>1, DictSetReads
    <2>2. u.arr = t.arr /\ Len(t.arr) \in Nat /\ n \in Nat /\ m \in Nat
      BY DEF DictSet, Shape, Positions
    <2> QED
      BY <2>1, <2>2 DEF getIntKey
  <1> QED
    BY <1>2, <1>3, <1>4, <1>5

\* RawSetString sets one string key.
LEMMA SetString ==
    ASSUME NEW t, Shape(t), Apart(t), NEW k \in StrKeys, NEW v \in Values \cup {Nil}
    PROVE  LET u == RawSetString(t, k, v)
           IN  /\ Shape(u) /\ Apart(u)
               /\ PositionsSame(t, u)
               /\ \A x \in OtherKeys : RawGetH(u, x) = IF x = k THEN v ELSE RawGetH(t, x)
  <1> DEFINE u == RawSetString(t, k, v)
             w == [t EXCEPT !.str = Without(@, {k})]
             a == addIterationKey(t, k)
  <1>1. /\ DOMAIN u = Fields /\ u.arr = t.arr /\ u.dict = t.dict
        /\ u.str = IF v = Nil THEN Without(t.str, {k}) ELSE With(t.str, k, v)
    <2>1. DOMAIN t = Fields
      BY DEF Shape
    <2>2. /\ DOMAIN w = Fields /\ w.arr = t.arr /\ w.dict = t.dict
          /\ w.str = Without(t.str, {k})
      BY <2>1 DEF Fields
    <2>3. CASE v = Nil
      <3>1. u = deleteIterationKey(w, k)
        BY <2>3 DEF RawSetString
      <3> HIDE DEF w, u
      <3>2. SameData(w, u)
        BY <2>2, <3>1, DeleteKeepsData
      <3> QED
        BY <2>2, <2>3, <3>2 DEF SameData
    <2>4. CASE v # Nil
      <3>1. u = [a EXCEPT !.str = With(@, k, v)]
        BY <2>4 DEF RawSetString
      <3>2. SameData(t, a)
        BY <2>1, AddKeepsData
      <3> HIDE DEF a, u
      <3> QED
        BY <2>4, <3>1, <3>2 DEF SameData, Fields
    <2> QED
      BY <2>3, <2>4
  <1> HIDE DEF u
  <1>2. Shape(u)
    <2>1. \A x \in DOMAIN u.str : x \in StrKeys /\ u.str[x] \in Values
      <3>1. CASE v = Nil
        BY <1>1, <3>1 DEF Without, Shape
      <3>2. CASE v # Nil
        BY <1>1, <3>2 DEF With, Shape
      <3> QED
        BY <3>1, <3>2
    <2> QED
      BY <1>1, <2>1 DEF Shape
  <1>3. Apart(u)
    BY <1>1 DEF Apart
  <1>4. PositionsSame(t, u)
    BY <1>1, <1>2, ReadPosition DEF PositionsSame
  <1>5. ASSUME NEW x \in OtherKeys
        PROVE  RawGetH(u, x) = IF x = k THEN v ELSE RawGetH(t, x)
    <2>1. CASE x \in StrKeys
      <3>1. /\ RawGetH(u, x) = IF x \in DOMAIN u.str THEN u.str[x] ELSE Nil
            /\ RawGetH(t, x) = IF x \in DOMAIN t.str THEN t.str[x] ELSE Nil
        BY <1>2, <2>1, ReadStr
      <3>2. CASE v = Nil
        BY <1>1, <3>1, <3>2 DEF Without
      <3>3. CASE v # Nil
        BY <1>1, <3>1, <3>3 DEF With
      <3> QED
        BY <3>2, <3>3
    <2>2. CASE x \in RestKeys
      <3>1. x \in DictKeys /\ x # k
        BY <2>2, KeysApart DEF DictKeys
      <3> QED
        BY <1>1, <1>2, <3>1, ReadDict
    <2> QED
      BY <2>1, <2>2, OtherForms
  <1> QED
    BY <1>2, <1>3, <1>4, <1>5 DEF u

-----------------------------------------------------------------------------
(* Hashed positions join the array.                                        *)

\* Where the hashed positions that continue the array end.
RunEnds(t, n) ==
    /\ n \in Len(t.arr) .. MaxArrayIndex
    /\ \A i \in Len(t.arr) + 1 .. n : <<"flt", i>> \in DOMAIN t.dict
    /\ <<"flt", n + 1>> \notin DOMAIN t.dict
\* Where the array ends after it has taken the hashed positions that continue it.
RunEnd(t) ==
    CHOOSE n \in Len(t.arr) .. MaxArrayIndex :
        /\ \A i \in Len(t.arr) + 1 .. n : <<"flt", i>> \in DOMAIN t.dict
        /\ <<"flt", n + 1>> \notin DOMAIN t.dict
\* The positions that pullHashed looks up.
Looked(t) ==
    IF DOMAIN t.dict \ {<<"flt", i>> : i \in Len(t.arr) + 1 .. RunEnd(t)} = {}
    THEN Len(t.arr) + 1 .. RunEnd(t) ELSE Len(t.arr) + 1 .. RunEnd(t) + 1
\* The values it moves.
Joined(t) == [i \in 1 .. RunEnd(t) - Len(t.arr) |-> t.dict[<<"flt", Len(t.arr) + i>>]]

\* Only positions are hashed as numbers.
LEMMA FarNotHashed ==
    ASSUME NEW t, Shape(t), NEW n \in Int, <<"flt", n>> \in DOMAIN t.dict
    PROVE  n \in Positions
  <1>1. <<"flt", n>> \in ArrayKeys \cup RestKeys
    BY DEF Shape, DictKeys
  <1>2. <<"flt", n>> \notin RestKeys
    BY DEF RestKeys
  <1> QED
    BY <1>1, <1>2 DEF ArrayKeys

\* The run of hashed positions ends below the limit.
LEMMA RunEndExists ==
    ASSUME NEW t, Shape(t)
    PROVE  /\ RunEnds(t, RunEnd(t))
           /\ RunEnd(t) < MaxArrayIndex
  <1> USE SizeAssumption
  <1> DEFINE alen == Len(t.arr)
             T == {n \in alen .. MaxArrayIndex : <<"flt", n + 1>> \notin DOMAIN t.dict}
  <1>1. alen \in Nat /\ alen < MaxArrayIndex
    BY DEF Shape
  <1>2. MaxArrayIndex \in T
    <2>1. MaxArrayIndex + 1 \notin Positions
      BY DEF Positions
    <2>2. <<"flt", MaxArrayIndex + 1>> \notin DOMAIN t.dict
      BY <2>1, FarNotHashed
    <2> HIDE DEF alen
    <2> QED
      BY <1>1, <2>2
  <1>3. PICK m \in T : \A n \in T : m <= n
    <2>1. T \in SUBSET Nat /\ T # {}
      <3> HIDE DEF alen
      <3> QED
        BY <1>1, <1>2
    <2> HIDE DEF T
    <2> QED
      BY <2>1, SmallestExists
  <1>4. RunEnds(t, m)
    <2>1. ASSUME NEW i \in alen + 1 .. m PROVE <<"flt", i>> \in DOMAIN t.dict
      <3> HIDE DEF alen
      <3>1. i - 1 \in alen .. MaxArrayIndex /\ i - 1 < m /\ i - 1 + 1 = i /\ m \in Int
        BY <1>1
      <3>2. i - 1 \notin T
        <4> HIDE DEF T
        <4> QED
          BY <1>3, <3>1
      <3> QED
        BY <3>1, <3>2
    <2> QED
      BY <2>1 DEF RunEnds
  <1>5. RunEnds(t, RunEnd(t))
    BY <1>4 DEF RunEnd, RunEnds
  <1>6. RunEnd(t) < MaxArrayIndex
    <2>1. CASE RunEnd(t) = alen
      BY <1>1, <2>1
    <2>2. CASE RunEnd(t) # alen
      <3>1. RunEnd(t) \in alen + 1 .. RunEnd(t) /\ RunEnd(t) \in Int
        <4>1. RunEnd(t) \in alen .. MaxArrayIndex
          BY <1>5 DEF RunEnds
        <4> HIDE DEF alen
        <4> QED
          BY <1>1, <2>2, <4>1
      <3>2. <<"flt", RunEnd(t)>> \in DOMAIN t.dict
        BY <1>5, <3>1 DEF RunEnds
      <3>3. RunEnd(t) \in Positions
        BY <3>1, <3>2, FarNotHashed
      <3> QED
        BY <3>3 DEF Positions
    <2> QED
      BY <2>1, <2>2
  <1> QED
    BY <1>5, <1>6

\* pullHashed by these definitions.
LEMMA PullForm ==
    ASSUME NEW t
    PROVE  pullHashed(t) = IF DOMAIN t.dict = {} THEN t
                           ELSE [takeHashed(t, Looked(t)) EXCEPT !.arr = @ \o Joined(t)]
  BY DEF pullHashed, Looked, Joined, RunEnd

\* What it does to the parts of a table.
LEMMA PullData ==
    ASSUME NEW t, Shape(t), DOMAIN t.dict # {}
    PROVE  LET u == pullHashed(t)
           IN  /\ DOMAIN u = Fields /\ u.str = t.str
               /\ u.arr \in Seq(Values \cup {Nil}) /\ Len(u.arr) = RunEnd(t)
               /\ \A n \in 1 .. Len(t.arr) : u.arr[n] = t.arr[n]
               /\ \A n \in Len(t.arr) + 1 .. RunEnd(t) : u.arr[n] = t.dict[<<"flt", n>>]
               /\ Dropped(t.dict, u.dict, Taken(t, Looked(t)))
  <1> DEFINE u == pullHashed(t)
             k == takeHashed(t, Looked(t))
             e == RunEnd(t)
             a == Len(t.arr)
             j == Joined(t)
  <1>1. /\ DOMAIN k = Fields /\ k.arr = t.arr /\ k.str = t.str
        /\ Dropped(t.dict, k.dict, Taken(t, Looked(t)))
    BY TakeData DEF Shape
  <1>2. u = [k EXCEPT !.arr = @ \o j]
    BY PullForm
  <1> HIDE DEF u, k
  <1>3. /\ DOMAIN u = Fields /\ u.arr = t.arr \o j /\ u.str = t.str /\ u.dict = k.dict
    BY <1>1, <1>2 DEF Fields
  <1>4. a \in Nat /\ e \in Nat /\ a <= e
    <2>1. a \in Nat
      BY DEF Shape
    <2>2. e \in a .. MaxArrayIndex
      BY RunEndExists DEF RunEnds
    <2> HIDE DEF a, e
    <2> QED
      BY <2>1, <2>2, SizeAssumption
  <1>5. \A n \in a + 1 .. e : t.dict[<<"flt", n>>] \in Values
    BY RunEndExists DEF RunEnds, Shape
  <1>6. j = [i \in 1 .. e - a |-> t.dict[<<"flt", a + i>>]]
    BY DEF Joined
  <1>7. t.arr \in Seq(Values \cup {Nil})
    BY DEF Shape
  <1> HIDE DEF a, e, j
  <1>8. \A i \in 1 .. e - a : a + i \in a + 1 .. e
    BY <1>4
  <1>9. j \in Seq(Values \cup {Nil}) /\ Len(j) = e - a
    BY <1>4, <1>5, <1>6, <1>8
  <1>10. u.arr \in Seq(Values \cup {Nil}) /\ Len(u.arr) = e
    BY <1>3, <1>4, <1>7, <1>9 DEF a
  <1>11. \A n \in 1 .. a : u.arr[n] = t.arr[n]
    BY <1>3, <1>7, <1>9 DEF a
  <1>12. ASSUME NEW n \in a + 1 .. e PROVE u.arr[n] = t.dict[<<"flt", n>>]
    <2>1. n - a \in 1 .. e - a /\ a + (n - a) = n
      BY <1>4
    <2>2. u.arr[n] = j[n - a]
      BY <1>3, <1>4, <1>7, <1>9, <2>1 DEF a
    <2> QED
      BY <1>6, <2>1, <2>2
  <1> QED
    BY <1>1, <1>3, <1>10, <1>11, <1>12 DEF u, a, e

\* Migration moves fields and changes none, and leaves the parts apart.
LEMMA PullReads ==
    ASSUME NEW t, Shape(t), Beyond(t)
    PROVE  LET u == pullHashed(t)
           IN  Shape(u) /\ Apart(u) /\ PositionsSame(t, u) /\ OthersSame(t, u)
  <1> USE SizeAssumption
  <1> DEFINE u == pullHashed(t)
             e == RunEnd(t)
             a == Len(t.arr)
  <1>1. CASE DOMAIN t.dict = {}
    <2>1. u = t
      BY <1>1, PullForm
    <2> QED
      BY <1>1, <2>1 DEF Apart, PositionsSame, OthersSame
  <1>2. CASE DOMAIN t.dict # {}
    <2>1. /\ DOMAIN u = Fields /\ u.str = t.str
          /\ u.arr \in Seq(Values \cup {Nil}) /\ Len(u.arr) = e
          /\ \A n \in 1 .. a : u.arr[n] = t.arr[n]
          /\ \A n \in a + 1 .. e : u.arr[n] = t.dict[<<"flt", n>>]
          /\ Dropped(t.dict, u.dict, Taken(t, Looked(t)))
      BY <1>2, PullData
    <2> HIDE DEF u
    <2>2. /\ a \in Nat /\ e \in Nat /\ a <= e /\ e < MaxArrayIndex
          /\ \A i \in a + 1 .. e : <<"flt", i>> \in DOMAIN t.dict
          /\ <<"flt", e + 1>> \notin DOMAIN t.dict
      BY RunEndExists, SMTT(30) DEF RunEnds, Shape
    <2>3. \A n \in Int : n \in Looked(t) => n \in a + 1 .. e + 1
      BY <2>2 DEF Looked
    <2>4. \A n \in Int : n \in a + 1 .. e => n \in Looked(t)
      BY <2>2 DEF Looked
    <2> HIDE DEF e, a
    <2>5. Shape(u)
      BY <2>1, <2>2 DEF Shape, Dropped
    <2>6. ASSUME NEW n \in Positions
          PROVE  <<"flt", n>> \in DOMAIN u.dict <=> <<"flt", n>> \in DOMAIN t.dict /\ n \notin a + 1 .. e
      <3>1. n \in Int
        BY DEF Positions
      <3>2. <<"flt", n>> \in DOMAIN u.dict <=> <<"flt", n>> \in DOMAIN t.dict /\ n \notin Looked(t)
        BY <2>1, TakenKeys DEF Dropped
      <3>3. n \in Looked(t) /\ n \notin a + 1 .. e => n = e + 1
        BY <2>2, <2>3, <3>1
      <3> QED
        BY <2>2, <2>4, <3>1, <3>2, <3>3
    <2>7. Apart(u)
      <3> SUFFICES ASSUME NEW n \in Positions, <<"flt", n>> \in DOMAIN u.dict
                   PROVE  n > e + 1
        BY <2>1 DEF Apart
      <3>1. <<"flt", n>> \in DOMAIN t.dict /\ n \notin a + 1 .. e
        BY <2>6
      <3>2. n > a
        BY <3>1 DEF Beyond, a
      <3>3. n # e + 1 /\ n \in Int
        BY <2>2, <3>1 DEF Positions
      <3> QED
        BY <2>2, <3>1, <3>2, <3>3
    <2>8. ASSUME NEW n \in Positions PROVE getIntKey(u, n) = getIntKey(t, n)
      <3>1. n \in Nat \ {0}
        BY DEF Positions
      <3>2. /\ getIntKey(u, n) = IF n <= e THEN u.arr[n]
                                 ELSE IF <<"flt", n>> \in DOMAIN u.dict THEN u.dict[<<"flt", n>>]
                                 ELSE Nil
            /\ getIntKey(t, n) = IF n <= a THEN t.arr[n]
                                 ELSE IF <<"flt", n>> \in DOMAIN t.dict THEN t.dict[<<"flt", n>>]
                                 ELSE Nil
        BY <2>1, <2>5, ReadPosition DEF a
      <3>3. CASE n <= a
        BY <2>1, <2>2, <3>1, <3>2, <3>3
      <3>4. CASE n > a /\ n <= e
        <4>1. n \in a + 1 .. e
          BY <2>2, <3>1, <3>4
        <4> QED
          BY <2>1, <2>2, <3>1, <3>2, <3>4, <4>1
      <3>5. CASE n > e
        <4>1. <<"flt", n>> \in DOMAIN u.dict <=> <<"flt", n>> \in DOMAIN t.dict
          BY <2>2, <2>6, <3>1, <3>5
        <4>2. <<"flt", n>> \in DOMAIN u.dict => u.dict[<<"flt", n>>] = t.dict[<<"flt", n>>]
          BY <2>1 DEF Dropped
        <4>3. ~ (n <= e) /\ ~ (n <= a)
          BY <2>2, <3>1, <3>5
        <4> QED
          BY <3>2, <4>1, <4>2, <4>3
      <3> QED
        BY <2>2, <3>1, <3>3, <3>4, <3>5
    <2>9. OthersSame(t, u)
      <3>1. \A k \in RestKeys : k \in DOMAIN u.dict <=> k \in DOMAIN t.dict
        BY <2>1, TakenKeys DEF Dropped
      <3>2. \A k \in RestKeys : k \in DOMAIN t.dict => u.dict[k] = t.dict[k]
        BY <2>1, <3>1 DEF Dropped
      <3> QED
        BY <2>1, <2>5, <3>1, <3>2, OthersFollow
    <2> QED
      BY <2>5, <2>7, <2>8, <2>9 DEF PositionsSame, u
  <1> QED
    BY <1>1, <1>2

-----------------------------------------------------------------------------
(* Assigning to a position.                                                *)

\* u reads as t does but for position n, which holds v.
PositionSet(t, u, n, v) ==
    /\ Shape(u) /\ Apart(u)
    /\ OthersSame(t, u)
    /\ \A m \in Positions : getIntKey(u, m) = IF m = n THEN v ELSE getIntKey(t, m)

\* What follows on the order of traversal does not matter.
LEMMA SetThenSame ==
    ASSUME NEW t, NEW w, NEW u, NEW n, NEW v, PositionSet(t, w, n, v), SameData(w, u)
    PROVE  PositionSet(t, u, n, v)
  <1>1. Shape(w) /\ Apart(w)
    BY DEF PositionSet
  <1>2. Shape(u) /\ PositionsSame(w, u) /\ OthersSame(w, u)
    BY <1>1, ShapeKept, SameReads
  <1>3. Apart(u)
    BY <1>1 DEF Apart, SameData
  <1> QED
    BY <1>2, <1>3 DEF PositionSet, PositionsSame, OthersSame

\* Writing within the array.
LEMMA SetInArray ==
    ASSUME NEW t, Shape(t), Apart(t), NEW n \in Positions, n <= Len(t.arr),
           NEW v \in Values \cup {Nil}
    PROVE  PositionSet(t, [t EXCEPT !.arr[n] = v], n, v)
  <1> DEFINE u == [t EXCEPT !.arr[n] = v]
             a == Len(t.arr)
  <1>1. /\ DOMAIN u = Fields /\ u.str = t.str /\ u.dict = t.dict
        /\ u.arr = [t.arr EXCEPT ![n] = v]
    BY DEF Fields, Shape
  <1> HIDE DEF u
  <1>2. a \in Nat /\ a < MaxArrayIndex /\ t.arr \in Seq(Values \cup {Nil})
    BY DEF Shape
  <1>3. n \in 1 .. a /\ n \in Nat
    <2> HIDE DEF a
    <2> QED
      BY <1>2, SizeAssumption DEF Positions, a
  <1>4. /\ u.arr \in Seq(Values \cup {Nil}) /\ Len(u.arr) = a
        /\ \A m \in 1 .. a : u.arr[m] = IF m = n THEN v ELSE t.arr[m]
    BY <1>1, <1>2, <1>3
  <1>5. Shape(u)
    BY <1>1, <1>4 DEF Shape
  <1>6. Apart(u)
    BY <1>1, <1>4 DEF Apart
  <1>7. OthersSame(t, u)
    BY <1>1, <1>5, OthersFollow
  <1>8. ASSUME NEW m \in Positions
        PROVE  getIntKey(u, m) = IF m = n THEN v ELSE getIntKey(t, m)
    <2>1. m \in Nat \ {0}
      BY DEF Positions
    <2>2. /\ getIntKey(u, m) = IF m <= a THEN u.arr[m]
                               ELSE IF <<"flt", m>> \in DOMAIN u.dict THEN u.dict[<<"flt", m>>]
                               ELSE Nil
          /\ getIntKey(t, m) = IF m <= a THEN t.arr[m]
                               ELSE IF <<"flt", m>> \in DOMAIN t.dict THEN t.dict[<<"flt", m>>]
                               ELSE Nil
      BY <1>4, <1>5, ReadPosition
    <2> HIDE DEF a
    <2>3. CASE m <= a
      BY <1>2, <1>4, <2>1, <2>2, <2>3
    <2>4. CASE ~ (m <= a)
      <3>1. m # n
        BY <1>3, <2>4
      <3> QED
        BY <1>1, <2>2, <2>4, <3>1
    <2> QED
      BY <2>3, <2>4
  <1> QED
    BY <1>5, <1>6, <1>7, <1>8 DEF PositionSet, u

\* The array of w has grown to position n, taking what is hashed on the way.
GrewTo(t, w, n, v) ==
    /\ n > Len(t.arr)
    /\ DOMAIN w = Fields /\ w.str = t.str
    /\ w.arr \in Seq(Values \cup {Nil}) /\ Len(w.arr) = n
    /\ \A m \in 1 .. Len(t.arr) : w.arr[m] = t.arr[m]
    /\ \A m \in Len(t.arr) + 1 .. n :
          w.arr[m] = IF m = n THEN v ELSE RawGetH(t, <<"flt", m>>)
    /\ Dropped(t.dict, w.dict, Taken(t, Len(t.arr) + 1 .. n))

\* Growing the array to position n sets that position.
LEMMA GrowReads ==
    ASSUME NEW t, NEW w, Shape(t), Apart(t), NEW n \in Positions,
           NEW v \in Values \cup {Nil}, GrewTo(t, w, n, v)
    PROVE  /\ Shape(w) /\ Beyond(w)
           /\ OthersSame(t, w)
           /\ \A m \in Positions : getIntKey(w, m) = IF m = n THEN v ELSE getIntKey(t, m)
  <1> DEFINE a == Len(t.arr)
  <1>1. a \in Nat /\ n \in Nat /\ n < MaxArrayIndex /\ n > a
    BY SizeAssumption DEF Shape, Positions, GrewTo
  <1>0. /\ DOMAIN w = Fields /\ w.str = t.str
        /\ w.arr \in Seq(Values \cup {Nil}) /\ Len(w.arr) = n
        /\ \A m \in 1 .. a : w.arr[m] = t.arr[m]
        /\ \A m \in a + 1 .. n :
              w.arr[m] = IF m = n THEN v ELSE RawGetH(t, <<"flt", m>>)
        /\ Dropped(t.dict, w.dict, Taken(t, a + 1 .. n))
    BY DEF GrewTo
  <1>2. Shape(w)
    BY <1>0, <1>1 DEF Shape, Dropped
  <1>3. ASSUME NEW m \in Positions
        PROVE  <<"flt", m>> \in DOMAIN w.dict <=> <<"flt", m>> \in DOMAIN t.dict /\ m \notin a + 1 .. n
    BY <1>0, TakenKeys DEF Dropped
  <1>4. Beyond(w)
    <2> SUFFICES ASSUME NEW m \in Positions, <<"flt", m>> \in DOMAIN w.dict
                 PROVE  m > n
      BY <1>0 DEF Beyond
    <2>1. m > a + 1 /\ m \notin a + 1 .. n
      BY <1>3 DEF Apart
    <2>2. m \in Nat
      BY DEF Positions
    <2> HIDE DEF a
    <2> QED
      BY <1>1, <2>1, <2>2
  <1>5. OthersSame(t, w)
    <2>1. \A k \in RestKeys : k \in DOMAIN w.dict <=> k \in DOMAIN t.dict
      BY <1>0, TakenKeys DEF Dropped
    <2>2. \A k \in RestKeys : k \in DOMAIN t.dict => w.dict[k] = t.dict[k]
      BY <1>0, <2>1 DEF Dropped
    <2> QED
      BY <1>0, <1>2, <2>1, <2>2, OthersFollow
  <1>6. ASSUME NEW m \in Positions
        PROVE  getIntKey(w, m) = IF m = n THEN v ELSE getIntKey(t, m)
    <2>1. m \in Nat \ {0}
      BY DEF Positions
    <2>2. CASE m <= a
      <3>1. m \in 1 .. a /\ m <= Len(w.arr) /\ m # n
        <4> HIDE DEF a
        <4> QED
          BY <1>0, <1>1, <2>1, <2>2
      <3> QED
        BY <1>0, <2>2, <3>1 DEF getIntKey
    <2>3. CASE m > a /\ m <= n
      <3>1. m \in a + 1 .. n /\ m <= Len(w.arr) /\ ~ (m <= a)
        <4> HIDE DEF a
        <4> QED
          BY <1>0, <1>1, <2>1, <2>3
      <3> QED
        BY <1>0, <3>1 DEF getIntKey
    <2>4. CASE m > n
      <3>1. m \notin a + 1 .. n /\ ~ (m <= a) /\ ~ (m <= Len(w.arr)) /\ m # n
        <4> HIDE DEF a
        <4> QED
          BY <1>0, <1>1, <2>1, <2>4
      <3>2. <<"flt", m>> \in DOMAIN w.dict <=> <<"flt", m>> \in DOMAIN t.dict
        BY <1>3, <3>1
      <3>3. <<"flt", m>> \in DOMAIN w.dict => w.dict[<<"flt", m>>] = t.dict[<<"flt", m>>]
        BY <1>0 DEF Dropped
      <3>4. /\ getIntKey(w, m) = IF m <= Len(w.arr) THEN w.arr[m]
                               ELSE IF <<"flt", m>> \in DOMAIN w.dict THEN w.dict[<<"flt", m>>]
                               ELSE Nil
            /\ getIntKey(t, m) = IF m <= a THEN t.arr[m]
                               ELSE IF <<"flt", m>> \in DOMAIN t.dict THEN t.dict[<<"flt", m>>]
                               ELSE Nil
        BY <1>2, ReadPosition
      <3> HIDE DEF a
      <3> QED
        BY <3>1, <3>2, <3>3, <3>4
    <2> HIDE DEF a
    <2> QED
      BY <1>1, <2>1, <2>2, <2>3, <2>4
  <1> QED
    BY <1>2, <1>4, <1>5, <1>6

\* The table setSparseIntKey hands to pullHashed.
Grown(t, n, v) ==
    [takeHashed(t, Len(t.arr) + 1 .. n) EXCEPT
        !.made = TRUE,
        !.arr = @ \o [i \in 1 .. n - Len(t.arr) |->
                         IF Len(t.arr) + i = n THEN v
                         ELSE RawGetH(t, <<"flt", Len(t.arr) + i>>)]]

\* setSparseIntKey's conditions for leaving the array as it is.
StaysHashed(t, n, v) ==
    v = Nil \/ n - 1 - Len(t.arr) > MaxArrayGap \/ <<"flt", n>> \in DOMAIN t.dict

\* setSparseIntKey by these definitions.
LEMMA SparseForm ==
    ASSUME NEW t, NEW n, NEW v
    PROVE  setSparseIntKey(t, n, v) =
               LET hashed == RawSetH(t, <<"flt", n>>, v)
               IN  IF StaysHashed(t, n, v)
                   THEN IF ~t.hasDict \/ t.sparse
                        THEN releaseEmptySparseHash([hashed EXCEPT !.sparse = TRUE])
                        ELSE hashed
                   ELSE pullHashed(Grown(t, n, v))
  BY DEF setSparseIntKey, StaysHashed, Grown

\* Reads answer values or nil.
LEMMA ReadsAreValues ==
    ASSUME NEW t, Shape(t)
    PROVE  /\ \A k \in HashKeys : RawGetH(t, k) \in Values \cup {Nil}
           /\ \A n \in Positions : getIntKey(t, n) \in Values \cup {Nil}
  <1>1. ASSUME NEW k \in HashKeys PROVE RawGetH(t, k) \in Values \cup {Nil}
    <2>1. CASE k \in StrKeys
      BY <2>1, ReadStr DEF Shape
    <2>2. CASE k \in DictKeys
      BY <2>2, ReadDict DEF Shape
    <2> QED
      BY <2>1, <2>2 DEF HashKeys
  <1>2. ASSUME NEW n \in Positions PROVE getIntKey(t, n) \in Values \cup {Nil}
    <2>1. <<"flt", n>> \in HashKeys
      BY DEF HashKeys, DictKeys, ArrayKeys
    <2>2. n \in Nat \ {0}
      BY DEF Positions
    <2> QED
      BY <1>1, <2>1, <2>2 DEF getIntKey, Shape
  <1> QED
    BY <1>1, <1>2

\* Grown pads the array with what dict had for the gap.
LEMMA GrownData ==
    ASSUME NEW t, Shape(t), NEW n \in Positions, n > Len(t.arr), NEW v \in Values \cup {Nil}
    PROVE  GrewTo(t, Grown(t, n, v), n, v)
  <1> DEFINE a == Len(t.arr)
             k == takeHashed(t, a + 1 .. n)
             j == [i \in 1 .. n - a |-> IF a + i = n THEN v ELSE RawGetH(t, <<"flt", a + i>>)]
             w == Grown(t, n, v)
  <1>1. /\ DOMAIN k = Fields /\ k.arr = t.arr /\ k.str = t.str
        /\ Dropped(t.dict, k.dict, Taken(t, a + 1 .. n))
    BY TakeData DEF Shape
  <1>2. w = [k EXCEPT !.made = TRUE, !.arr = @ \o j]
    BY DEF Grown
  <1> HIDE DEF w, k
  <1>3. /\ DOMAIN w = Fields /\ w.arr = t.arr \o j /\ w.str = t.str /\ w.dict = k.dict
    BY <1>1, <1>2 DEF Fields
  <1>4. a \in Nat /\ n \in Nat /\ n > a /\ n < MaxArrayIndex
    BY SizeAssumption DEF Shape, Positions
  <1>5. \A m \in Positions : RawGetH(t, <<"flt", m>>) \in Values \cup {Nil}
    <2>1. \A m \in Positions : <<"flt", m>> \in HashKeys
      BY DEF HashKeys, DictKeys, ArrayKeys
    <2> QED
      BY <2>1, ReadsAreValues
  <1>6. t.arr \in Seq(Values \cup {Nil})
    BY DEF Shape
  <1> HIDE DEF a
  <1>7. \A i \in 1 .. n - a : a + i \in Positions
    BY <1>4, SizeAssumption DEF Positions
  <1>8. j \in Seq(Values \cup {Nil}) /\ Len(j) = n - a
    <2>1. \A i \in 1 .. n - a : j[i] \in Values \cup {Nil}
      BY <1>5, <1>7
    <2> DEFINE d == n - a
    <2>2. d \in Nat
      BY <1>4
    <2>3. j \in [1 .. d -> Values \cup {Nil}]
      BY <2>1
    <2> HIDE DEF d, j
    <2>4. j \in Seq(Values \cup {Nil}) /\ Len(j) = d
      BY <2>2, <2>3
    <2> QED
      BY <2>4 DEF d
  <1>9. w.arr \in Seq(Values \cup {Nil}) /\ Len(w.arr) = n
    <2> HIDE DEF j
    <2> QED
      BY <1>3, <1>4, <1>6, <1>8 DEF a
  <1>10. \A m \in 1 .. a : w.arr[m] = t.arr[m]
    <2> HIDE DEF j
    <2> QED
      BY <1>3, <1>6, <1>8 DEF a
  <1>11. ASSUME NEW m \in a + 1 .. n
         PROVE  w.arr[m] = IF m = n THEN v ELSE RawGetH(t, <<"flt", m>>)
    <2>1. m - a \in 1 .. n - a /\ a + (m - a) = m
      BY <1>4
    <2>2. w.arr[m] = j[m - a]
      <3> HIDE DEF j
      <3> QED
        BY <1>3, <1>4, <1>6, <1>8, <2>1 DEF a
    <2> QED
      BY <2>1, <2>2
  <1> QED
    BY <1>1, <1>3, <1>9, <1>10, <1>11 DEF w, a, GrewTo

\* setSparseIntKey sets one position,
LEMMA SparseReads ==
    ASSUME NEW t, Shape(t), Apart(t), NEW n \in Positions, n > Len(t.arr),
           NEW v \in Values \cup {Nil}
    PROVE  PositionSet(t, setSparseIntKey(t, n, v), n, v)
  <1> DEFINE h == RawSetH(t, <<"flt", n>>, v)
             g == Grown(t, n, v)
             u == setSparseIntKey(t, n, v)
  <1>1. CASE StaysHashed(t, n, v)
    <2>1. n > Len(t.arr) + 1 \/ v = Nil
      <3>1. CASE n - 1 - Len(t.arr) > MaxArrayGap
        <4> DEFINE a == Len(t.arr)
        <4>1. a \in Nat /\ n \in Nat
          BY DEF Shape, Positions
        <4>2. n - 1 - a > MaxArrayGap
          BY <3>1
        <4> HIDE DEF a
        <4>3. n > a + 1
          BY <4>1, <4>2, SizeAssumption
        <4> QED
          BY <4>3 DEF a
      <3> QED
        BY <1>1, <3>1 DEF StaysHashed, Apart
    <2>2. DictSet(t, h, <<"flt", n>>, v)
      BY SetHSets DEF Shape, DictKeys, ArrayKeys
    <2>3. PositionSet(t, h, n, v)
      BY <2>1, <2>2, SetHashed DEF PositionSet
    <2>4. DOMAIN h = Fields
      BY <2>2 DEF DictSet
    <2>5. CASE ~t.hasDict \/ t.sparse
      <3> DEFINE s == [h EXCEPT !.sparse = TRUE]
      <3>1. u = releaseEmptySparseHash(s)
        BY <1>1, <2>5, SparseForm
      <3> HIDE DEF h
      <3>2. SameData(h, s) /\ DOMAIN s = Fields
        BY <2>4 DEF SameData, Fields
      <3> HIDE DEF s
      <3>3. SameData(s, releaseEmptySparseHash(s))
        BY <3>2, ReleaseKeepsData
      <3> QED
        BY <2>3, <3>1, <3>2, <3>3, SetThenSame DEF SameData
    <2>6. CASE ~ (~t.hasDict \/ t.sparse)
      BY <1>1, <2>3, <2>6, SparseForm
    <2> QED
      BY <2>5, <2>6
  <1>2. CASE ~StaysHashed(t, n, v)
    <2>1. u = pullHashed(g)
      BY <1>2, SparseForm
    <2>2. /\ Shape(g) /\ Beyond(g)
          /\ OthersSame(t, g)
          /\ \A m \in Positions : getIntKey(g, m) = IF m = n THEN v ELSE getIntKey(t, m)
      <3>1. GrewTo(t, g, n, v)
        BY GrownData
      <3> HIDE DEF g
      <3> QED
        BY <3>1, GrowReads
    <2> HIDE DEF g
    <2>3. /\ Shape(pullHashed(g)) /\ Apart(pullHashed(g))
          /\ PositionsSame(g, pullHashed(g)) /\ OthersSame(g, pullHashed(g))
      BY <2>2, PullReads
    <2> QED
      BY <2>1, <2>2, <2>3 DEF PositionSet, PositionsSame, OthersSame
  <1> QED
    BY <1>1, <1>2

\* and so does RawSetInt.
LEMMA SetIntReads ==
    ASSUME NEW t, Shape(t), Apart(t), NEW n \in Positions, NEW v \in Values \cup {Nil}
    PROVE  PositionSet(t, RawSetInt(t, n, v), n, v)
  <1> DEFINE u == RawSetInt(t, n, v)
  <1>0. Len(t.arr) \in Nat /\ n \in Nat \ {0} /\ n < MaxArrayIndex /\ DOMAIN t = Fields
    BY SizeAssumption DEF Shape, Positions
  <1>1. CASE n <= Len(t.arr)
    <2> DEFINE w == [t EXCEPT !.arr[n] = v]
    <2>1. u = forgetDeletedArrayKey(w, {n})
      BY <1>1 DEF RawSetInt
    <2>2. PositionSet(t, w, n, v)
      BY <1>1, SetInArray
    <2> HIDE DEF w
    <2>3. SameData(w, forgetDeletedArrayKey(w, {n}))
      BY <2>2, ForgetKeepsData DEF PositionSet, Shape
    <2> QED
      BY <2>1, <2>2, <2>3, SetThenSame
  <1>2. CASE /\ ~ (n <= Len(t.arr))
             /\ n = Len(t.arr) + 1 /\ t.made /\ v # Nil /\ DOMAIN t.dict = {}
    <2> DEFINE w == [t EXCEPT !.arr = Append(@, v)]
    <2>1. u = forgetDeletedArrayKey(w, {n})
      BY <1>2 DEF RawSetInt
    <2>2. /\ DOMAIN w = Fields /\ w.str = t.str /\ w.dict = t.dict
          /\ w.arr = Append(t.arr, v)
      BY <1>0 DEF Fields
    <2> HIDE DEF w
    <2>3. t.arr \in Seq(Values \cup {Nil})
      BY DEF Shape
    <2>4. /\ w.arr \in Seq(Values \cup {Nil}) /\ Len(w.arr) = n
          /\ \A m \in 1 .. Len(t.arr) : w.arr[m] = t.arr[m]
          /\ w.arr[n] = v
      BY <1>0, <1>2, <2>2, <2>3
    <2>5. \A m \in Len(t.arr) + 1 .. n :
               w.arr[m] = IF m = n THEN v ELSE RawGetH(t, <<"flt", m>>)
      BY <1>0, <1>2, <2>4
    <2>6. Dropped(t.dict, w.dict, Taken(t, Len(t.arr) + 1 .. n))
      BY <1>2, <2>2 DEF Dropped
    <2>7. n > Len(t.arr)
      BY <1>0, <1>2
    <2>8. /\ Shape(w) /\ Beyond(w) /\ OthersSame(t, w)
          /\ \A m \in Positions : getIntKey(w, m) = IF m = n THEN v ELSE getIntKey(t, m)
      <3>1. GrewTo(t, w, n, v)
        BY <2>2, <2>4, <2>5, <2>6, <2>7 DEF GrewTo
      <3> QED
        BY <3>1, GrowReads
    <2>9. PositionSet(t, w, n, v)
      BY <1>2, <2>2, <2>8 DEF PositionSet, Apart
    <2>10. SameData(w, forgetDeletedArrayKey(w, {n}))
      BY <2>2, ForgetKeepsData
    <2> QED
      BY <2>1, <2>9, <2>10, SetThenSame
  <1>3. CASE /\ ~ (n <= Len(t.arr))
             /\ ~ (n = Len(t.arr) + 1 /\ t.made /\ v # Nil /\ DOMAIN t.dict = {})
    <2>1. u = setSparseIntKey(t, n, v)
      BY <1>3 DEF RawSetInt
    <2>2. n > Len(t.arr)
      BY <1>0, <1>3
    <2> QED
      BY <2>1, <2>2, SparseReads
  <1> QED
    BY <1>1, <1>2, <1>3

-----------------------------------------------------------------------------
(* The map.                                                                *)

\* The keys of the map are positions and other keys.
LEMMA MapKeyForms ==
    /\ Map!MapKeys = {<<"pos", n>> : n \in Positions} \cup OtherKeys
    /\ \A n \in Positions : <<"pos", n>> \notin OtherKeys
    /\ \A k \in OtherKeys : k[1] # "pos"
  BY DEF Map!MapKeys, Map!Pos, OtherKeys

\* The map of a table is what can be read of it.
LEMMA ContentReads ==
    ASSUME NEW t
    PROVE  /\ DOMAIN Content(t) = Map!MapKeys
           /\ \A n \in Positions : Content(t)[<<"pos", n>>] = getIntKey(t, n)
           /\ \A k \in OtherKeys : Content(t)[k] = RawGetH(t, k)
  BY MapKeyForms DEF Content

\* Two tables have the same content if both kinds of keys read the same.
LEMMA ContentIs ==
    ASSUME NEW t, NEW m, DOMAIN m = Map!MapKeys, m = [k \in Map!MapKeys |-> m[k]],
           \A n \in Positions : getIntKey(t, n) = m[<<"pos", n>>],
           \A k \in OtherKeys : RawGetH(t, k) = m[k]
    PROVE  Content(t) = m
  <1>1. Content(t) = [k \in Map!MapKeys |-> Content(t)[k]]
    BY DEF Content
  <1>2. ASSUME NEW k \in Map!MapKeys PROVE Content(t)[k] = m[k]
    <2>1. CASE k \in OtherKeys
      BY <2>1, ContentReads
    <2>2. CASE k \in {<<"pos", n>> : n \in Positions}
      <3>1. PICK n \in Positions : k = <<"pos", n>>
        BY <2>2
      <3> QED
        BY <3>1, ContentReads
    <2> QED
      BY <2>1, <2>2, MapKeyForms
  <1> QED
    BY <1>1, <1>2

\* The key of the map that a key of the program stands for.
LEMMA MapKeyOf ==
    ASSUME NEW key \in Keys
    PROVE  /\ key[1] \in {"int", "flt"} /\ key[2] \in Positions =>
                 key[2] \in Positions /\ MapKey(key) = <<"pos", key[2]>>
           /\ ~ (key[1] \in {"int", "flt"} /\ key[2] \in Positions) =>
                 MapKey(key) \in OtherKeys /\ MapKey(key) = numericTableKey(key)
  <1> USE SizeAssumption
  <1>1. CASE key \in ArrayKeys
    BY <1>1 DEF ArrayKeys, MapKey, numericTableKey, Map!Pos
  <1>2. CASE key \in OtherKeys
    <2>1. CASE key \in {<<"int", n>> : n \in {0, MaxArrayIndex}}
      BY <2>1 DEF OtherKeys, MapKey, numericTableKey, Positions
    <2>2. CASE key \in {<<"str", s>> : s \in Strings}
      BY <2>2 DEF OtherKeys, MapKey, numericTableKey
    <2>3. CASE key \in {<<"ref", r>> : r \in Refs}
      BY <2>3 DEF OtherKeys, MapKey, numericTableKey
    <2> QED
      BY <1>2, <2>1, <2>2, <2>3 DEF OtherKeys
  <1>3. CASE key \in {<<"flt", n>> : n \in {0, MaxArrayIndex}}
    <2>1. PICK n \in {0, MaxArrayIndex} : key = <<"flt", n>>
      BY <1>3
    <2>2. n \notin Positions
      BY DEF Positions
    <2>3. numericTableKey(key) = <<"int", n>>
      BY <2>1, <2>2 DEF numericTableKey
    <2> QED
      BY <2>1, <2>2, <2>3 DEF MapKey, OtherKeys
  <1> QED
    BY <1>1, <1>2, <1>3 DEF Keys

\* RawSet changes one field of the map.
LEMMA SetReads ==
    ASSUME NEW t, Shape(t), Apart(t), NEW key \in Keys, NEW v \in Values \cup {Nil}
    PROVE  /\ Shape(RawSet(t, key, v)) /\ Apart(RawSet(t, key, v))
           /\ Content(RawSet(t, key, v)) = [Content(t) EXCEPT ![MapKey(key)] = v]
  <1> DEFINE u == RawSet(t, key, v)
             k == MapKey(key)
             m == [Content(t) EXCEPT ![k] = v]
  <1>1. /\ Shape(u) /\ Apart(u)
        /\ \A n \in Positions : getIntKey(u, n) = IF <<"pos", n>> = k THEN v ELSE getIntKey(t, n)
        /\ \A x \in OtherKeys : RawGetH(u, x) = IF x = k THEN v ELSE RawGetH(t, x)
        /\ k \in Map!MapKeys
    <2>1. CASE key[1] \in {"int", "flt"} /\ key[2] \in Positions
      <3>1. u = RawSetInt(t, key[2], v)
        BY <2>1 DEF RawSet
      <3>2. PositionSet(t, u, key[2], v)
        BY <2>1, <3>1, SetIntReads
      <3>3. k = <<"pos", key[2]>>
        BY <2>1, MapKeyOf
      <3> HIDE DEF u, k
      <3>4. \A n \in Positions : <<"pos", n>> = k <=> n = key[2]
        BY <3>3
      <3>5. \A x \in OtherKeys : x # k
        BY <2>1, <3>3, MapKeyForms
      <3> QED
        BY <2>1, <3>2, <3>3, <3>4, <3>5, MapKeyForms DEF PositionSet, OthersSame
    <2>2. CASE ~ (key[1] \in {"int", "flt"} /\ key[2] \in Positions)
      <3>1. u = RawSetH(t, key, v)
        BY <2>2 DEF RawSet
      <3>2. k \in OtherKeys /\ k = numericTableKey(key)
        BY <2>2, MapKeyOf
      <3> HIDE DEF k
      <3>3. numericTableKey(k) = k
        BY <3>2, KeysCanonical, OtherForms DEF HashKeys, DictKeys
      <3>4. u = RawSetH(t, k, v)
        BY <3>1, <3>2, <3>3 DEF RawSetH
      <3>5. \A n \in Positions : <<"pos", n>> # k
        BY <3>2, MapKeyForms
      <3>6. CASE k \in StrKeys
        <4>1. k[1] = "str"
          BY <3>6 DEF StrKeys
        <4>2. u = RawSetString(t, k, v)
          BY <3>3, <3>4, <4>1 DEF RawSetH
        <4> QED
          BY <3>2, <3>5, <3>6, <4>2, SetString, MapKeyForms DEF PositionsSame
      <3>7. CASE k \in RestKeys
        <4>1. DictSet(t, u, k, v)
          BY <3>4, <3>7, SetHSets DEF Shape, DictKeys
        <4> HIDE DEF u
        <4> QED
          BY <3>2, <3>5, <3>7, <4>1, SetRest, MapKeyForms DEF PositionsSame
      <3> QED
        BY <3>2, <3>6, <3>7, OtherForms
    <2> QED
      BY <2>1, <2>2
  <1> HIDE DEF u, k
  <1>2. DOMAIN m = Map!MapKeys /\ m = [x \in Map!MapKeys |-> m[x]]
    BY ContentReads DEF Content
  <1>3. \A x \in Map!MapKeys : m[x] = IF x = k THEN v ELSE Content(t)[x]
    BY <1>1, ContentReads
  <1> HIDE DEF m
  <1>4. \A n \in Positions : getIntKey(u, n) = m[<<"pos", n>>]
    BY <1>1, <1>3, ContentReads, MapKeyForms
  <1>5. \A x \in OtherKeys : RawGetH(u, x) = m[x]
    BY <1>1, <1>3, ContentReads, MapKeyForms
  <1>6. Content(u) = m
    BY <1>2, <1>4, <1>5, ContentIs
  <1> QED
    BY <1>1, <1>6 DEF u, m, k

-----------------------------------------------------------------------------
(* Borders.                                                                *)

\* lenOf skips the nils at the end of the array.
LEMMA LenOf ==
    ASSUME NEW t, Shape(t)
    PROVE  /\ lenOf(t) \in 0 .. Len(t.arr)
           /\ lenOf(t) # 0 => t.arr[lenOf(t)] # Nil
           /\ \A i \in lenOf(t) + 1 .. Len(t.arr) : t.arr[i] = Nil
  <1> DEFINE a == Len(t.arr)
             T == {n \in 0 .. a : \A i \in n + 1 .. a : t.arr[i] = Nil}
  <1>1. a \in Nat
    BY DEF Shape
  <1>2. PICK m \in T : \A n \in T : m <= n
    <2>1. a \in T
      <3> HIDE DEF a
      <3> QED
        BY <1>1
    <2>2. T \in SUBSET Nat
      <3> HIDE DEF a
      <3> QED
        BY <1>1
    <2> HIDE DEF T
    <2> QED
      BY <2>1, <2>2, SmallestExists
  <1> HIDE DEF a
  <1>3. m # 0 => t.arr[m] # Nil
    <2> SUFFICES ASSUME m # 0, t.arr[m] = Nil PROVE FALSE
      OBVIOUS
    <2>1. m \in 1 .. a /\ m - 1 \in 0 .. a
      BY <1>1
    <2>2. \A i \in (m - 1) + 1 .. a : t.arr[i] = Nil
      <3> SUFFICES ASSUME NEW i \in (m - 1) + 1 .. a PROVE t.arr[i] = Nil
        OBVIOUS
      <3>1. i = m \/ i \in m + 1 .. a
        BY <1>1, <2>1
      <3> QED
        BY <3>1
    <2>3. m - 1 \in T
      BY <2>1, <2>2
    <2>4. m <= m - 1
      BY <1>2, <2>3
    <2> QED
      BY <2>1, <2>4
  <1>4. lenOf(t) = CHOOSE n \in 0 .. a : /\ n # 0 => t.arr[n] # Nil
                                         /\ \A i \in n + 1 .. a : t.arr[i] = Nil
    BY DEF lenOf, a
  <1> QED
    BY <1>3, <1>4 DEF a

\* What it answers is a border of the whole table.
LEMMA LenBorder ==
    ASSUME NEW t, Shape(t), Apart(t)
    PROVE  lenOf(t) \in Map!Borders(Content(t))
  <1> USE SizeAssumption
  <1> DEFINE a == Len(t.arr)
             b == lenOf(t)
             c == Content(t)
  <1>1. a \in Nat /\ a < MaxArrayIndex
    BY DEF Shape
  <1>2. /\ b \in 0 .. a
        /\ b # 0 => t.arr[b] # Nil
        /\ \A i \in b + 1 .. a : t.arr[i] = Nil
    BY LenOf
  <1> HIDE DEF a, b
  <1>3. b \in Positions \cup {0}
    BY <1>1, <1>2 DEF Positions
  <1>4. b # 0 => Map!At(c, b) # Nil
    <2> SUFFICES ASSUME b # 0 PROVE Map!At(c, b) # Nil
      OBVIOUS
    <2>1. b \in Positions /\ b <= Len(t.arr)
      BY <1>1, <1>2, <1>3 DEF a
    <2>2. c[<<"pos", b>>] = t.arr[b]
      BY <2>1, ContentReads DEF getIntKey
    <2> QED
      BY <1>2, <2>1, <2>2 DEF Map!At, Map!Pos
  <1>5. Map!At(c, b + 1) = Nil
    <2>1. CASE b + 1 \notin Positions
      BY <2>1 DEF Map!At
    <2>2. CASE b + 1 \in Positions
      <3>1. c[<<"pos", b + 1>>] = getIntKey(t, b + 1)
        BY <2>2, ContentReads
      <3>2. CASE b + 1 <= a
        <4>1. b + 1 \in b + 1 .. a
          BY <1>1, <1>2, <3>2
        <4> QED
          BY <1>2, <2>2, <3>1, <3>2, <4>1 DEF getIntKey, Map!At, Map!Pos, a
      <3>3. CASE ~ (b + 1 <= a)
        <4>1. b = a
          BY <1>1, <1>2, <3>3
        <4>2. <<"flt", b + 1>> \notin DOMAIN t.dict
          <5> SUFFICES ASSUME <<"flt", b + 1>> \in DOMAIN t.dict PROVE FALSE
            OBVIOUS
          <5>1. b + 1 > a + 1
            BY <2>2 DEF Apart, a
          <5> QED
            BY <1>1, <4>1, <5>1
        <4>3. getIntKey(t, b + 1) = Nil
          BY <2>2, <3>3, <4>2, ReadPosition DEF a
        <4> QED
          BY <2>2, <3>1, <4>3 DEF Map!At, Map!Pos
      <3> QED
        BY <3>2, <3>3
    <2> QED
      BY <2>1, <2>2
  <1> QED
    BY <1>3, <1>4, <1>5 DEF Map!Borders, b

\* A bounded set of naturals has a largest element.
LEMMA LargestExists ==
    ASSUME NEW S \in SUBSET Nat, NEW n \in Nat, \A i \in S : i <= n
    PROVE  \E x \in {0} \cup S : \A i \in S : i <= x
  <1> DEFINE T == {m \in Nat : \A i \in S : i <= m}
  <1>1. T \in SUBSET Nat /\ n \in T
    OBVIOUS
  <1>2. PICK m \in T : \A y \in T : m <= y
    <2> HIDE DEF T
    <2> QED
      BY <1>1, SmallestExists
  <1>3. m \in {0} \cup S
    <2> SUFFICES ASSUME m # 0, m \notin S PROVE FALSE
      OBVIOUS
    <2>1. m - 1 \in Nat /\ m \in Nat
      OBVIOUS
    <2>2. ASSUME NEW i \in S PROVE i <= m - 1
      <3>1. i <= m /\ i # m /\ i \in Nat
        OBVIOUS
      <3> QED
        BY <2>1, <3>1
    <2>3. m - 1 \in T
      BY <2>1, <2>2
    <2>4. m <= m - 1
      BY <1>2, <2>3
    <2> QED
      BY <2>1, <2>4
  <1> QED
    BY <1>3

\* MaxN answers the largest position present.
LEMMA LargestPosition ==
    ASSUME NEW t, Shape(t), Apart(t)
    PROVE  /\ \A n \in Positions : n > MaxN(t) => getIntKey(t, n) = Nil
           /\ MaxN(t) # 0 => getIntKey(t, MaxN(t)) # Nil
           /\ MaxN(t) \in Positions \cup {0}
  <1> USE SizeAssumption
  <1> DEFINE present == {n \in Positions : \/ n <= Len(t.arr) /\ t.arr[n] # Nil
                                           \/ <<"flt", n>> \in DOMAIN t.dict}
             x == MaxN(t)
  <1>1. x = CHOOSE n \in {0} \cup present : \A i \in present : i <= n
    BY DEF MaxN
  <1>2. present \in SUBSET Nat /\ \A i \in present : i <= MaxArrayIndex
    BY DEF Positions
  <1> HIDE DEF present, x
  <1>3. x \in {0} \cup present /\ \A i \in present : i <= x
    <2>1. \E y \in {0} \cup present : \A i \in present : i <= y
      BY <1>2, LargestExists
    <2> QED
      BY <1>1, <2>1
  <1>4. ASSUME NEW n \in present PROVE getIntKey(t, n) # Nil
    <2>1. n \in Positions /\ n \in Nat /\ Len(t.arr) \in Nat
      BY DEF present, Positions, Shape
    <2>2. CASE n <= Len(t.arr) /\ t.arr[n] # Nil
      BY <2>2 DEF getIntKey
    <2>3. CASE <<"flt", n>> \in DOMAIN t.dict
      <3>1. ~ (n <= Len(t.arr))
        <4>1. n > Len(t.arr) + 1
          BY <2>1, <2>3 DEF Apart
        <4> QED
          BY <2>1, <4>1
      <3>2. t.dict[<<"flt", n>>] # Nil
        BY <2>3, ValueAssumption DEF Shape
      <3> QED
        BY <2>1, <2>3, <3>1, <3>2, ReadPosition
    <2> QED
      BY <2>2, <2>3 DEF present
  <1>5. ASSUME NEW n \in Positions, n \notin present PROVE getIntKey(t, n) = Nil
    BY <1>5, ReadPosition DEF present
  <1>6. ASSUME NEW n \in Positions, n > x PROVE getIntKey(t, n) = Nil
    <2>1. n \in Nat /\ x \in Nat
      BY <1>2, <1>3 DEF Positions
    <2>2. n \notin present
      BY <1>3, <1>6, <2>1
    <2> QED
      BY <1>5, <2>2
  <1>7. present \subseteq Positions
    BY DEF present
  <1> QED
    BY <1>3, <1>4, <1>6, <1>7 DEF x

-----------------------------------------------------------------------------
(* List operations.                                                        *)

\* Append sets the position after the length.
LEMMA AppendReads ==
    ASSUME BelowLimit, NEW t, Shape(t), Apart(t), Len(t.arr) < MaxLen, NEW v \in Values
    PROVE  /\ lenOf(t) + 1 \in Positions
           /\ PositionSet(t, append(t, v), lenOf(t) + 1, v)
  <1> USE SizeAssumption
  <1> DEFINE a == Len(t.arr)
             b == lenOf(t)
             u == append(t, v)
  <1>1. a \in Nat /\ a < MaxLen /\ t.arr \in Seq(Values \cup {Nil}) /\ DOMAIN t = Fields
    BY DEF Shape
  <1>2. /\ b \in 0 .. a
        /\ b # 0 => t.arr[b] # Nil
        /\ \A i \in b + 1 .. a : t.arr[i] = Nil
    BY LenOf
  <1>3. b + 1 \in Positions
    <2> HIDE DEF a, b
    <2> QED
      BY <1>1, <1>2 DEF Positions, BelowLimit
  <1>4. CASE t.arr = <<>> \/ t.arr[a] # Nil
    <2> DEFINE w == [t EXCEPT !.made = TRUE, !.arr = Append(@, v)]
               f == forgetDeletedArrayKey(w, {a + 1})
    <2>1. u = pullHashed(f)
      <3>1. u = IF DOMAIN f.dict = {} THEN f ELSE pullHashed(f)
        BY <1>4 DEF append
      <3> QED
        BY <3>1, PullForm
    <2>2. /\ DOMAIN w = Fields /\ w.str = t.str /\ w.dict = t.dict
          /\ w.arr = Append(t.arr, v)
      BY <1>1 DEF Fields
    <2> HIDE DEF w
    <2>3. SameData(w, f)
      BY <2>2, ForgetKeepsData
    <2> HIDE DEF f
    <2>4. b = a
      <3>1. CASE t.arr = <<>>
        <4>1. a = 0
          BY <3>1
        <4> HIDE DEF a, b
        <4> QED
          BY <1>2, <4>1
      <3>2. CASE t.arr[a] # Nil
        <4> HIDE DEF a, b
        <4>1. a \notin b + 1 .. a
          BY <1>2, <3>2
        <4> QED
          BY <1>1, <1>2, <4>1
      <3> QED
        BY <1>4, <3>1, <3>2
    <2>5. GrewTo(t, f, a + 1, v)
      <3>1. f.arr = Append(t.arr, v) /\ f.dict = t.dict /\ f.str = t.str /\ DOMAIN f = Fields
        BY <2>2, <2>3 DEF SameData
      <3>2. /\ f.arr \in Seq(Values \cup {Nil}) /\ Len(f.arr) = a + 1
            /\ \A m \in 1 .. a : f.arr[m] = t.arr[m]
            /\ f.arr[a + 1] = v
        BY <1>1, <3>1
      <3>3. Dropped(t.dict, f.dict, Taken(t, a + 1 .. a + 1))
        <4>1. <<"flt", a + 1>> \notin DOMAIN t.dict
          <5>1. b + 1 > Len(t.arr) + 1 => FALSE
            BY <1>1, <2>4
          <5> QED
            BY <1>3, <2>4, <5>1 DEF Apart
        <4>2. \A k \in DOMAIN t.dict : k[1] = "flt" /\ k[2] \in a + 1 .. a + 1 =>
                 k = <<"flt", a + 1>>
          <5>1. ASSUME NEW k \in DOMAIN t.dict, k[1] = "flt" PROVE k = <<"flt", k[2]>>
            <6>1. k \in ArrayKeys \cup RestKeys
              BY DEF Shape, DictKeys
            <6> QED
              BY <5>1, <6>1 DEF ArrayKeys, RestKeys
          <5>2. \A x : x \in a + 1 .. a + 1 => x = a + 1
            BY <1>1
          <5> QED
            BY <5>1, <5>2
        <4>3. Taken(t, a + 1 .. a + 1) = {}
          BY <4>1, <4>2 DEF Taken
        <4> QED
          BY <3>1, <4>3 DEF Dropped
      <3>4. \A m \in a + 1 .. a + 1 :
                f.arr[m] = IF m = a + 1 THEN v ELSE RawGetH(t, <<"flt", m>>)
        BY <1>1, <3>2
      <3>5. a + 1 > Len(t.arr)
        BY <1>1
      <3> QED
        BY <3>1, <3>2, <3>3, <3>4, <3>5 DEF GrewTo
    <2>6. /\ Shape(f) /\ Beyond(f) /\ OthersSame(t, f)
          /\ \A m \in Positions : getIntKey(f, m) = IF m = a + 1 THEN v ELSE getIntKey(t, m)
      <3>1. PICK n \in Positions : n = a + 1
        BY <1>3, <2>4
      <3>2. GrewTo(t, f, n, v)
        BY <2>5, <3>1
      <3>3. /\ Shape(f) /\ Beyond(f) /\ OthersSame(t, f)
            /\ \A m \in Positions : getIntKey(f, m) = IF m = n THEN v ELSE getIntKey(t, m)
        BY <3>2, GrowReads
      <3> QED
        BY <3>1, <3>3
    <2>7. /\ Shape(pullHashed(f)) /\ Apart(pullHashed(f))
          /\ PositionsSame(f, pullHashed(f)) /\ OthersSame(f, pullHashed(f))
      BY <2>6, PullReads
    <2> QED
      BY <1>3, <2>1, <2>4, <2>6, <2>7 DEF PositionSet, PositionsSame, OthersSame
  <1>5. CASE ~ (t.arr = <<>> \/ t.arr[a] # Nil)
    <2> DEFINE w == [t EXCEPT !.arr[b + 1] = v]
    <2>1. u = forgetDeletedArrayKey(w, {b + 1})
      BY <1>5 DEF append
    <2>2. b + 1 <= Len(t.arr)
      <3>1. a # 0
        BY <1>1, <1>5
      <3>2. b # a
        BY <1>2, <1>5, <3>1
      <3>3. b + 1 <= a
        <4> HIDE DEF a, b
        <4> QED
          BY <1>1, <1>2, <3>2
      <3> QED
        BY <3>3
    <2>3. PositionSet(t, w, b + 1, v)
      BY <1>3, <2>2, SetInArray
    <2> HIDE DEF w
    <2>4. SameData(w, forgetDeletedArrayKey(w, {b + 1}))
      BY <2>3, ForgetKeepsData DEF PositionSet, Shape
    <2> QED
      BY <1>3, <2>1, <2>3, <2>4, SetThenSame
  <1> QED
    BY <1>4, <1>5

\* Writing one position is writing one field of the map.
MapSet(m, k, v) == [m EXCEPT ![k] = v]
\* Setting one position sets one key of the map.
LEMMA PositionSetContent ==
    ASSUME NEW t, NEW u, NEW n \in Positions, NEW v, PositionSet(t, u, n, v)
    PROVE  Content(u) = MapSet(Content(t), <<"pos", n>>, v)
  <1> DEFINE k == <<"pos", n>>
             m == [Content(t) EXCEPT ![k] = v]
  <1>1. DOMAIN m = Map!MapKeys /\ m = [x \in Map!MapKeys |-> m[x]]
    BY ContentReads DEF Content
  <1>2. \A x \in Map!MapKeys : m[x] = IF x = k THEN v ELSE Content(t)[x]
    BY ContentReads, MapKeyForms
  <1>3. \A i \in Positions : <<"pos", i>> = k <=> i = n
    OBVIOUS
  <1>4. \A x \in OtherKeys : x # k
    BY MapKeyForms
  <1> HIDE DEF m, k
  <1>5. \A i \in Positions : getIntKey(u, i) = m[<<"pos", i>>]
    BY <1>2, <1>3, ContentReads, MapKeyForms DEF PositionSet
  <1>6. \A x \in OtherKeys : RawGetH(u, x) = m[x]
    BY <1>2, <1>4, ContentReads, MapKeyForms DEF PositionSet, OthersSame
  <1>7. Content(u) = m
    BY <1>1, <1>5, <1>6, ContentIs
  <1> QED
    BY <1>7 DEF m, k, MapSet

\* Append does what TableMap says.
LEMMA AppendConforms ==
    ASSUME BelowLimit, NEW t, Shape(t), Apart(t), Len(t.arr) < MaxLen, NEW v \in Values
    PROVE  Content(append(t, v)) \in Map!AfterAppend(Content(t), v)
  <1> DEFINE b == lenOf(t)
  <1>1. b + 1 \in Positions /\ PositionSet(t, append(t, v), b + 1, v)
    BY AppendReads
  <1>2. Content(append(t, v)) = [Content(t) EXCEPT ![<<"pos", b + 1>>] = v]
    <2>1. PICK n \in Positions : n = b + 1
      BY <1>1
    <2>2. PositionSet(t, append(t, v), n, v)
      BY <1>1, <2>1
    <2>3. Content(append(t, v)) = MapSet(Content(t), <<"pos", n>>, v)
      BY <2>2, PositionSetContent
    <2> QED
      BY <2>1, <2>3 DEF MapSet
  <1>3. b \in Map!Borders(Content(t))
    BY LenBorder
  <1> HIDE DEF b
  <1> QED
    BY <1>1, <1>2, <1>3 DEF Map!AfterAppend, Map!Pos

\* u reads as t does, but for the positions from i to the border b, which have
\* moved up for v.
Inserted(t, u, i, b, v) ==
    /\ OthersSame(t, u)
    /\ \A m \in Positions :
          getIntKey(u, m) = IF m = i THEN v
                            ELSE IF m \in i + 1 .. b + 1 THEN getIntKey(t, m - 1)
                            ELSE getIntKey(t, m)

\* The table insert hands to pullHashed, but for its cursors.
Shifted(t, i, v) ==
    LET length == lenOf(t)
        room == IF length = Len(t.arr) THEN Append(t.arr, Nil) ELSE t.arr
    IN  [t EXCEPT !.arr = [j \in DOMAIN room |->
                              IF j = i THEN v
                              ELSE IF j \in i + 1 .. length + 1 THEN room[j - 1]
                              ELSE room[j]]]

\* Insert by these definitions.
LEMMA InsertForm ==
    ASSUME NEW t, NEW i \in Int, NEW v
    PROVE  insert(t, i, v) =
               IF i > lenOf(t) THEN RawSetInt(t, i, v)
               ELSE IF i <= 0 THEN RawSet(t, <<"flt", i>>, v)
               ELSE pullHashed(forgetDeletedArrayKey(Shifted(t, i, v), {lenOf(t) + 1}))
  BY DEF insert, Shifted

\* The array after elements have moved up.
LEMMA ShiftedData ==
    ASSUME NEW t, Shape(t), NEW i \in 1 .. lenOf(t), NEW v \in Values \cup {Nil}
    PROVE  LET w == Shifted(t, i, v)
           IN  /\ DOMAIN w = Fields /\ w.str = t.str /\ w.dict = t.dict
               /\ w.arr \in Seq(Values \cup {Nil})
               /\ Len(w.arr) = IF lenOf(t) = Len(t.arr) THEN Len(t.arr) + 1 ELSE Len(t.arr)
               /\ \A j \in 1 .. Len(w.arr) :
                     w.arr[j] = IF j = i THEN v
                                ELSE IF j \in i + 1 .. lenOf(t) + 1 THEN t.arr[j - 1]
                                ELSE t.arr[j]
  <1> DEFINE a == Len(t.arr)
             b == lenOf(t)
             r == IF b = a THEN a + 1 ELSE a
             room == IF b = a THEN Append(t.arr, Nil) ELSE t.arr
             s == [j \in DOMAIN room |-> IF j = i THEN v
                                         ELSE IF j \in i + 1 .. b + 1 THEN room[j - 1]
                                         ELSE room[j]]
             w == Shifted(t, i, v)
  <1>1. /\ DOMAIN t = Fields /\ a \in Nat /\ t.arr \in Seq(Values \cup {Nil})
        /\ b \in 0 .. a
    BY LenOf DEF Shape
  <1>2. w = [t EXCEPT !.arr = s]
    BY DEF Shifted
  <1>3. /\ DOMAIN room = 1 .. r /\ r \in Nat
        /\ \A j \in 1 .. r : room[j] \in Values \cup {Nil}
        /\ \A j \in 1 .. a : room[j] = t.arr[j]
    <2>1. CASE b = a
      BY <1>1, <2>1
    <2>2. CASE b # a
      BY <1>1, <2>2
    <2> QED
      BY <2>1, <2>2
  <1>4. r = IF b = a THEN a + 1 ELSE a
    OBVIOUS
  <1> HIDE DEF room, r, a, b, w
  <1>5. \A j \in 1 .. r : j \in i + 1 .. b + 1 => j - 1 \in 1 .. a /\ j - 1 \in 1 .. r
    BY <1>1, <1>4 DEF b
  <1>6. \A j \in 1 .. r : j \notin i + 1 .. b + 1 /\ j # i => j \in 1 .. a
    BY <1>1, <1>4 DEF b
  <1>7. s \in [1 .. r -> Values \cup {Nil}]
    <2>1. \A j \in DOMAIN s : s[j] \in Values \cup {Nil}
      BY <1>3, <1>5
    <2> QED
      BY <1>3, <2>1
  <1>8. \A j \in 1 .. r : s[j] = IF j = i THEN v
                                 ELSE IF j \in i + 1 .. b + 1 THEN t.arr[j - 1] ELSE t.arr[j]
    BY <1>3, <1>5, <1>6
  <1>9. /\ DOMAIN w = Fields /\ w.str = t.str /\ w.dict = t.dict /\ w.arr = s
    <2> HIDE DEF s
    <2> QED
      BY <1>1, <1>2 DEF Fields
  <1>10. s \in Seq(Values \cup {Nil}) /\ Len(s) = r
    <2> HIDE DEF s
    <2> QED
      BY <1>3, <1>7
  <1> QED
    BY <1>4, <1>8, <1>9, <1>10 DEF w, a, b

\* Insert moves the elements up to the length, and only those,
LEMMA InsertReads ==
    ASSUME BelowLimit, NEW t, Shape(t), Apart(t), Len(t.arr) < MaxLen,
           NEW i \in 1 .. lenOf(t), NEW v \in Values \cup {Nil}
    PROVE  /\ Shape(insert(t, i, v)) /\ Apart(insert(t, i, v))
           /\ Inserted(t, insert(t, i, v), i, lenOf(t), v)
           /\ lenOf(t) + 1 \in Positions
  <1> USE SizeAssumption
  <1> DEFINE a == Len(t.arr)
             b == lenOf(t)
             w == Shifted(t, i, v)
             f == forgetDeletedArrayKey(w, {b + 1})
             r == Len(w.arr)
  <1>1. a \in Nat /\ b \in 0 .. a /\ a < MaxLen
    BY LenOf DEF Shape
  <1>2. /\ DOMAIN w = Fields /\ w.str = t.str /\ w.dict = t.dict
        /\ w.arr \in Seq(Values \cup {Nil})
        /\ r = IF b = a THEN a + 1 ELSE a
        /\ \A j \in 1 .. r :
              w.arr[j] = IF j = i THEN v
                         ELSE IF j \in i + 1 .. b + 1 THEN t.arr[j - 1]
                         ELSE t.arr[j]
    BY ShiftedData
  <1>3. insert(t, i, v) = pullHashed(f)
    <2>1. i \in Int /\ ~ (i > lenOf(t)) /\ ~ (i <= 0)
      BY <1>1 DEF b
    <2> QED
      BY <2>1, InsertForm
  <1> HIDE DEF w
  <1>4. SameData(w, f)
    BY <1>2, ForgetKeepsData
  <1> HIDE DEF a, b, r, f
  <1>5. i \in 1 .. b
    BY DEF b
  <1>6. b + 1 \in Positions
    BY <1>1 DEF BelowLimit, Positions
  <1>7. Shape(w)
    <2>1. r < MaxArrayIndex
      BY <1>1, <1>2 DEF BelowLimit
    <2> QED
      BY <1>2, <2>1 DEF Shape, r
  <1>8. Beyond(w)
    <2> SUFFICES ASSUME NEW n \in Positions, <<"flt", n>> \in DOMAIN w.dict PROVE n > r
      BY DEF Beyond, r
    <2>1. n > a + 1 /\ n \in Nat
      BY <1>2 DEF Apart, a, Positions
    <2> QED
      BY <1>1, <1>2, <2>1
  <1>9. Inserted(t, w, i, b, v)
    <2>1. OthersSame(t, w)
      BY <1>2, <1>7, OthersFollow
    <2>2. ASSUME NEW m \in Positions
          PROVE  getIntKey(w, m) = IF m = i THEN v
                                   ELSE IF m \in i + 1 .. b + 1 THEN getIntKey(t, m - 1)
                                   ELSE getIntKey(t, m)
      <3>1. m \in Nat \ {0}
        BY DEF Positions
      <3>2. CASE m <= r
        <4>1. m \in 1 .. r
          BY <3>1, <3>2
        <4>2. getIntKey(w, m) = w.arr[m]
          BY <3>2 DEF getIntKey, r
        <4>3. m \in i + 1 .. b + 1 => getIntKey(t, m - 1) = t.arr[m - 1]
          <5> SUFFICES ASSUME m \in i + 1 .. b + 1 PROVE m - 1 <= a
            BY DEF getIntKey, a
          <5> QED
            BY <1>1, <1>5
        <4>4. m \notin i + 1 .. b + 1 /\ m # i => getIntKey(t, m) = t.arr[m]
          <5> SUFFICES ASSUME m \notin i + 1 .. b + 1, m # i PROVE m <= a
            BY DEF getIntKey, a
          <5> QED
            BY <1>1, <1>2, <1>5, <4>1
        <4> QED
          BY <1>2, <4>1, <4>2, <4>3, <4>4
      <3>3. CASE m > r
        <4>1. ~ (m <= r) /\ ~ (m <= a) /\ m # i /\ m \notin i + 1 .. b + 1
          BY <1>1, <1>2, <1>5, <3>1, <3>3
        <4>2. /\ getIntKey(w, m) = IF m <= r THEN w.arr[m]
                                   ELSE IF <<"flt", m>> \in DOMAIN w.dict
                                   THEN w.dict[<<"flt", m>>] ELSE Nil
              /\ getIntKey(t, m) = IF m <= a THEN t.arr[m]
                                   ELSE IF <<"flt", m>> \in DOMAIN t.dict
                                   THEN t.dict[<<"flt", m>>] ELSE Nil
          BY <1>7, ReadPosition DEF a, r
        <4> QED
          BY <1>2, <4>1, <4>2
      <3>4. r \in Nat
        BY <1>1, <1>2
      <3> QED
        BY <3>1, <3>2, <3>3, <3>4
    <2> QED
      BY <2>1, <2>2 DEF Inserted
  <1>10. Shape(f) /\ Beyond(f) /\ PositionsSame(w, f) /\ OthersSame(w, f)
    <2>1. Beyond(f)
      BY <1>4, <1>8 DEF Beyond, SameData
    <2> QED
      BY <1>4, <1>7, <2>1, ShapeKept, SameReads
  <1>11. /\ Shape(pullHashed(f)) /\ Apart(pullHashed(f))
         /\ PositionsSame(f, pullHashed(f)) /\ OthersSame(f, pullHashed(f))
    BY <1>10, PullReads
  <1>12. Inserted(t, pullHashed(f), i, b, v)
    BY <1>9, <1>10, <1>11 DEF Inserted, PositionsSame, OthersSame
  <1> QED
    BY <1>3, <1>6, <1>11, <1>12 DEF b

\* An index that is no position of the list is an assignment.
LEMMA InsertOutside ==
    ASSUME NEW t, Shape(t), Apart(t), NEW i \in 0 .. MaxArrayIndex, i \notin 1 .. lenOf(t),
           NEW v \in Values \cup {Nil}
    PROVE  /\ Shape(insert(t, i, v)) /\ Apart(insert(t, i, v))
           /\ \E key \in Keys : insert(t, i, v) = RawSet(t, key, v)
  <1> USE SizeAssumption
  <1> DEFINE u == insert(t, i, v)
  <1>1. lenOf(t) \in Nat
    <2>1. Len(t.arr) \in Nat /\ lenOf(t) \in 0 .. Len(t.arr)
      BY LenOf DEF Shape
    <2> QED
      BY <2>1
  <1>0. /\ i \in Int
        /\ u = IF i > lenOf(t) THEN RawSetInt(t, i, v)
               ELSE IF i <= 0 THEN RawSet(t, <<"flt", i>>, v)
               ELSE pullHashed(forgetDeletedArrayKey(Shifted(t, i, v), {lenOf(t) + 1}))
    <2>1. i \in Int
      OBVIOUS
    <2> QED
      BY <2>1, InsertForm
  <1> HIDE DEF u
  <1>2. \E key \in Keys : u = RawSet(t, key, v)
    <2>1. CASE i > lenOf(t) /\ i \in Positions
      <3>1. u = RawSetInt(t, i, v)
        BY <1>0, <2>1
      <3>2. u = RawSet(t, <<"flt", i>>, v)
        BY <2>1, <3>1 DEF RawSet
      <3> QED
        BY <2>1, <3>2 DEF Keys, ArrayKeys
    <2>2. CASE i > lenOf(t) /\ i \notin Positions
      <3>1. i = MaxArrayIndex
        BY <1>1, <2>2 DEF Positions
      <3>2. u = RawSetH(t, <<"int", i>>, v)
        BY <1>0, <2>2 DEF RawSetInt
      <3>3. u = RawSet(t, <<"int", i>>, v)
        BY <2>2, <3>2 DEF RawSet
      <3> QED
        BY <3>1, <3>3 DEF Keys, OtherKeys
    <2>3. CASE ~ (i > lenOf(t))
      <3>1. i = 0
        BY <1>1, <2>3
      <3>2. u = RawSet(t, <<"flt", i>>, v)
        BY <1>0, <2>3, <3>1
      <3> QED
        BY <3>1, <3>2 DEF Keys
    <2> QED
      BY <2>1, <2>2, <2>3
  <1> QED
    BY <1>2, SetReads DEF u

\* as TableMap says.
LEMMA InsertConforms ==
    ASSUME BelowLimit, NEW t, Shape(t), Apart(t), Len(t.arr) < MaxLen,
           NEW i \in 1 .. lenOf(t), NEW v \in Values \cup {Nil}
    PROVE  Content(insert(t, i, v)) \in Map!AfterInsert(Content(t), i, v)
  <1> USE SizeAssumption
  <1> DEFINE b == lenOf(t)
             c == Content(t)
             u == insert(t, i, v)
             M == [k \in Map!MapKeys |->
                      IF \E n \in i .. b + 1 : k = Map!Pos(n)
                      THEN IF k[2] = i THEN v ELSE Map!At(c, k[2] - 1)
                      ELSE c[k]]
  <1>1. Inserted(t, u, i, b, v) /\ b + 1 \in Positions
    BY InsertReads
  <1>2. b \in Map!Borders(c)
    BY LenBorder
  <1>3. b \in Nat /\ i \in 1 .. b /\ i \in Nat
    <2>1. Len(t.arr) \in Nat /\ b \in 0 .. Len(t.arr)
      BY LenOf DEF Shape
    <2> QED
      BY <2>1
  <1> HIDE DEF b, u, c
  <1>4. M \in Map!AfterInsert(c, i, v)
    <2>1. i <= b
      BY <1>3
    <2> QED
      BY <1>1, <1>2, <2>1 DEF Map!AfterInsert, Map!WithPositions
  <1>5. ASSUME NEW m \in Positions PROVE getIntKey(u, m) = M[<<"pos", m>>]
    <2>1. m \in Nat /\ <<"pos", m>> \in Map!MapKeys
      BY MapKeyForms DEF Positions
    <2>2. (\E n \in i .. b + 1 : <<"pos", m>> = Map!Pos(n)) <=> m \in i .. b + 1
      BY DEF Map!Pos
    <2>3. M[<<"pos", m>>] = IF m \in i .. b + 1
                            THEN IF m = i THEN v ELSE Map!At(c, m - 1)
                            ELSE c[<<"pos", m>>]
      BY <2>1, <2>2
    <2> HIDE DEF M
    <2>4. c[<<"pos", m>>] = getIntKey(t, m)
      BY ContentReads DEF c
    <2>5. m \in i + 1 .. b + 1 => Map!At(c, m - 1) = getIntKey(t, m - 1)
      <3> SUFFICES ASSUME m \in i + 1 .. b + 1 PROVE Map!At(c, m - 1) = getIntKey(t, m - 1)
        OBVIOUS
      <3>1. m - 1 \in Positions
        BY <1>1, <1>3 DEF Positions
      <3> QED
        BY <3>1, ContentReads DEF Map!At, Map!Pos, c
    <2>6. /\ m \in i .. b + 1 /\ m # i => m \in i + 1 .. b + 1
          /\ m \notin i .. b + 1 => m # i /\ m \notin i + 1 .. b + 1
          /\ m = i => m \in i .. b + 1
      BY <1>3, <2>1
    <2>7. getIntKey(u, m) = IF m = i THEN v
                            ELSE IF m \in i + 1 .. b + 1 THEN getIntKey(t, m - 1)
                            ELSE getIntKey(t, m)
      BY <1>1 DEF Inserted
    <2> QED
      BY <2>3, <2>4, <2>5, <2>6, <2>7
  <1>6. ASSUME NEW k \in OtherKeys PROVE RawGetH(u, k) = M[k]
    <2>1. k \in Map!MapKeys /\ ~ \E n \in i .. b + 1 : k = Map!Pos(n)
      BY MapKeyForms DEF Map!Pos
    <2> QED
      BY <1>1, <2>1, ContentReads DEF Inserted, OthersSame, c
  <1>7. DOMAIN M = Map!MapKeys /\ M = [k \in Map!MapKeys |-> M[k]]
    OBVIOUS
  <1> HIDE DEF M
  <1>8. Content(u) = M
    BY <1>5, <1>6, <1>7, ContentIs
  <1> QED
    BY <1>4, <1>8 DEF u, c

\* u reads as t does, but for the positions from at to the border b, which have
\* moved down over the one at at.
Removed(t, u, at, b) ==
    /\ OthersSame(t, u)
    /\ \A m \in Positions :
          getIntKey(u, m) = IF m = b THEN Nil
                            ELSE IF m \in at .. b THEN getIntKey(t, m + 1)
                            ELSE getIntKey(t, m)

\* The table remove leaves, but for its cursors.
Closed(t, at) ==
    [t EXCEPT !.arr = [j \in 1 .. lenOf(t) - 1 |-> IF j < at THEN @[j] ELSE @[j + 1]]]

\* Remove by these definitions.
LEMMA RemoveForm ==
    ASSUME NEW t, NEW pos
    PROVE  remove(t, pos) =
               IF lenOf(t) = 0 \/ pos > lenOf(t) THEN t
               ELSE forgetDeletedArrayKey(Closed(t, IF pos <= 0 THEN lenOf(t) ELSE pos),
                                          {lenOf(t)})
  BY DEF remove, Closed

\* The array after elements have moved down.
LEMMA ClosedReads ==
    ASSUME NEW t, Shape(t), Apart(t), NEW at \in 1 .. lenOf(t)
    PROVE  LET w == Closed(t, at)
           IN  /\ Shape(w) /\ Apart(w)
               /\ w.str = t.str /\ w.dict = t.dict
               /\ Len(w.arr) = lenOf(t) - 1
               /\ Removed(t, w, at, lenOf(t))
  <1> USE SizeAssumption
  <1> DEFINE a == Len(t.arr)
             b == lenOf(t)
             e == b - 1
             s == [j \in 1 .. b - 1 |-> IF j < at THEN t.arr[j] ELSE t.arr[j + 1]]
             w == Closed(t, at)
  <1>1. /\ DOMAIN t = Fields /\ a \in Nat /\ a < MaxArrayIndex
        /\ t.arr \in Seq(Values \cup {Nil})
        /\ b \in 0 .. a /\ at \in 1 .. b
        /\ \A i \in b + 1 .. a : t.arr[i] = Nil
    BY LenOf DEF Shape
  <1>2. w = [t EXCEPT !.arr = s]
    BY DEF Closed
  <1> HIDE DEF w, b
  <1>3. e \in Nat /\ e < a /\ e + 1 = b
    <2> HIDE DEF a
    <2> QED
      BY <1>1
  <1>4. s \in Seq(Values \cup {Nil}) /\ Len(s) = e
    <2>1. \A j \in 1 .. a : t.arr[j] \in Values \cup {Nil}
      BY <1>1
    <2> HIDE DEF a
    <2>2. \A j \in 1 .. e : j \in 1 .. a /\ j + 1 \in 1 .. a
      BY <1>1, <1>3
    <2>3. s \in [1 .. e -> Values \cup {Nil}]
      BY <2>1, <2>2
    <2> HIDE DEF s, e
    <2> QED
      BY <1>3, <2>3
  <1>5. \A j \in 1 .. e : s[j] = IF j < at THEN t.arr[j] ELSE t.arr[j + 1]
    OBVIOUS
  <1> HIDE DEF s, e
  <1>6. DOMAIN w = Fields /\ w.str = t.str /\ w.dict = t.dict /\ w.arr = s
    BY <1>1, <1>2 DEF Fields
  <1>7. Shape(w)
    <2>1. e < MaxArrayIndex
      <3> HIDE DEF a
      <3> QED
        BY <1>1, <1>3
    <2> QED
      BY <1>4, <1>6, <2>1 DEF Shape
  <1>8. Apart(w)
    <2> SUFFICES ASSUME NEW n \in Positions, <<"flt", n>> \in DOMAIN t.dict PROVE n > e + 1
      BY <1>4, <1>6 DEF Apart
    <2>1. n > a + 1 /\ n \in Nat
      BY DEF Apart, Positions
    <2> HIDE DEF a
    <2> QED
      BY <1>1, <1>3, <2>1
  <1>9. OthersSame(t, w)
    BY <1>6, <1>7, OthersFollow
  <1>10. ASSUME NEW m \in Positions
         PROVE  getIntKey(w, m) = IF m = b THEN Nil
                                  ELSE IF m \in at .. b THEN getIntKey(t, m + 1)
                                  ELSE getIntKey(t, m)
    <2>1. m \in Nat \ {0}
      BY DEF Positions
    <2>2. /\ getIntKey(w, m) = IF m <= e THEN s[m]
                               ELSE IF <<"flt", m>> \in DOMAIN t.dict
                               THEN t.dict[<<"flt", m>>] ELSE Nil
          /\ getIntKey(t, m) = IF m <= a THEN t.arr[m]
                               ELSE IF <<"flt", m>> \in DOMAIN t.dict
                               THEN t.dict[<<"flt", m>>] ELSE Nil
      BY <1>4, <1>6, <1>7, ReadPosition
    <2>3. m <= a => <<"flt", m>> \notin DOMAIN t.dict
      <3> SUFFICES ASSUME m <= a, <<"flt", m>> \in DOMAIN t.dict PROVE FALSE
        OBVIOUS
      <3>1. m > a + 1
        BY DEF Apart
      <3> HIDE DEF a
      <3> QED
        BY <1>1, <2>1, <3>1
    <2>4. m + 1 <= a => getIntKey(t, m + 1) = t.arr[m + 1]
      BY DEF getIntKey
    <2> HIDE DEF a
    <2>5. CASE m < at
      <3>1. m <= e /\ m <= a /\ m # b /\ m \notin at .. b /\ m \in 1 .. e
        BY <1>1, <1>3, <2>1, <2>5
      <3> QED
        BY <1>5, <2>2, <2>5, <3>1
    <2>6. CASE m >= at /\ m < b
      <3>1. m <= e /\ m + 1 <= a /\ m # b /\ m \in at .. b /\ ~ (m < at) /\ m \in 1 .. e
        BY <1>1, <1>3, <2>1, <2>6
      <3> QED
        BY <1>5, <2>2, <2>4, <3>1
    <2>7. CASE m = b
      <3>1. ~ (m <= e) /\ m <= a
        BY <1>1, <1>3, <2>1, <2>7
      <3> QED
        BY <2>2, <2>3, <2>7, <3>1
    <2>8. CASE m > b
      <3>1. ~ (m <= e) /\ m # b /\ m \notin at .. b /\ (m <= a => m \in b + 1 .. a)
        BY <1>1, <1>3, <2>1, <2>8
      <3> QED
        BY <1>1, <2>2, <2>3, <3>1
    <2> QED
      BY <1>1, <2>1, <2>5, <2>6, <2>7, <2>8
  <1> QED
    BY <1>3, <1>4, <1>6, <1>7, <1>8, <1>9, <1>10 DEF Removed, w, b, e

\* Remove moves the elements up to the length, or does nothing,
LEMMA RemoveReads ==
    ASSUME NEW t, Shape(t), Apart(t), NEW pos \in Nat
    PROVE  LET u == remove(t, pos)
           IN  /\ Shape(u) /\ Apart(u)
               /\ \/ u = t /\ (lenOf(t) = 0 \/ pos > lenOf(t))
                  \/ /\ ~ (lenOf(t) = 0 \/ pos > lenOf(t))
                     /\ Removed(t, u, IF pos <= 0 THEN lenOf(t) ELSE pos, lenOf(t))
  <1> DEFINE b == lenOf(t)
             at == IF pos <= 0 THEN b ELSE pos
             w == Closed(t, at)
             u == remove(t, pos)
  <1>1. b \in Nat
    <2>1. Len(t.arr) \in Nat /\ b \in 0 .. Len(t.arr)
      BY LenOf DEF Shape
    <2> QED
      BY <2>1
  <1>2. CASE b = 0 \/ pos > b
    BY <1>2, RemoveForm
  <1>3. CASE ~ (b = 0 \/ pos > b)
    <2>1. at \in 1 .. lenOf(t)
      <3> HIDE DEF b
      <3>1. at \in 1 .. b
        BY <1>1, <1>3
      <3> QED
        BY <3>1 DEF b
    <2>2. u = forgetDeletedArrayKey(w, {b})
      BY <1>3, RemoveForm
    <2>3. Shape(w) /\ Apart(w) /\ Removed(t, w, at, b)
      <3> HIDE DEF at
      <3> QED
        BY <2>1, ClosedReads
    <2> HIDE DEF w, u
    <2>4. SameData(w, u)
      BY <2>2, <2>3, ForgetKeepsData DEF Shape
    <2>5. Shape(u) /\ Apart(u) /\ PositionsSame(w, u) /\ OthersSame(w, u)
      <3>1. Apart(u)
        BY <2>3, <2>4 DEF Apart, SameData
      <3> QED
        BY <2>3, <2>4, <3>1, ShapeKept, SameReads
    <2>6. Removed(t, u, at, b)
      BY <2>3, <2>5 DEF Removed, PositionsSame, OthersSame
    <2> QED
      BY <1>3, <2>5, <2>6 DEF u
  <1> QED
    BY <1>2, <1>3

\* as TableMap says.
LEMMA RemoveConforms ==
    ASSUME NEW t, Shape(t), Apart(t), NEW pos \in Nat
    PROVE  Content(remove(t, pos)) \in Map!AfterRemove(Content(t), pos)
  <1> USE SizeAssumption
  <1> DEFINE b == lenOf(t)
             c == Content(t)
             u == remove(t, pos)
             at == IF pos <= 0 THEN b ELSE pos
             M == [k \in Map!MapKeys |->
                      IF \E n \in at .. b : k = Map!Pos(n)
                      THEN IF k[2] = b THEN Nil ELSE Map!At(c, k[2] + 1)
                      ELSE c[k]]
  <1>1. \/ u = t /\ (b = 0 \/ pos > b)
        \/ ~ (b = 0 \/ pos > b) /\ Removed(t, u, at, b)
    BY RemoveReads
  <1>2. b \in Map!Borders(c)
    BY LenBorder
  <1>3. b \in Nat
    <2>1. Len(t.arr) \in Nat /\ b \in 0 .. Len(t.arr)
      BY LenOf DEF Shape
    <2> QED
      BY <2>1
  <1> HIDE DEF b, u, c
  <1>4. (IF b = 0 \/ pos > b THEN c ELSE M) \in Map!AfterRemove(c, pos)
    BY <1>2 DEF Map!AfterRemove, Map!WithPositions
  <1>5. CASE b = 0 \/ pos > b
    BY <1>1, <1>4, <1>5 DEF u, c
  <1>6. CASE ~ (b = 0 \/ pos > b)
    <2>1. Removed(t, u, at, b)
      BY <1>1, <1>6
    <2>2. at \in 1 .. b
      BY <1>3, <1>6
    <2> HIDE DEF at
    <2>3. ASSUME NEW m \in Positions PROVE getIntKey(u, m) = M[<<"pos", m>>]
      <3>1. m \in Nat /\ <<"pos", m>> \in Map!MapKeys
        BY MapKeyForms DEF Positions
      <3>2. (\E n \in at .. b : <<"pos", m>> = Map!Pos(n)) <=> m \in at .. b
        BY DEF Map!Pos
      <3>3. M[<<"pos", m>>] = IF m \in at .. b
                              THEN IF m = b THEN Nil ELSE Map!At(c, m + 1)
                              ELSE c[<<"pos", m>>]
        BY <3>1, <3>2
      <3> HIDE DEF M
      <3>4. c[<<"pos", m>>] = getIntKey(t, m)
        BY ContentReads DEF c
      <3>5. m \in at .. b /\ m # b => Map!At(c, m + 1) = getIntKey(t, m + 1)
        <4> SUFFICES ASSUME m \in at .. b, m # b PROVE Map!At(c, m + 1) = getIntKey(t, m + 1)
          OBVIOUS
        <4>1. m + 1 \in Positions
          <5>1. b \in Positions
            BY <1>2, <1>6 DEF Map!Borders
          <5> QED
            BY <1>3, <2>2, <3>1, <5>1 DEF Positions
        <4> QED
          BY <4>1, ContentReads DEF Map!At, Map!Pos, c
      <3>6. m = b => m \in at .. b
        BY <1>3, <2>2
      <3>7. getIntKey(u, m) = IF m = b THEN Nil
                              ELSE IF m \in at .. b THEN getIntKey(t, m + 1)
                              ELSE getIntKey(t, m)
        BY <2>1 DEF Removed
      <3> QED
        BY <3>3, <3>4, <3>5, <3>6, <3>7
    <2>4. ASSUME NEW k \in OtherKeys PROVE RawGetH(u, k) = M[k]
      <3>1. k \in Map!MapKeys /\ ~ \E n \in at .. b : k = Map!Pos(n)
        BY MapKeyForms DEF Map!Pos
      <3> QED
        BY <2>1, <3>1, ContentReads DEF Removed, OthersSame, c
    <2>5. DOMAIN M = Map!MapKeys /\ M = [k \in Map!MapKeys |-> M[k]]
      OBVIOUS
    <2> HIDE DEF M
    <2>6. Content(u) = M
      BY <2>3, <2>4, <2>5, ContentIs
    <2> QED
      BY <1>4, <1>6, <2>6 DEF u, c
  <1> QED
    BY <1>5, <1>6

-----------------------------------------------------------------------------
(* The parts of the table are the map.                                     *)

\* Making the order of traversal changes no field.
LEMMA OrderKeepsData ==
    ASSUME NEW t, Shape(t), NEW u \in ensureIterationOrder(t)
    PROVE  SameData(t, u)
  <1>1. CASE t.ordered
    BY <1>1 DEF ensureIterationOrder, SameData, Shape
  <1>2. CASE ~ t.ordered
    <2>1. PICK q \in Enumerations(t) :
              u = [t EXCEPT !.ordered = TRUE, !.keys = q, !.k2i = AntiFunction(q)]
      BY <1>2 DEF ensureIterationOrder
    <2> QED
      BY <2>1 DEF SameData, Shape, Fields
  <1> QED
    BY <1>1, <1>2

\* The inductive invariant of the data.
DataInv == Shape(tb) /\ Apart(tb)

\* It holds of the empty table.
LEMMA InitData == Init => DataInv
  <1> SUFFICES ASSUME NEW acap \in BOOLEAN, tb = newLTable(acap) PROVE DataInv
    BY DEF Init
  <1> USE SizeAssumption
  <1>1. DOMAIN tb = Fields
    BY DEF newLTable, Fields
  <1>2. tb.arr = <<>> /\ tb.str = <<>> /\ tb.dict = <<>>
    BY DEF newLTable
  <1> QED
    BY <1>1, <1>2 DEF DataInv, Shape, Apart

\* Every operation keeps it.
LEMMA NextData ==
    ASSUME BelowLimit, DataInv, [Next]_vars
    PROVE  DataInv'
  <1> USE SizeAssumption DEF DataInv
  <1>1. ASSUME NEW key \in Keys, NEW v \in Values \cup {Nil}, Assign(key, v)
        PROVE  DataInv'
    BY <1>1, SetReads DEF Assign, Becomes
  <1>2. ASSUME NEW v \in Values, AppendValue(v)
        PROVE  DataInv'
    BY <1>2, AppendReads DEF AppendValue, Becomes, HasRoom, PositionSet
  <1>3. ASSUME NEW i \in 0 .. MaxArrayIndex, NEW v \in Values \cup {Nil}, InsertAt(i, v)
        PROVE  DataInv'
    <2>1. tb' = insert(tb, i, v) /\ Len(tb.arr) < MaxLen
      BY <1>3 DEF InsertAt, Becomes, HasRoom
    <2>2. CASE i \in 1 .. lenOf(tb)
      BY <2>1, <2>2, InsertReads
    <2>3. CASE i \notin 1 .. lenOf(tb)
      BY <2>1, <2>3, InsertOutside
    <2> QED
      BY <2>2, <2>3
  <1>4. ASSUME NEW i \in 0 .. MaxArrayIndex, RemoveAt(i)
        PROVE  DataInv'
    <2>1. tb' = remove(tb, i) /\ i \in Nat
      BY <1>4 DEF RemoveAt, Becomes
    <2> QED
      BY <2>1, RemoveReads
  <1>5. ASSUME tb' \in ensureIterationOrder(tb)
        PROVE  DataInv'
    <2>1. SameData(tb, tb')
      BY <1>5, OrderKeepsData
    <2> QED
      BY <2>1, ShapeKept DEF Apart, SameData
  <1>6. CASE UNCHANGED vars
    BY <1>6 DEF vars
  <1> QED
    BY <1>1, <1>2, <1>3, <1>4, <1>5, <1>6 DEF Next, Peek, Begin, Step, Advance

\* It holds of every reachable table.
LEMMA SpecData == ASSUME BelowLimit PROVE Spec => []DataInv
  <1>1. DataInv /\ [Next]_vars => DataInv'
    BY NextData
  <1> QED
    BY <1>1, InitData, PTL DEF Spec

\* Whatever has migrated between the array and the hash part, # answers a
\* border of the table and MaxN its largest position, for any limit, gap and
\* values, as long as Append keeps below the limit of the array part.
THEOREM LengthIsBorder == ASSUME BelowLimit PROVE Spec => []LenIsBorder
  <1>1. DataInv => LenIsBorder
    BY LenBorder, LargestPosition DEF DataInv, LenIsBorder
  <1> QED
    BY <1>1, SpecData, PTL

\* In every reachable table each operation does to the map of keys and values
\* what it promises: RawSet changes the one field, Append, Insert and Remove
\* work from a border, also when they move fields between the parts.
THEOREM OperationsConform == ASSUME BelowLimit PROVE Spec => []CallsConform
  <1>1. DataInv => CallsConform
    <2> SUFFICES ASSUME DataInv PROVE CallsConform
      OBVIOUS
    <2> USE DEF DataInv
    <2>1. ASSUME NEW key \in Keys, NEW v \in Values \cup {Nil}
          PROVE  Content(RawSet(tb, key, v)) \in Map!AfterSet(Content(tb), MapKey(key), v)
      BY SetReads DEF Map!AfterSet
    <2>2. ASSUME HasRoom, NEW v \in Values
          PROVE  Content(append(tb, v)) \in Map!AfterAppend(Content(tb), v)
      BY <2>2, AppendConforms DEF HasRoom
    <2>3. ASSUME HasRoom, NEW i \in 1 .. lenOf(tb), NEW v \in Values \cup {Nil}
          PROVE  Content(insert(tb, i, v)) \in Map!AfterInsert(Content(tb), i, v)
      BY <2>3, InsertConforms DEF HasRoom
    <2>4. ASSUME NEW i \in 0 .. MaxArrayIndex
          PROVE  Content(remove(tb, i)) \in Map!AfterRemove(Content(tb), i)
      <3>1. i \in Nat
        BY SizeAssumption
      <3> QED
        BY <3>1, RemoveConforms
    <2> QED
      BY <2>1, <2>2, <2>3, <2>4 DEF CallsConform
  <1> QED
    BY <1>1, SpecData, PTL

\* A step of the table is one of the map it stands for.
LEMMA StepRefines ==
    ASSUME BelowLimit, DataInv, [Next]_vars
    PROVE  [Map!Next]_content
  <1> USE SizeAssumption DEF DataInv
  <1>1. content = Content(tb) /\ content' = Content(tb')
    BY MapKeyForms DEF content, Content
  <1>2. ASSUME NEW key \in Keys, NEW v \in Values \cup {Nil}, tb' = RawSet(tb, key, v)
        PROVE  Map!Next
    <2>1. MapKey(key) \in Map!MapKeys
      BY MapKeyOf, MapKeyForms
    <2>2. content' \in Map!AfterSet(content, MapKey(key), v)
      BY <1>1, <1>2, SetReads DEF Map!AfterSet
    <2> QED
      BY <2>1, <2>2 DEF Map!Next, Map!Set
  <1>3. ASSUME NEW v \in Values, AppendValue(v)
        PROVE  Map!Next
    <2>1. tb' = append(tb, v) /\ Len(tb.arr) < MaxLen
      BY <1>3 DEF AppendValue, Becomes, HasRoom
    <2>2. content' \in Map!AfterAppend(content, v)
      BY <1>1, <2>1, AppendConforms
    <2> QED
      BY <2>2 DEF Map!Next, Map!Append
  <1>4. ASSUME NEW i \in 0 .. MaxArrayIndex, NEW v \in Values \cup {Nil}, InsertAt(i, v)
        PROVE  Map!Next
    <2>1. tb' = insert(tb, i, v) /\ Len(tb.arr) < MaxLen
      BY <1>4 DEF InsertAt, Becomes, HasRoom
    <2>2. CASE i \in 1 .. lenOf(tb)
      <3>1. content' \in Map!AfterInsert(content, i, v)
        BY <1>1, <2>1, <2>2, InsertConforms
      <3>2. i \in Positions
        <4>1. Len(tb.arr) \in Nat /\ Len(tb.arr) < MaxArrayIndex /\ lenOf(tb) \in 0 .. Len(tb.arr)
          BY LenOf DEF Shape
        <4> QED
          BY <2>2, <4>1 DEF Positions
      <3> QED
        BY <3>1, <3>2 DEF Map!Next, Map!Insert
    <2>3. CASE i \notin 1 .. lenOf(tb)
      <3>1. PICK key \in Keys : insert(tb, i, v) = RawSet(tb, key, v)
        BY <2>3, InsertOutside
      <3> QED
        BY <1>2, <2>1, <3>1
    <2> QED
      BY <2>2, <2>3
  <1>5. ASSUME NEW i \in 0 .. MaxArrayIndex, RemoveAt(i)
        PROVE  [Map!Next]_content
    <2>1. tb' = remove(tb, i) /\ i \in Nat
      BY <1>5 DEF RemoveAt, Becomes
    <2>2. content' \in Map!AfterRemove(content, i)
      BY <1>1, <2>1, RemoveConforms
    <2>3. CASE i \in Positions \cup {0}
      BY <2>2, <2>3 DEF Map!Next, Map!Remove
    <2>4. CASE i \notin Positions \cup {0}
      <3>1. Len(tb.arr) \in Nat /\ Len(tb.arr) < MaxArrayIndex /\ lenOf(tb) \in 0 .. Len(tb.arr)
        BY LenOf DEF Shape
      <3>2. i > lenOf(tb)
        BY <2>1, <2>4, <3>1 DEF Positions
      <3>3. remove(tb, i) = tb
        BY <3>2, RemoveForm
      <3> QED
        BY <1>1, <2>1, <3>3
    <2> QED
      BY <2>3, <2>4
  <1>6. ASSUME tb' \in ensureIterationOrder(tb)
        PROVE  content' = content
    <2>1. SameData(tb, tb')
      BY <1>6, OrderKeepsData
    <2>2. PositionsSame(tb, tb') /\ OthersSame(tb, tb')
      BY <2>1, SameReads
    <2>3. /\ DOMAIN Content(tb) = Map!MapKeys
          /\ Content(tb) = [k \in Map!MapKeys |-> Content(tb)[k]]
      BY DEF Content
    <2>4. Content(tb') = Content(tb)
      BY <2>2, <2>3, ContentIs, ContentReads DEF PositionsSame, OthersSame
    <2> QED
      BY <1>1, <2>4
  <1>7. CASE UNCHANGED vars
    BY <1>1, <1>7 DEF vars
  <1> QED
    BY <1>2, <1>3, <1>4, <1>5, <1>6, <1>7
       DEF Next, Assign, Becomes, Peek, Begin, Step, Advance

\* The table implements the map of TableMap: every call of RawSet, Append,
\* Insert or Remove is one step of the map, and next() does not change it.
THEOREM Refinement == ASSUME BelowLimit PROVE Spec => Map!Spec
  <1>1. Init => Map!Init
    <2> SUFFICES ASSUME Init PROVE content = [k \in Map!MapKeys |-> Nil]
      BY DEF Map!Init
    <2>1. Shape(tb)
      BY InitData DEF DataInv
    <2>2. Len(tb.arr) = 0 /\ DOMAIN tb.str = {} /\ DOMAIN tb.dict = {}
      <3>1. PICK acap \in BOOLEAN : tb = newLTable(acap)
        BY DEF Init
      <3>2. tb.arr = <<>> /\ tb.str = <<>> /\ tb.dict = <<>>
        BY <3>1 DEF newLTable
      <3> QED
        BY <3>2
    <2>3. \A k : RawGetH(tb, k) = Nil
      BY <2>2 DEF RawGetH
    <2>4. \A n \in Positions : getIntKey(tb, n) = Nil
      BY <2>2, <2>3 DEF getIntKey, Positions
    <2>5. content = Content(tb)
      BY MapKeyForms DEF content, Content
    <2> DEFINE m == [k \in Map!MapKeys |-> Nil]
    <2>6. DOMAIN m = Map!MapKeys /\ m = [k \in Map!MapKeys |-> m[k]]
      OBVIOUS
    <2>7. \A k \in Map!MapKeys : m[k] = Nil
      OBVIOUS
    <2> HIDE DEF m
    <2>8. Content(tb) = m
      BY <2>3, <2>4, <2>6, <2>7, ContentIs, MapKeyForms
    <2> QED
      BY <2>5, <2>8 DEF m
  <1>2. DataInv /\ [Next]_vars => [Map!Next]_content
    BY StepRefines
  <1> QED
    BY <1>1, <1>2, SpecData, PTL DEF Spec, Map!Spec

-----------------------------------------------------------------------------
(* The order of traversal lists the hashed fields.                         *)

\* The keys of the hashed fields.
Hash(t) == DOMAIN t.str \cup DOMAIN t.dict

\* ks lists the keys of H, each once, among dead slots; ix finds the slot of
\* each of them, and of keys that were deleted.
Lists(ks, ix, H) ==
    /\ ks \in Seq(HashKeys \cup {Dead})
    /\ \A k \in DOMAIN ix : /\ k \in HashKeys \cup Cursors
                            /\ ix[k] \in 1 .. Len(ks)
                            /\ ks[ix[k]] \in {k, Dead}
    /\ \A i \in 1 .. Len(ks) :
          ks[i] # Dead => ks[i] \in H /\ ks[i] \in DOMAIN ix /\ ix[ks[i]] = i
    /\ \A k \in H : k \in HashKeys /\ k \in DOMAIN ix /\ ks[ix[k]] = k

\* The order of traversal, once it has been asked for.
Listed(t) ==
    IF t.ordered THEN Lists(t.keys, t.k2i, Hash(t))
    ELSE t.keys = <<>> /\ DOMAIN t.k2i = {}

\* No position of the array has a slot.
Cleared(t) == \A n \in 1 .. Len(t.arr) : <<"flt", n>> \notin DOMAIN t.k2i

\* Cursors are found by one key each, and are no keys of their own unless the
\* key is its own cursor.
LEMMA CursorKeys ==
    /\ Nil \notin HashKeys \cup Cursors
    /\ Dead \notin HashKeys \cup Cursors
    /\ \A k \in HashKeys : iterationKey(k) \in Cursors
    /\ \A k \in HashKeys : iterationKey(k) \in HashKeys => iterationKey(k) = k
    /\ \A k, x \in HashKeys : iterationKey(k) = iterationKey(x) => k = x
  <1>1. HashKeys \subseteq Keys
    BY DEF HashKeys, DictKeys, StrKeys, RestKeys, Keys, OtherKeys
  <1>2. HashKeys = ArrayKeys \cup OtherKeys
    BY DEF HashKeys, DictKeys, StrKeys, RestKeys, OtherKeys
  <1>3. \A r \in Refs : <<"cursor", r>> \notin HashKeys
    BY DEF HashKeys, DictKeys, StrKeys, RestKeys, ArrayKeys
  <1>4. ASSUME NEW k \in HashKeys
        PROVE  \/ k[1] # "ref" /\ iterationKey(k) = k
               \/ /\ k[1] = "ref" /\ k[2] \in Refs /\ k = <<"ref", k[2]>>
                  /\ iterationKey(k) = <<"cursor", k[2]>>
    BY <1>4 DEF HashKeys, DictKeys, StrKeys, RestKeys, ArrayKeys, iterationKey
  <1>5. \A k \in HashKeys : iterationKey(k) \in Cursors
    BY <1>2, <1>4 DEF Cursors
  <1>6. \A k \in HashKeys : iterationKey(k) \in HashKeys => iterationKey(k) = k
    BY <1>3, <1>4
  <1>7. ASSUME NEW k \in HashKeys, NEW x \in HashKeys, iterationKey(k) = iterationKey(x)
        PROVE  k = x
    <2>1. CASE k[1] = "ref" /\ x[1] = "ref"
      <3>1. k[2] = x[2]
        BY <1>4, <1>7, <2>1
      <3> QED
        BY <1>4, <2>1, <3>1
    <2>2. CASE k[1] # "ref" /\ x[1] # "ref"
      BY <1>4, <1>7, <2>2
    <2>3. CASE k[1] = "ref" /\ x[1] # "ref"
      BY <1>3, <1>4, <1>7, <2>3
    <2>4. CASE k[1] # "ref" /\ x[1] = "ref"
      BY <1>3, <1>4, <1>7, <2>4
    <2> QED
      BY <2>1, <2>2, <2>3, <2>4
  <1>8. Nil \notin HashKeys \cup Cursors /\ Dead \notin HashKeys \cup Cursors
    BY <1>1, ValueAssumption
  <1> QED
    BY <1>5, <1>6, <1>7, <1>8

\* deleteIterationKey: the slot of the key dies, its cursor still finds it.
LEMMA ListsDelete ==
    ASSUME NEW ks, NEW ix, NEW H, Lists(ks, ix, H), NEW k \in HashKeys, k \in DOMAIN ix
    PROVE  Lists([ks EXCEPT ![ix[k]] = Dead],
                 With(Without(ix, {k}), iterationKey(k), ix[k]), H \ {k})
  <1> DEFINE c == iterationKey(k)
             s == ix[k]
             qs == [ks EXCEPT ![s] = Dead]
             jx == With(Without(ix, {k}), c, s)
  <1>1. /\ ks \in Seq(HashKeys \cup {Dead}) /\ s \in 1 .. Len(ks)
        /\ ks[s] \in {k, Dead}
    BY DEF Lists
  <1>2. /\ qs \in Seq(HashKeys \cup {Dead}) /\ Len(qs) = Len(ks)
        /\ \A i \in 1 .. Len(ks) : qs[i] = IF i = s THEN Dead ELSE ks[i]
    BY <1>1
  <1>3. /\ DOMAIN jx = (DOMAIN ix \ {k}) \cup {c}
        /\ \A x \in DOMAIN jx : jx[x] = IF x = c THEN s ELSE ix[x]
    BY DEF With, Without
  <1>4. c \in Cursors /\ (c \in HashKeys => c = k)
    BY CursorKeys
  <1>5. ASSUME NEW x \in H \ {k}
        PROVE  /\ x \in HashKeys /\ x \in DOMAIN ix /\ ks[ix[x]] = x /\ x # Dead
               /\ x # c /\ ix[x] # s /\ ix[x] \in 1 .. Len(ks)
    BY <1>1, <1>4, CursorKeys DEF Lists
  <1> HIDE DEF c, s, qs, jx
  <1>6. \A x \in DOMAIN jx : /\ x \in HashKeys \cup Cursors
                             /\ jx[x] \in 1 .. Len(qs)
                             /\ qs[jx[x]] \in {x, Dead}
    BY <1>1, <1>2, <1>3, <1>4 DEF Lists
  <1>7. ASSUME NEW i \in 1 .. Len(qs), qs[i] # Dead
        PROVE  qs[i] \in H \ {k} /\ qs[i] \in DOMAIN jx /\ jx[qs[i]] = i
    <2>1. i # s /\ qs[i] = ks[i]
      BY <1>2, <1>7
    <2>2. ks[i] \in H /\ ks[i] \in DOMAIN ix /\ ix[ks[i]] = i
      BY <1>2, <1>7, <2>1 DEF Lists
    <2>3. ks[i] # k
      BY <2>1, <2>2 DEF s
    <2> QED
      BY <1>3, <1>5, <2>1, <2>2, <2>3
  <1>8. \A x \in H \ {k} : x \in HashKeys /\ x \in DOMAIN jx /\ qs[jx[x]] = x
    BY <1>2, <1>3, <1>5
  <1>9. Lists(qs, jx, H \ {k})
    BY <1>2, <1>6, <1>7, <1>8 DEF Lists
  <1> QED
    BY <1>9 DEF c, s, qs, jx

\* addIterationKey: a new key goes to the end.
LEMMA ListsAdd ==
    ASSUME NEW ks, NEW ix, NEW H, Lists(ks, ix, H), NEW k \in HashKeys, k \notin H
    PROVE  Lists(Append(ks, k), With(ix, k, Len(ks) + 1), H \cup {k})
  <1> DEFINE n == Len(ks)
             qs == Append(ks, k)
             jx == With(ix, k, n + 1)
  <1>1. /\ ks \in Seq(HashKeys \cup {Dead}) /\ n \in Nat
    BY DEF Lists
  <1>2. /\ qs \in Seq(HashKeys \cup {Dead}) /\ Len(qs) = n + 1
        /\ \A i \in 1 .. n : qs[i] = ks[i]
        /\ qs[n + 1] = k
    BY <1>1
  <1>3. /\ DOMAIN jx = DOMAIN ix \cup {k}
        /\ \A x \in DOMAIN jx : jx[x] = IF x = k THEN n + 1 ELSE ix[x]
    BY DEF With
  <1>4. \A x \in DOMAIN ix : /\ x \in HashKeys \cup Cursors
                             /\ ix[x] \in 1 .. n /\ ks[ix[x]] \in {x, Dead}
    BY DEF Lists
  <1>5. \A i \in 1 .. n : ks[i] # Dead => ks[i] \in H /\ ks[i] \in DOMAIN ix /\ ix[ks[i]] = i
    BY DEF Lists
  <1>6. \A x \in H : x \in HashKeys /\ x \in DOMAIN ix /\ ks[ix[x]] = x
    BY DEF Lists
  <1> HIDE DEF n, qs, jx
  <1>7. \A x \in DOMAIN jx : /\ x \in HashKeys \cup Cursors
                             /\ jx[x] \in 1 .. Len(qs)
                             /\ qs[jx[x]] \in {x, Dead}
    BY <1>1, <1>2, <1>3, <1>4
  <1>8. ASSUME NEW i \in 1 .. Len(qs), qs[i] # Dead
        PROVE  qs[i] \in H \cup {k} /\ qs[i] \in DOMAIN jx /\ jx[qs[i]] = i
    BY <1>1, <1>2, <1>3, <1>5, <1>8
  <1>9. \A x \in H \cup {k} : x \in HashKeys /\ x \in DOMAIN jx /\ qs[jx[x]] = x
    BY <1>1, <1>2, <1>3, <1>4, <1>6
  <1>10. Lists(qs, jx, H \cup {k})
    BY <1>2, <1>7, <1>8, <1>9 DEF Lists
  <1> QED
    BY <1>10 DEF n, qs, jx

\* forgetDeletedArrayKey: dead slots need not be found.
LEMMA ListsForget ==
    ASSUME NEW ks, NEW ix, NEW H, Lists(ks, ix, H),
           NEW S, \A k \in S : k \in DOMAIN ix => ks[ix[k]] = Dead
    PROVE  Lists(ks, Without(ix, S), H)
  <1> DEFINE jx == Without(ix, S)
  <1>1. DOMAIN jx = DOMAIN ix \ S /\ \A x \in DOMAIN jx : jx[x] = ix[x]
    BY DEF Without
  <1>2. \A k \in H : k \in HashKeys /\ k \in DOMAIN ix /\ ks[ix[k]] = k /\ k # Dead
    BY CursorKeys DEF Lists
  <1> HIDE DEF jx
  <1>3. \A k \in H : k \in DOMAIN jx
    BY <1>1, <1>2
  <1>4. Lists(ks, jx, H)
    BY <1>1, <1>2, <1>3 DEF Lists
  <1> QED
    BY <1>4 DEF jx

\* takeHashed: the taken keys leave the order.
LEMMA ListsTake ==
    ASSUME NEW ks, NEW ix, NEW H, Lists(ks, ix, H), NEW T
    PROVE  Lists([i \in DOMAIN ks |-> IF ks[i] \in T THEN Dead ELSE ks[i]],
                 Without(ix, T), H \ T)
  <1> DEFINE qs == [i \in DOMAIN ks |-> IF ks[i] \in T THEN Dead ELSE ks[i]]
             jx == Without(ix, T)
  <1>1. DOMAIN jx = DOMAIN ix \ T /\ \A x \in DOMAIN jx : jx[x] = ix[x]
    BY DEF Without
  <1>2. ks \in Seq(HashKeys \cup {Dead}) /\ Len(ks) \in Nat /\ DOMAIN ks = 1 .. Len(ks)
    BY DEF Lists
  <1>3. /\ qs \in Seq(HashKeys \cup {Dead}) /\ Len(qs) = Len(ks)
        /\ \A i \in 1 .. Len(ks) : qs[i] = IF ks[i] \in T THEN Dead ELSE ks[i]
    BY <1>2
  <1>4. \A k \in H : k \in HashKeys /\ k \in DOMAIN ix /\ ks[ix[k]] = k
    BY DEF Lists
  <1> HIDE DEF jx, qs
  <1>5. \A x \in DOMAIN jx : /\ x \in HashKeys \cup Cursors
                             /\ jx[x] \in 1 .. Len(qs)
                             /\ qs[jx[x]] \in {x, Dead}
    BY <1>1, <1>3 DEF Lists
  <1>6. ASSUME NEW i \in 1 .. Len(qs), qs[i] # Dead
        PROVE  qs[i] \in H \ T /\ qs[i] \in DOMAIN jx /\ jx[qs[i]] = i
    <2>1. ks[i] \notin T /\ qs[i] = ks[i] /\ i \in 1 .. Len(ks)
      BY <1>3, <1>6
    <2> QED
      BY <1>1, <1>6, <2>1 DEF Lists
  <1>7. \A k \in H \ T : k \in HashKeys /\ k \in DOMAIN jx /\ qs[jx[k]] = k
    BY <1>1, <1>3, <1>4, <1>5
  <1>8. Lists(qs, jx, H \ T)
    BY <1>3, <1>5, <1>6, <1>7 DEF Lists
  <1> QED
    BY <1>8 DEF qs, jx

\* An order without dead slots lists its keys.
LEMMA ListsAlive ==
    ASSUME NEW q \in Seq(HashKeys), NEW jx, NEW H,
           \A i, j \in 1 .. Len(q) : q[i] = q[j] => i = j,
           \A i \in 1 .. Len(q) : q[i] \in H,
           \A k \in H : \E i \in 1 .. Len(q) : q[i] = k,
           DOMAIN jx = H,
           \A k \in H : jx[k] \in 1 .. Len(q) /\ q[jx[k]] = k
    PROVE  Lists(q, jx, H)
  <1>1. q \in Seq(HashKeys \cup {Dead}) /\ \A i \in 1 .. Len(q) : q[i] \in HashKeys
    OBVIOUS
  <1>2. \A k \in H : k \in HashKeys
    BY <1>1
  <1>3. \A i \in 1 .. Len(q) : jx[q[i]] = i
    OBVIOUS
  <1> QED
    BY <1>1, <1>2, <1>3 DEF Lists

\* The rank of a member of a set of numbers.
Below(S, i) == {j \in S : j <= i}

\* Ranks number the elements of a finite set of naturals from 1.
LEMMA Ranks ==
    ASSUME NEW S \in SUBSET Nat, IsFiniteSet(S)
    PROVE  /\ Cardinality(S) \in Nat
           /\ \A i \in S : Cardinality(Below(S, i)) \in 1 .. Cardinality(S)
           /\ \A i, j \in S : Cardinality(Below(S, i)) = Cardinality(Below(S, j)) => i = j
           /\ \A n \in 1 .. Cardinality(S) : \E i \in S : Cardinality(Below(S, i)) = n
  <1> DEFINE N == Cardinality(S)
             f == [i \in S |-> Cardinality(Below(S, i))]
  <1>1. N \in Nat
    BY FS_CardinalityType
  <1>2. ASSUME NEW i \in S
        PROVE  /\ IsFiniteSet(Below(S, i)) /\ Cardinality(Below(S, i)) \in 1 .. N
    <2>1. Below(S, i) \in SUBSET S /\ i \in Below(S, i)
      BY DEF Below
    <2>2. IsFiniteSet(Below(S, i)) /\ Cardinality(Below(S, i)) <= N
      BY <2>1, FS_Subset
    <2>3. Cardinality(Below(S, i)) \in Nat /\ Cardinality(Below(S, i)) # 0
      BY <2>1, <2>2, FS_CardinalityType, FS_EmptySet
    <2> HIDE DEF N
    <2> QED
      BY <1>1, <2>2, <2>3
  <1>3. ASSUME NEW i \in S, NEW j \in S, i < j,
               Cardinality(Below(S, i)) = Cardinality(Below(S, j))
        PROVE  FALSE
    <2>1. Below(S, i) \in SUBSET Below(S, j) /\ j \in Below(S, j) /\ j \notin Below(S, i)
      <3>1. i \in Nat /\ j \in Nat /\ \A x \in S : x \in Nat
        OBVIOUS
      <3>2. \A x \in S : x <= i => x <= j
        BY <1>3, <3>1
      <3>3. j <= j /\ ~ (j <= i)
        BY <1>3, <3>1
      <3> QED
        BY <3>2, <3>3 DEF Below
    <2>2. IsFiniteSet(Below(S, j))
      BY <1>2
    <2>3. Below(S, i) = Below(S, j)
      BY <1>3, <2>1, <2>2, FS_Subset
    <2> QED
      BY <2>1, <2>3
  <1>4. ASSUME NEW i \in S, NEW j \in S,
               Cardinality(Below(S, i)) = Cardinality(Below(S, j))
        PROVE  i = j
    <2>1. ~ (i < j) /\ ~ (j < i)
      BY <1>3, <1>4
    <2> QED
      BY <2>1
  <1>5. f \in Injection(S, 1 .. N)
    BY <1>2, <1>4 DEF Injection, IsInjective
  <1>6. IsFiniteSet(1 .. N) /\ Cardinality(1 .. N) = N
    <2> HIDE DEF N
    <2>1. 1 \in Int /\ N \in Int
      BY <1>1
    <2>2. IsFiniteSet(1 .. N) /\ Cardinality(1 .. N) = IF 1 > N THEN 0 ELSE N - 1 + 1
      BY <2>1, FS_Interval
    <2> QED
      BY <1>1, <2>2
  <1>7. f \in Surjection(S, 1 .. N)
    <2> HIDE DEF f
    <2> QED
      BY <1>5, <1>6, FS_Injection
  <1>8. \A n \in 1 .. N : \E i \in S : f[i] = n
    BY <1>7 DEF Surjection
  <1>9. \A n \in 1 .. N : \E i \in S : Cardinality(Below(S, i)) = n
    BY <1>8
  <1> QED
    BY <1>1, <1>2, <1>4, <1>9

\* What compacted does to an order.
LiveSlots(ks) == {i \in DOMAIN ks : ks[i] # Dead}
\* The live keys in their order,
Compact(ks) ==
    [n \in 1 .. Cardinality(LiveSlots(ks)) |->
        ks[CHOOSE i \in LiveSlots(ks) : Cardinality(Below(LiveSlots(ks), i)) = n]]
\* and where they are.
SlotsOf(q) == [k \in Range(q) |-> CHOOSE i \in DOMAIN q : q[i] = k]

\* compacted by these definitions.
LEMMA CompactedForm ==
    ASSUME NEW t
    PROVE  compacted(t) = [t EXCEPT !.keys = Compact(t.keys), !.k2i = SlotsOf(Compact(t.keys))]
  BY Zenon DEF compacted, Compact, SlotsOf, LiveSlots, Below

\* Compacting lists the same keys in as many slots as there are keys.
LEMMA ListsCompact ==
    ASSUME NEW ks, NEW ix, NEW H, Lists(ks, ix, H), IsFiniteSet(H)
    PROVE  /\ Lists(Compact(ks), SlotsOf(Compact(ks)), H)
           /\ Len(Compact(ks)) <= Cardinality(H)
  <1> DEFINE S == LiveSlots(ks)
             N == Cardinality(S)
             q == Compact(ks)
             rank(i) == Cardinality(Below(S, i))
             slot(n) == CHOOSE i \in S : rank(i) = n
  <1>1. ks \in Seq(HashKeys \cup {Dead}) /\ DOMAIN ks = 1 .. Len(ks) /\ Len(ks) \in Nat
    BY DEF Lists
  <1>2. S \in SUBSET Nat /\ IsFiniteSet(S)
    <2>1. S \in SUBSET (1 .. Len(ks))
      BY <1>1 DEF LiveSlots
    <2>2. 1 \in Int /\ Len(ks) \in Int
      BY <1>1
    <2>3. IsFiniteSet(1 .. Len(ks))
      BY <2>2, FS_Interval
    <2> QED
      BY <2>1, <2>3, FS_Subset
  <1>3. \A i \in S : /\ ks[i] \in H /\ ks[i] \in HashKeys
                     /\ ks[i] \in DOMAIN ix /\ ix[ks[i]] = i
    BY <1>1 DEF Lists, LiveSlots
  <1>4. \A k \in H : ix[k] \in S /\ ks[ix[k]] = k
    BY <1>1, CursorKeys DEF Lists, LiveSlots
  <1>5. N \in Nat /\ N <= Cardinality(H)
    <2> DEFINE f == [i \in S |-> ks[i]]
    <2> HIDE DEF S
    <2>1. f \in Injection(S, H)
      BY <1>3 DEF Injection, IsInjective
    <2> HIDE DEF f
    <2> QED
      BY <1>2, <2>1, FS_Injection, FS_CardinalityType
  <1>6. /\ \A i \in S : rank(i) \in 1 .. N
        /\ \A i, j \in S : rank(i) = rank(j) => i = j
        /\ \A n \in 1 .. N : \E i \in S : rank(i) = n
    <2> HIDE DEF S
    <2> QED
      BY <1>2, Ranks
  <1>7. q = [n \in 1 .. N |-> ks[slot(n)]]
    BY DEF Compact
  <1> HIDE DEF S, N, q, rank
  <1>8. \A n \in 1 .. N : slot(n) \in S /\ rank(slot(n)) = n
    BY <1>6
  <1>9. \A i \in S : slot(rank(i)) = i
    BY <1>6, <1>8
  <1> HIDE DEF slot
  <1>10. q \in Seq(HashKeys) /\ Len(q) = N /\ \A n \in 1 .. N : q[n] = ks[slot(n)]
    BY <1>3, <1>5, <1>7, <1>8
  <1>11. ASSUME NEW m \in 1 .. Len(q), NEW n \in 1 .. Len(q), q[m] = q[n] PROVE m = n
    <2>1. ks[slot(m)] = ks[slot(n)]
      BY <1>10, <1>11
    <2>2. slot(m) = slot(n)
      BY <1>3, <1>8, <1>10, <2>1
    <2> QED
      BY <1>8, <1>10, <2>2
  <1>12. \A n \in 1 .. Len(q) : q[n] \in H
    BY <1>3, <1>8, <1>10
  <1>13. ASSUME NEW k \in H PROVE \E n \in 1 .. Len(q) : q[n] = k
    <2>1. ix[k] \in S /\ ks[ix[k]] = k
      BY <1>4
    <2>2. rank(ix[k]) \in 1 .. N /\ slot(rank(ix[k])) = ix[k]
      BY <1>6, <1>9, <2>1
    <2>3. q[rank(ix[k])] = k
      BY <1>10, <2>1, <2>2
    <2> QED
      BY <1>10, <2>2, <2>3
  <1>14. DOMAIN q = 1 .. Len(q)
    BY <1>10
  <1>15. Range(q) = H
    BY <1>12, <1>13, <1>14 DEF Range
  <1>16. DOMAIN SlotsOf(q) = H
         /\ \A k \in H : SlotsOf(q)[k] \in 1 .. Len(q) /\ q[SlotsOf(q)[k]] = k
    BY <1>13, <1>14, <1>15 DEF SlotsOf
  <1>17. Lists(q, SlotsOf(q), H)
    BY <1>10, <1>11, <1>12, <1>13, <1>16, ListsAlive
  <1> QED
    BY <1>5, <1>10, <1>17 DEF q

\* What ensureIterationOrder makes of the hash parts.
LEMMA ListsEnumeration ==
    ASSUME NEW n \in Nat, NEW H, \A k \in H : k \in HashKeys, NEW q \in Bijection(1 .. n, H)
    PROVE  Lists(q, AntiFunction(q), H) /\ Len(q) = n
  <1>1. /\ q \in [1 .. n -> H]
        /\ \A i, j \in 1 .. n : q[i] = q[j] => i = j
        /\ \A k \in H : \E i \in 1 .. n : q[i] = k
    BY DEF Bijection, Injection, Surjection, IsInjective
  <1>2. q \in Seq(HashKeys) /\ Len(q) = n /\ DOMAIN q = 1 .. n
    <2>1. q \in [1 .. n -> HashKeys]
      BY <1>1
    <2> QED
      BY <2>1
  <1>3. Range(q) = H
    BY <1>1, <1>2 DEF Range
  <1>4. /\ DOMAIN AntiFunction(q) = H
        /\ \A k \in H : AntiFunction(q)[k] \in 1 .. n /\ q[AntiFunction(q)[k]] = k
    BY <1>1, <1>2, <1>3 DEF AntiFunction, Inverse
  <1> QED
    BY <1>1, <1>2, <1>4, ListsAlive

-----------------------------------------------------------------------------
(* The steps an operation is made of keep the order.                       *)

\* Tables have finitely many fields.
Finite(t) == IsFiniteSet(DOMAIN t.str) /\ IsFiniteSet(DOMAIN t.dict)
\* What holds of the order in every reachable table.
Indexed(t) == Listed(t) /\ Finite(t)

\* The slot where nextKey starts for a key.
slotOf(t, key) ==
    IF key \in DOMAIN t.k2i THEN t.k2i[key]
    ELSE IF key # Nil /\ iterationKey(key) \in DOMAIN t.k2i
    THEN t.k2i[iterationKey(key)] ELSE 0

\* No position joins those that have a slot, but for the key k.
NoNewSlots(t, u, k) ==
    \A n \in Positions : <<"flt", n>> \in DOMAIN u.k2i =>
                             <<"flt", n>> \in DOMAIN t.k2i \/ k = <<"flt", n>>

\* Fields may have been cleared, but the others are where they were, and a
\* traversal goes on from where it is.
SameSlots(t, u) ==
    /\ u.ordered = t.ordered
    /\ \A x \in Hash(u) : x \in Hash(t) /\ (t.ordered => u.k2i[x] = t.k2i[x])
    /\ \A x \in HashKeys : slotOf(u, x) = slotOf(t, x)

\* The order of u is not longer, or bounded by the fields that it lists.
Fits(t, u) == Len(u.keys) # Len(t.keys) /\ Hashed(u) <= MaxHash => Len(u.keys) <= 2 * MaxHash

\* t and u have the same hashed keys in the same slots.
SameOrder(t, u) ==
    /\ u.keys = t.keys /\ u.k2i = t.k2i /\ u.ordered = t.ordered
    /\ u.str = t.str /\ u.dict = t.dict

\* Then the order of one is good if that of the other is.
LEMMA SameOrderKept ==
    ASSUME NEW t, NEW u, SameOrder(t, u)
    PROVE  /\ Hash(u) = Hash(t) /\ Hashed(u) = Hashed(t) /\ SameSlots(t, u)
           /\ Indexed(t) => Indexed(u)
  <1>1. Hash(u) = Hash(t) /\ Hashed(u) = Hashed(t)
    BY DEF SameOrder, Hash, Hashed
  <1>2. SameSlots(t, u)
    BY <1>1 DEF SameOrder, SameSlots, slotOf
  <1>3. Indexed(t) => Indexed(u)
    BY <1>1 DEF SameOrder, Indexed, Listed, Finite
  <1> QED
    BY <1>1, <1>2, <1>3

\* Keeping slots is transitive.
LEMMA SameSlotsTwice ==
    ASSUME NEW t, NEW w, NEW u, SameSlots(t, w), SameSlots(w, u)
    PROVE  SameSlots(t, u)
  BY DEF SameSlots

\* Hashed counts the hashed keys.
LEMMA HashedIs ==
    ASSUME NEW t, Shape(t), Finite(t)
    PROVE  /\ IsFiniteSet(Hash(t)) /\ Cardinality(Hash(t)) = Hashed(t)
           /\ Hashed(t) \in Nat
           /\ \A k \in Hash(t) : k \in HashKeys
  <1>1. DOMAIN t.str \cap DOMAIN t.dict = {}
    BY KeysApart DEF Shape
  <1>2. /\ IsFiniteSet(Hash(t))
        /\ Cardinality(Hash(t)) = Cardinality(DOMAIN t.str) + Cardinality(DOMAIN t.dict)
                                     - Cardinality(DOMAIN t.str \cap DOMAIN t.dict)
    BY FS_Union DEF Finite, Hash
  <1>3. Cardinality(DOMAIN t.str \cap DOMAIN t.dict) = 0
    BY <1>1, FS_EmptySet
  <1>4. Cardinality(DOMAIN t.str) \in Nat /\ Cardinality(DOMAIN t.dict) \in Nat
    BY FS_CardinalityType DEF Finite
  <1>5. \A k \in Hash(t) : k \in HashKeys
    BY DEF Shape, Hash, HashKeys
  <1> QED
    BY <1>2, <1>3, <1>4, <1>5 DEF Hashed

\* Live keys, by the order.
LEMMA LiveKey ==
    ASSUME NEW t, Listed(t), t.ordered, NEW k \in HashKeys
    PROVE  (k \in DOMAIN t.k2i /\ t.keys[t.k2i[k]] # Dead) <=> k \in Hash(t)
  BY CursorKeys DEF Listed, Lists

\* The slots hold keys or are dead.
LEMMA KeysSequence ==
    ASSUME NEW t, Listed(t)
    PROVE  t.keys \in Seq(HashKeys \cup {Dead})
  <1>1. CASE t.ordered
    BY <1>1 DEF Listed, Lists
  <1>2. CASE ~ t.ordered
    <2>1. t.keys = <<>>
      BY <1>2 DEF Listed
    <2>2. <<>> \in Seq(HashKeys \cup {Dead})
      OBVIOUS
    <2> QED
      BY <2>1, <2>2, Zenon
  <1> QED
    BY <1>1, <1>2

\* Deleting a key makes its slot dead and moves no other.
LEMMA DeleteListed ==
    ASSUME NEW t, Listed(t), NEW k \in HashKeys, NEW w, DOMAIN w = Fields,
           w.keys = t.keys, w.k2i = t.k2i, w.ordered = t.ordered, Hash(w) = Hash(t) \ {k}
    PROVE  LET u == deleteIterationKey(w, k)
           IN  /\ Listed(u) /\ SameSlots(t, u) /\ Len(u.keys) = Len(t.keys)
               /\ NoNewSlots(t, u, k)
  <1> DEFINE u == deleteIterationKey(w, k)
  <1>1. CASE k \in DOMAIN t.k2i
    <2>1. t.ordered /\ Lists(t.keys, t.k2i, Hash(t))
      BY <1>1 DEF Listed
    <2>2. /\ u.keys = [t.keys EXCEPT ![t.k2i[k]] = Dead]
          /\ u.k2i = With(Without(t.k2i, {k}), iterationKey(k), t.k2i[k])
          /\ u.ordered /\ u.str = w.str /\ u.dict = w.dict
      BY <1>1, <2>1 DEF deleteIterationKey, Fields
    <2> HIDE DEF u
    <2>3. Hash(u) = Hash(t) \ {k}
      BY <2>2 DEF Hash
    <2>4. Listed(u)
      BY <1>1, <2>1, <2>2, <2>3, ListsDelete DEF Listed
    <2>5. Len(u.keys) = Len(t.keys)
      BY <2>1, <2>2 DEF Lists
    <2>6. /\ DOMAIN u.k2i = (DOMAIN t.k2i \ {k}) \cup {iterationKey(k)}
          /\ \A x \in DOMAIN u.k2i :
                u.k2i[x] = IF x = iterationKey(k) THEN t.k2i[k] ELSE t.k2i[x]
      BY <2>2 DEF With, Without
    <2>7. \A x \in Hash(u) : x \in Hash(t) /\ u.k2i[x] = t.k2i[x]
      BY <2>1, <2>3, <2>6, CursorKeys DEF Lists
    <2>8. ASSUME NEW x \in HashKeys PROVE slotOf(u, x) = slotOf(t, x)
      <3>1. x # Nil
        BY CursorKeys
      <3>2. CASE x = k
        BY <1>1, <2>6, <3>1, <3>2, CursorKeys DEF slotOf
      <3>3. CASE x # k
        <4>1. iterationKey(x) # iterationKey(k) /\ iterationKey(x) # k /\ x # iterationKey(k)
          BY <3>3, CursorKeys
        <4> QED
          BY <2>6, <3>1, <3>3, <4>1 DEF slotOf
      <3> QED
        BY <3>2, <3>3
    <2>9. NoNewSlots(t, u, k)
      <3>1. \A n \in Positions : <<"flt", n>> \in HashKeys
        BY DEF HashKeys, DictKeys, ArrayKeys
      <3> QED
        BY <1>1, <2>6, <3>1, CursorKeys DEF NoNewSlots
    <2>10. SameSlots(t, u)
      BY <2>1, <2>2, <2>7, <2>8 DEF SameSlots
    <2> QED
      BY <2>4, <2>5, <2>9, <2>10 DEF u
  <1>2. CASE k \notin DOMAIN t.k2i
    <2>1. u = w
      BY <1>2 DEF deleteIterationKey
    <2>2. t.ordered => Hash(w) = Hash(t)
      BY <1>2 DEF Listed, Lists
    <2>3. Listed(w)
      BY <2>2 DEF Listed
    <2>4. SameSlots(t, w) /\ NoNewSlots(t, w, k)
      BY DEF SameSlots, slotOf, NoNewSlots
    <2> QED
      BY <2>1, <2>3, <2>4
  <1> QED
    BY <1>1, <1>2

\* Forgetting positions of the array removes only their slots.
LEMMA ForgetListed ==
    ASSUME NEW t, DOMAIN t = Fields, Indexed(t), NEW ns
    PROVE  LET u == forgetDeletedArrayKey(t, ns)
           IN  /\ Indexed(u) /\ u.keys = t.keys /\ Hash(u) = Hash(t) /\ u.ordered = t.ordered
               /\ DOMAIN u.k2i \subseteq DOMAIN t.k2i
               /\ \A x \in DOMAIN u.k2i : u.k2i[x] = t.k2i[x]
               /\ \A x \in DOMAIN t.k2i : x \in DOMAIN u.k2i \/ (x[1] \in {"int", "flt"} /\ x[2] \in ns)
               /\ \A n \in Positions :
                     n \in ns /\ <<"flt", n>> \notin Hash(t) => <<"flt", n>> \notin DOMAIN u.k2i
  <1> DEFINE u == forgetDeletedArrayKey(t, ns)
             S == {k \in DOMAIN t.k2i : /\ k[1] \in {"int", "flt"}
                                        /\ k[2] \in ns
                                        /\ t.keys[t.k2i[k]] = Dead}
  <1>1. /\ u.keys = t.keys /\ u.k2i = Without(t.k2i, S) /\ u.ordered = t.ordered
        /\ u.str = t.str /\ u.dict = t.dict
    BY DEF forgetDeletedArrayKey, Fields
  <1> HIDE DEF u
  <1>2. Hash(u) = Hash(t) /\ Finite(u)
    BY <1>1 DEF Hash, Indexed, Finite
  <1>3. DOMAIN u.k2i = DOMAIN t.k2i \ S /\ \A x \in DOMAIN u.k2i : u.k2i[x] = t.k2i[x]
    BY <1>1 DEF Without
  <1>4. Listed(u)
    <2>1. CASE t.ordered
      <3>1. \A k \in S : k \in DOMAIN t.k2i => t.keys[t.k2i[k]] = Dead
        OBVIOUS
      <3> HIDE DEF S
      <3>2. Lists(t.keys, t.k2i, Hash(t))
        BY <2>1 DEF Listed, Indexed
      <3>3. Lists(t.keys, Without(t.k2i, S), Hash(t))
        BY <3>1, <3>2, ListsForget
      <3> QED
        BY <1>1, <1>2, <2>1, <3>3 DEF Listed
    <2>2. CASE ~ t.ordered
      BY <1>1, <1>3, <2>2 DEF Listed, Indexed
    <2> QED
      BY <2>1, <2>2
  <1>5. ASSUME NEW n \in Positions, n \in ns, <<"flt", n>> \notin Hash(t),
               <<"flt", n>> \in DOMAIN u.k2i
        PROVE  FALSE
    <2> DEFINE x == <<"flt", n>>
    <2>1. x[1] = "flt" /\ x[2] = n
      OBVIOUS
    <2>2. x \in HashKeys
      BY DEF HashKeys, DictKeys, ArrayKeys
    <2>3. x \in DOMAIN t.k2i /\ x \notin Hash(t) /\ x \in DOMAIN u.k2i
      BY <1>3, <1>5
    <2> HIDE DEF x
    <2>4. t.keys[t.k2i[x]] # Dead
      BY <1>3, <1>5, <2>1, <2>3
    <2>5. t.ordered
      BY <2>3 DEF Indexed, Listed
    <2> QED
      BY <2>2, <2>3, <2>4, <2>5, LiveKey DEF Indexed
  <1> QED
    BY <1>1, <1>2, <1>3, <1>4, <1>5 DEF Indexed, u

\* Moving positions to the array removes their slots.
LEMMA TakeListed ==
    ASSUME NEW t, Shape(t), Indexed(t), NEW ns
    PROVE  LET u == takeHashed(t, ns)
           IN  /\ Indexed(u) /\ Len(u.keys) = Len(t.keys) /\ u.ordered = t.ordered
               /\ DOMAIN u.k2i \subseteq DOMAIN t.k2i
               /\ \A n \in Positions : n \in ns => <<"flt", n>> \notin DOMAIN u.k2i
  <1> DEFINE f == forgetDeletedArrayKey(t, ns)
             taken == Taken(t, ns)
             w == [f EXCEPT !.dict = Without(@, taken), !.k2i = Without(@, taken),
                            !.keys = [i \in DOMAIN @ |-> IF @[i] \in taken THEN Dead ELSE @[i]]]
             u == takeHashed(t, ns)
  <1>1. u = IF taken = {} THEN f ELSE releaseEmptySparseHash(w)
    BY Zenon DEF takeHashed, Taken
  <1>2. DOMAIN f = Fields /\ f.str = t.str /\ f.dict = t.dict
    BY ForgetKeepsData DEF SameData, Shape
  <1>3. /\ Indexed(f) /\ f.keys = t.keys /\ Hash(f) = Hash(t) /\ f.ordered = t.ordered
        /\ DOMAIN f.k2i \subseteq DOMAIN t.k2i
        /\ \A n \in Positions :
              n \in ns /\ <<"flt", n>> \notin Hash(t) => <<"flt", n>> \notin DOMAIN f.k2i
    BY ForgetListed DEF Shape
  <1>4. \A n \in Positions : n \in ns => (<<"flt", n>> \in taken <=> <<"flt", n>> \in Hash(t))
    <2>1. \A n \in Positions : <<"flt", n>> \notin DOMAIN t.str
      BY KeysApart DEF Shape
    <2> QED
      BY <2>1, TakenKeys DEF Hash
  <1>5. taken \subseteq DOMAIN t.dict /\ \A k \in taken : k \notin DOMAIN t.str
    BY KeysApart DEF Taken, Shape
  <1> HIDE DEF f, taken, u
  <1>6. CASE taken = {}
    BY <1>1, <1>3, <1>4, <1>6 DEF u
  <1>7. CASE taken # {}
    <2>1. /\ DOMAIN w = Fields
          /\ w.dict = Without(t.dict, taken) /\ w.k2i = Without(f.k2i, taken)
          /\ w.keys = [i \in DOMAIN t.keys |-> IF t.keys[i] \in taken THEN Dead ELSE t.keys[i]]
          /\ w.ordered = t.ordered /\ w.str = t.str
      BY <1>2, <1>3 DEF Fields
    <2> HIDE DEF w
    <2>2. SameOrder(w, u)
      <3>1. u = releaseEmptySparseHash(w)
        BY <1>1, <1>7
      <3> QED
        BY <2>1, <3>1 DEF releaseEmptySparseHash, SameOrder, Fields
    <2>3. DOMAIN w.k2i = DOMAIN f.k2i \ taken /\ DOMAIN w.dict = DOMAIN t.dict \ taken
      BY <2>1 DEF Without
    <2>4. Hash(w) = Hash(t) \ taken
      BY <1>5, <2>1, <2>3 DEF Hash
    <2>5. Finite(w)
      <3>1. IsFiniteSet(DOMAIN t.str) /\ IsFiniteSet(DOMAIN t.dict)
        BY DEF Finite, Indexed
      <3>2. DOMAIN w.dict \in SUBSET DOMAIN t.dict
        BY <2>3
      <3>3. IsFiniteSet(DOMAIN w.dict)
        BY <3>1, <3>2, FS_Subset
      <3> QED
        BY <2>1, <3>1, <3>3 DEF Finite
    <2>6. Listed(w)
      <3>1. CASE t.ordered
        <4>1. Lists(t.keys, f.k2i, Hash(t))
          BY <1>3, <3>1 DEF Indexed, Listed
        <4>2. Lists(w.keys, w.k2i, Hash(w))
          BY <2>1, <2>4, <4>1, ListsTake
        <4> QED
          BY <2>1, <3>1, <4>2 DEF Listed
      <3>2. CASE ~ t.ordered
        <4>1. t.keys = <<>> /\ DOMAIN f.k2i = {}
          BY <1>3, <3>2 DEF Indexed, Listed
        <4>2. w.keys = <<>>
          BY <2>1, <4>1
        <4> QED
          BY <2>1, <2>3, <3>2, <4>1, <4>2 DEF Listed
      <3> QED
        BY <3>1, <3>2
    <2>7. Len(w.keys) = Len(t.keys)
      <3>1. t.keys \in Seq(HashKeys \cup {Dead})
        BY KeysSequence DEF Indexed
      <3> QED
        BY <2>1, <3>1
    <2>8. Indexed(u)
      BY <2>2, <2>5, <2>6, SameOrderKept DEF Indexed
    <2>9. Len(u.keys) = Len(t.keys) /\ u.ordered = t.ordered /\ u.k2i = w.k2i
      BY <2>1, <2>2, <2>7 DEF SameOrder
    <2>10. \A n \in Positions : n \in ns => <<"flt", n>> \notin DOMAIN w.k2i
      BY <1>3, <1>4, <2>3
    <2> QED
      BY <1>3, <2>3, <2>8, <2>9, <2>10 DEF u
  <1> QED
    BY <1>6, <1>7

\* A key that is new to the order goes to its end, after a compaction when
\* half of the slots are dead; that is where the bound on the slots comes from.
LEMMA AddListed ==
    ASSUME NEW t, Shape(t), Indexed(t), NEW k \in HashKeys, NEW u, Shape(u), Finite(u),
           u.keys = addIterationKey(t, k).keys, u.k2i = addIterationKey(t, k).k2i,
           u.ordered = addIterationKey(t, k).ordered, Hash(u) = Hash(t) \cup {k}
    PROVE  /\ Listed(u) /\ Fits(t, u) /\ NoNewSlots(t, u, k)
           /\ u.ordered = t.ordered
           /\ k \in Hash(t) => SameSlots(t, u)
  <1> USE SizeAssumption
  <1> DEFINE H == Hashed(t)
             L == Len(t.keys)
             half == L > H /\ L - H >= H
             w == IF half THEN compacted(t) ELSE t
  <1>1. CASE ~ t.ordered \/ k \in Hash(t)
    <2>1. addIterationKey(t, k) = t
      BY <1>1, LiveKey DEF addIterationKey, Indexed
    <2>2. u.keys = t.keys /\ u.k2i = t.k2i /\ u.ordered = t.ordered
      BY <2>1
    <2>3. Listed(u)
      BY <1>1, <2>2 DEF Indexed, Listed
    <2>4. k \in Hash(t) => SameSlots(t, u)
      BY <2>2 DEF SameSlots, slotOf
    <2> QED
      BY <2>2, <2>3, <2>4 DEF Fits, NoNewSlots
  <1>2. CASE t.ordered /\ k \notin Hash(t)
    <2>1. Lists(t.keys, t.k2i, Hash(t)) /\ Listed(t)
      BY <1>2 DEF Indexed, Listed
    <2>2. addIterationKey(t, k) =
              [w EXCEPT !.k2i = With(@, k, Len(w.keys) + 1), !.keys = Append(@, k)]
      BY <1>2, <2>1, LiveKey DEF addIterationKey
    <2>3. /\ IsFiniteSet(Hash(t)) /\ Cardinality(Hash(t)) = H /\ H \in Nat
      BY HashedIs DEF Indexed
    <2>4. H + 1 = Hashed(u)
      <3>1. Cardinality(Hash(u)) = Cardinality(Hash(t)) + 1
        BY <1>2, <2>3, FS_AddElement
      <3>2. Cardinality(Hash(u)) = Hashed(u)
        BY HashedIs
      <3> QED
        BY <2>3, <3>1, <3>2
    <2>5. L \in Nat
      BY <2>1 DEF Lists
    <2>6. DOMAIN w = Fields /\ w.ordered /\ Lists(w.keys, w.k2i, Hash(t))
          /\ Len(w.keys) \in Nat
          /\ (half => Len(w.keys) <= H) /\ (~ half => Len(w.keys) = L)
          /\ \A x \in DOMAIN w.k2i : x \in HashKeys => x \in DOMAIN t.k2i
      <3>1. CASE half
        <4>1. w = [t EXCEPT !.keys = Compact(t.keys), !.k2i = SlotsOf(Compact(t.keys))]
          BY <3>1, CompactedForm
        <4>2. /\ w.keys = Compact(t.keys) /\ w.k2i = SlotsOf(Compact(t.keys))
              /\ w.ordered = t.ordered /\ DOMAIN w = Fields
          BY <4>1 DEF Shape, Fields
        <4> HIDE DEF w
        <4>3. Lists(w.keys, w.k2i, Hash(t)) /\ Len(w.keys) <= H
          BY <2>1, <2>3, <4>2, ListsCompact
        <4>4. ASSUME NEW x \in DOMAIN w.k2i PROVE x \in DOMAIN t.k2i
          <5>1. w.k2i[x] \in 1 .. Len(w.keys)
            BY <4>3 DEF Lists
          <5>2. x \in Range(Compact(t.keys))
            BY <4>2 DEF SlotsOf
          <5>3. PICK i \in DOMAIN w.keys : w.keys[i] = x
            BY <4>2, <5>2 DEF Range
          <5>4. i \in 1 .. Len(w.keys) /\ x \in HashKeys \cup {Dead}
            BY <4>3, <5>3 DEF Lists
          <5>5. x # Dead
            BY <4>3, CursorKeys DEF Lists
          <5>6. x \in Hash(t)
            BY <4>3, <5>3, <5>4, <5>5 DEF Lists
          <5> QED
            BY <2>1, <5>6 DEF Lists
        <4>5. Len(w.keys) \in Nat
          BY <4>3 DEF Lists
        <4> QED
          BY <1>2, <3>1, <4>2, <4>3, <4>4, <4>5
      <3>2. CASE ~ half
        BY <1>2, <2>1, <2>5, <3>2 DEF Shape
      <3> QED
        BY <3>1, <3>2
    <2> HIDE DEF w
    <2>7. /\ u.keys = Append(w.keys, k) /\ u.k2i = With(w.k2i, k, Len(w.keys) + 1)
          /\ u.ordered
      BY <2>2, <2>6 DEF Fields
    <2>8. Listed(u)
      BY <1>2, <2>6, <2>7, ListsAdd DEF Listed
    <2>9. Fits(t, u)
      <3>1. Len(u.keys) = Len(w.keys) + 1
        BY <2>6, <2>7 DEF Lists
      <3> HIDE DEF H, L
      <3>2. ASSUME Hashed(u) <= MaxHash PROVE Len(u.keys) <= 2 * MaxHash
        <4>1. CASE half
          BY <2>3, <2>4, <2>6, <3>1, <3>2, <4>1
        <4>2. CASE ~ half
          <5>1. L <= H \/ L < H + H
            BY <2>3, <2>5, <4>2
          <5> QED
            BY <2>3, <2>4, <2>5, <2>6, <3>1, <3>2, <4>2, <5>1
        <4> QED
          BY <4>1, <4>2
      <3> QED
        BY <3>2 DEF Fits
    <2>10. NoNewSlots(t, u, k)
      <3>1. DOMAIN u.k2i = DOMAIN w.k2i \cup {k}
        BY <2>7 DEF With
      <3>2. \A n \in Positions : <<"flt", n>> \in HashKeys
        BY DEF HashKeys, DictKeys, ArrayKeys
      <3> QED
        BY <2>6, <3>1, <3>2 DEF NoNewSlots
    <2> QED
      BY <1>2, <2>7, <2>8, <2>9, <2>10
  <1> QED
    BY <1>1, <1>2

-----------------------------------------------------------------------------
(* Writes to the hash parts.                                               *)

\* u is t after writing v for key k of a hash part: the order still lists the
\* fields, and no slot moves unless a field was added.
HashWrote(t, u, k, v) ==
    /\ Indexed(u) /\ Fits(t, u) /\ NoNewSlots(t, u, k) /\ u.ordered = t.ordered
    /\ v = Nil \/ k \in Hash(t) => SameSlots(t, u)

\* RawSetH does that,
LEMMA SetHListed ==
    ASSUME NEW t, Shape(t), Indexed(t), NEW k \in DictKeys, NEW v \in Values \cup {Nil}
    PROVE  HashWrote(t, RawSetH(t, k, v), k, v)
  <1> DEFINE u == RawSetH(t, k, v)
  <1>1. numericTableKey(k) = k /\ k[1] # "str" /\ k \in HashKeys
    <2>1. k \in HashKeys
      BY DEF HashKeys
    <2>2. k[1] # "str"
      BY DEF DictKeys, ArrayKeys, RestKeys
    <2> QED
      BY <2>1, <2>2, KeysCanonical
  <1>2. Shape(u) /\ u.str = t.str
        /\ u.dict = IF v = Nil THEN Without(t.dict, {k}) ELSE With(t.dict, k, v)
    <2>1. DictSet(t, u, k, v)
      BY SetHSets DEF Shape
    <2> HIDE DEF u
    <2>2. Shape(u)
      BY <2>1, DictSetShape
    <2> QED
      BY <2>1, <2>2 DEF DictSet
  <1>3. k \notin DOMAIN t.str
    BY KeysApart DEF Shape
  <1>4. Finite(t) /\ Listed(t) /\ DOMAIN t = Fields
    BY DEF Indexed, Shape
  <1>5. CASE v = Nil
    <2> DEFINE w == [t EXCEPT !.dict = Without(@, {k})]
               d == deleteIterationKey(w, k)
    <2>1. u = releaseEmptySparseHash(d)
      BY <1>1, <1>5 DEF RawSetH
    <2>2. /\ DOMAIN w = Fields /\ w.keys = t.keys /\ w.k2i = t.k2i /\ w.ordered = t.ordered
          /\ w.str = t.str /\ w.dict = Without(t.dict, {k}) /\ DOMAIN w.dict = DOMAIN t.dict \ {k}
      BY <1>4 DEF Fields, Without
    <2> HIDE DEF w, u
    <2>3. Hash(w) = Hash(t) \ {k}
      BY <1>3, <2>2 DEF Hash
    <2>4. Listed(d) /\ SameSlots(t, d) /\ Len(d.keys) = Len(t.keys) /\ NoNewSlots(t, d, k)
      BY <1>1, <1>4, <2>2, <2>3, DeleteListed
    <2>5. SameData(w, d)
      BY <2>2, DeleteKeepsData
    <2> HIDE DEF d
    <2>6. Finite(d)
      <3>1. IsFiniteSet(DOMAIN t.dict \ {k})
        BY <1>4, FS_RemoveElement DEF Finite
      <3> QED
        BY <1>4, <2>2, <2>5, <3>1 DEF Finite, SameData
    <2>7. SameOrder(d, u)
      BY <2>1, <2>5 DEF releaseEmptySparseHash, SameOrder, SameData, Fields
    <2>8. Indexed(u) /\ SameSlots(t, u)
      BY <2>4, <2>6, <2>7, SameOrderKept, SameSlotsTwice DEF Indexed
    <2>9. Fits(t, u) /\ NoNewSlots(t, u, k)
      BY <2>4, <2>7 DEF Fits, NoNewSlots, SameOrder
    <2>10. u.ordered = t.ordered
      BY <2>8 DEF SameSlots
    <2> QED
      BY <2>8, <2>9, <2>10 DEF HashWrote, u
  <1>6. CASE v # Nil
    <2> DEFINE a == addIterationKey(t, k)
    <2>1. u = [a EXCEPT !.sparse = FALSE, !.hasDict = TRUE, !.dict = With(@, k, v)]
      BY <1>1, <1>6 DEF RawSetH
    <2>2. DOMAIN a = Fields
      BY <1>4, AddKeepsData DEF SameData
    <2> HIDE DEF a
    <2>3. u.keys = a.keys /\ u.k2i = a.k2i /\ u.ordered = a.ordered
      BY <2>1, <2>2 DEF Fields
    <2> HIDE DEF u
    <2>4. DOMAIN u.dict = DOMAIN t.dict \cup {k}
      BY <1>2, <1>6 DEF With
    <2>5. Hash(u) = Hash(t) \cup {k}
      BY <1>2, <2>4 DEF Hash
    <2>6. Finite(u)
      BY <1>2, <1>4, <2>4, FS_AddElement DEF Finite
    <2>7. /\ Listed(u) /\ Fits(t, u) /\ NoNewSlots(t, u, k) /\ u.ordered = t.ordered
          /\ k \in Hash(t) => SameSlots(t, u)
      BY <1>1, <1>2, <2>3, <2>5, <2>6, AddListed DEF a
    <2> QED
      BY <1>6, <2>6, <2>7 DEF HashWrote, Indexed, u
  <1> QED
    BY <1>5, <1>6

\* and so does RawSetString.
LEMMA SetStringListed ==
    ASSUME NEW t, Shape(t), Indexed(t), NEW k \in StrKeys, NEW v \in Values \cup {Nil},
           Shape(RawSetString(t, k, v))
    PROVE  /\ HashWrote(t, RawSetString(t, k, v), k, v)
           /\ RawSetString(t, k, v).arr = t.arr
  <1> DEFINE u == RawSetString(t, k, v)
  <1>1. k \in HashKeys /\ k \notin DOMAIN t.dict
    BY KeysApart DEF HashKeys, Shape
  <1>2. Finite(t) /\ Listed(t) /\ DOMAIN t = Fields
    BY DEF Indexed, Shape
  <1>3. CASE v = Nil
    <2> DEFINE w == [t EXCEPT !.str = Without(@, {k})]
    <2>1. u = deleteIterationKey(w, k)
      BY <1>3 DEF RawSetString
    <2>2. /\ DOMAIN w = Fields /\ w.keys = t.keys /\ w.k2i = t.k2i /\ w.ordered = t.ordered
          /\ w.dict = t.dict /\ DOMAIN w.str = DOMAIN t.str \ {k} /\ w.arr = t.arr
      BY <1>2 DEF Fields, Without
    <2> HIDE DEF w, u
    <2>3. Hash(w) = Hash(t) \ {k}
      BY <1>1, <2>2 DEF Hash
    <2>4. Listed(u) /\ SameSlots(t, u) /\ Len(u.keys) = Len(t.keys) /\ NoNewSlots(t, u, k)
      BY <1>1, <1>2, <2>1, <2>2, <2>3, DeleteListed
    <2>5. SameData(w, u)
      BY <2>1, <2>2, DeleteKeepsData
    <2>6. Finite(u)
      <3>1. IsFiniteSet(DOMAIN t.str \ {k})
        BY <1>2, FS_RemoveElement DEF Finite
      <3> QED
        BY <1>2, <2>2, <2>5, <3>1 DEF Finite, SameData
    <2>7. u.ordered = t.ordered /\ u.arr = t.arr
      BY <2>2, <2>4, <2>5 DEF SameSlots, SameData
    <2> QED
      BY <2>4, <2>6, <2>7 DEF HashWrote, Fits, Indexed, u
  <1>4. CASE v # Nil
    <2> DEFINE a == addIterationKey(t, k)
    <2>1. u = [a EXCEPT !.str = With(@, k, v)]
      BY <1>4 DEF RawSetString
    <2>2. SameData(t, a)
      BY <1>2, AddKeepsData
    <2> HIDE DEF a
    <2>3. /\ u.keys = a.keys /\ u.k2i = a.k2i /\ u.ordered = a.ordered
          /\ u.arr = t.arr /\ u.dict = t.dict /\ u.str = With(t.str, k, v)
      BY <2>1, <2>2 DEF Fields, SameData
    <2>4. Shape(u)
      OBVIOUS
    <2> HIDE DEF u
    <2>5. DOMAIN u.str = DOMAIN t.str \cup {k}
      BY <2>3 DEF With
    <2>6. Hash(u) = Hash(t) \cup {k}
      BY <2>3, <2>5 DEF Hash
    <2>7. Finite(u)
      BY <1>2, <2>3, <2>5, FS_AddElement DEF Finite
    <2>8. /\ Listed(u) /\ Fits(t, u) /\ NoNewSlots(t, u, k) /\ u.ordered = t.ordered
          /\ k \in Hash(t) => SameSlots(t, u)
      BY <1>1, <2>3, <2>4, <2>6, <2>7, AddListed DEF a
    <2> QED
      BY <1>4, <2>3, <2>7, <2>8 DEF HashWrote, Indexed, u
  <1> QED
    BY <1>3, <1>4

-----------------------------------------------------------------------------
(* Writes to the array part.                                               *)

\* An operation leaves a good order that has not outgrown its fields.
Settled(t, u) == Indexed(u) /\ Cleared(u) /\ Fits(t, u) /\ u.ordered = t.ordered

\* What an operation may do to a table without upsetting a traversal of it.
Calm(t, u) == SameSlots(t, u) /\ Len(u.arr) <= Len(t.arr)

\* The array grows only over positions whose slots are gone.
LEMMA ClearedAfter ==
    ASSUME NEW t, NEW u, Cleared(t), Shape(u), NEW ns,
           DOMAIN u.k2i \subseteq DOMAIN t.k2i,
           \A n \in Positions : n \in ns => <<"flt", n>> \notin DOMAIN u.k2i,
           \A n \in 1 .. Len(u.arr) : n \in 1 .. Len(t.arr) \/ n \in ns
    PROVE  Cleared(u)
  <1>1. \A n \in 1 .. Len(u.arr) : n \in Positions
    BY SizeAssumption DEF Shape, Positions
  <1> QED
    BY <1>1 DEF Cleared

\* A write at a position of the array forgets nothing.
LEMMA ForgetCalm ==
    ASSUME NEW t, DOMAIN t = Fields, Indexed(t), NEW n \in Positions,
           <<"flt", n>> \notin DOMAIN t.k2i
    PROVE  SameSlots(t, forgetDeletedArrayKey(t, {n}))
  <1> DEFINE u == forgetDeletedArrayKey(t, {n})
  <1>1. /\ u.keys = t.keys /\ Hash(u) = Hash(t) /\ u.ordered = t.ordered
        /\ DOMAIN u.k2i \subseteq DOMAIN t.k2i
        /\ \A x \in DOMAIN u.k2i : u.k2i[x] = t.k2i[x]
        /\ \A x \in DOMAIN t.k2i : x \in DOMAIN u.k2i \/ (x[1] \in {"int", "flt"} /\ x[2] \in {n})
    BY ForgetListed
  <1> HIDE DEF u
  <1>2. \A x \in DOMAIN t.k2i : x \in HashKeys \cup Cursors
    BY DEF Indexed, Listed, Lists
  <1>3. ASSUME NEW x \in HashKeys \cup Cursors, x[1] \in {"int", "flt"}, x[2] = n
        PROVE  x = <<"flt", n>>
    <2>1. x \in ArrayKeys \cup {<<"int", m>> : m \in {0, MaxArrayIndex}}
      BY <1>3 DEF HashKeys, Cursors, StrKeys, DictKeys, RestKeys, OtherKeys
    <2>2. n # 0 /\ n # MaxArrayIndex
      BY SizeAssumption DEF Positions
    <2> QED
      BY <1>3, <2>1, <2>2 DEF ArrayKeys
  <1>4. DOMAIN u.k2i = DOMAIN t.k2i
    BY <1>1, <1>2, <1>3
  <1>5. \A x \in HashKeys : slotOf(u, x) = slotOf(t, x)
    BY <1>1, <1>4 DEF slotOf
  <1>6. t.ordered => \A x \in Hash(t) : x \in DOMAIN t.k2i
    BY DEF Indexed, Listed, Lists
  <1>7. SameSlots(t, u)
    BY <1>1, <1>4, <1>5, <1>6 DEF SameSlots
  <1> QED
    BY <1>7 DEF u

\* Migration keeps the order good,
LEMMA PullListed ==
    ASSUME NEW t, Shape(t), Beyond(t), Indexed(t), Cleared(t)
    PROVE  LET u == pullHashed(t)
           IN  Indexed(u) /\ Cleared(u) /\ Len(u.keys) = Len(t.keys) /\ u.ordered = t.ordered
  <1> DEFINE u == pullHashed(t)
             w == takeHashed(t, Looked(t))
  <1>1. CASE DOMAIN t.dict = {}
    BY <1>1, PullForm
  <1>2. CASE DOMAIN t.dict # {}
    <2>1. u = [w EXCEPT !.arr = @ \o Joined(t)]
      BY <1>2, PullForm
    <2>2. DOMAIN w = Fields
      BY TakeData DEF Shape
    <2>3. /\ Indexed(w) /\ Len(w.keys) = Len(t.keys) /\ w.ordered = t.ordered
          /\ DOMAIN w.k2i \subseteq DOMAIN t.k2i
          /\ \A n \in Positions : n \in Looked(t) => <<"flt", n>> \notin DOMAIN w.k2i
      BY TakeListed
    <2>4. Shape(u) /\ Len(u.arr) = RunEnd(t)
      BY <1>2, PullReads, PullData
    <2> HIDE DEF w
    <2>5. SameOrder(w, u)
      BY <2>1, <2>2 DEF SameOrder, Fields
    <2> HIDE DEF u
    <2>6. \A n \in 1 .. Len(u.arr) : n \in 1 .. Len(t.arr) \/ n \in Looked(t)
      <3>1. RunEnds(t, RunEnd(t))
        BY RunEndExists
      <3>2. Len(t.arr) \in Nat /\ RunEnd(t) \in Nat
        BY <3>1, SizeAssumption DEF RunEnds, Shape
      <3> QED
        BY <2>4, <3>2 DEF Looked
    <2>7. Cleared(u)
      BY <2>3, <2>4, <2>5, <2>6, ClearedAfter DEF SameOrder
    <2>8. Indexed(u) /\ Len(u.keys) = Len(t.keys) /\ u.ordered = t.ordered
      BY <2>3, <2>5, SameOrderKept DEF SameOrder
    <2> QED
      BY <2>7, <2>8 DEF u
  <1> QED
    BY <1>1, <1>2

\* growth of the array too,
LEMMA GrownListed ==
    ASSUME NEW t, Shape(t), Apart(t), Indexed(t), Cleared(t), NEW n \in Positions,
           n > Len(t.arr), NEW v \in Values \cup {Nil}
    PROVE  LET u == Grown(t, n, v)
           IN  Indexed(u) /\ Cleared(u) /\ Len(u.keys) = Len(t.keys) /\ u.ordered = t.ordered
  <1> DEFINE u == Grown(t, n, v)
             ns == Len(t.arr) + 1 .. n
             w == takeHashed(t, ns)
  <1>1. SameOrder(w, u)
    <2>1. DOMAIN w = Fields
      BY TakeData DEF Shape
    <2> HIDE DEF w
    <2>2. \E q : u = [w EXCEPT !.made = TRUE, !.arr = q]
      BY Zenon DEF Grown, w
    <2> QED
      BY <2>1, <2>2 DEF SameOrder, Fields
  <1>2. /\ Indexed(w) /\ Len(w.keys) = Len(t.keys) /\ w.ordered = t.ordered
        /\ DOMAIN w.k2i \subseteq DOMAIN t.k2i
        /\ \A m \in Positions : m \in ns => <<"flt", m>> \notin DOMAIN w.k2i
    <2> HIDE DEF ns
    <2> QED
      BY TakeListed
  <1>3. Shape(u) /\ Len(u.arr) = n
    <2>1. GrewTo(t, u, n, v)
      BY GrownData
    <2> HIDE DEF u
    <2>2. Shape(u)
      BY <2>1, GrowReads
    <2> QED
      BY <2>1, <2>2 DEF GrewTo
  <1> HIDE DEF w, u
  <1>4. \A m \in 1 .. Len(u.arr) : m \in 1 .. Len(t.arr) \/ m \in ns
    BY <1>3, SizeAssumption DEF Shape, Positions
  <1> HIDE DEF ns
  <1>5. Cleared(u)
    BY <1>1, <1>2, <1>3, <1>4, ClearedAfter DEF SameOrder
  <1>6. Indexed(u) /\ Len(u.keys) = Len(t.keys) /\ u.ordered = t.ordered
    BY <1>1, <1>2, SameOrderKept DEF SameOrder
  <1> QED
    BY <1>5, <1>6 DEF u

\* A hashed position, or any other hashed key, is no position of the array.
LEMMA HashWroteSettles ==
    ASSUME NEW t, NEW u, NEW k, NEW v, Shape(t), Cleared(t), HashWrote(t, u, k, v),
           u.arr = t.arr, \A n \in 1 .. Len(t.arr) : k # <<"flt", n>>
    PROVE  /\ Settled(t, u)
           /\ v = Nil \/ k \in Hash(t) => Calm(t, u)
  <1>1. Len(t.arr) \in Nat /\ \A n \in 1 .. Len(t.arr) : n \in Positions
    BY SizeAssumption DEF Shape, Positions
  <1>2. Cleared(u)
    BY <1>1 DEF Cleared, HashWrote, NoNewSlots
  <1> QED
    BY <1>1, <1>2 DEF HashWrote, Settled, Calm

\* A position past the array.
LEMMA SparseListed ==
    ASSUME NEW t, Shape(t), Apart(t), Indexed(t), Cleared(t), NEW n \in Positions,
           n > Len(t.arr), NEW v \in Values \cup {Nil}
    PROVE  /\ Settled(t, setSparseIntKey(t, n, v))
           /\ v = Nil \/ <<"flt", n>> \in DOMAIN t.dict => Calm(t, setSparseIntKey(t, n, v))
  <1> DEFINE k == <<"flt", n>>
             h == RawSetH(t, k, v)
             u == setSparseIntKey(t, n, v)
             g == Grown(t, n, v)
  <1>1. Len(t.arr) \in Nat /\ n \in Nat /\ k \in DictKeys /\ DOMAIN t = Fields
    BY DEF Shape, Positions, DictKeys, ArrayKeys
  <1>2. CASE StaysHashed(t, n, v)
    <2>1. HashWrote(t, h, k, v)
      <3> HIDE DEF k
      <3> QED
        BY <1>1, SetHListed
    <2>2. DOMAIN h = Fields /\ h.arr = t.arr
      <3> HIDE DEF k
      <3> QED
        BY <1>1, SetHSets DEF DictSet
    <2>3. u = IF ~t.hasDict \/ t.sparse THEN releaseEmptySparseHash([h EXCEPT !.sparse = TRUE])
              ELSE h
      BY <1>2, SparseForm
    <2> HIDE DEF h, u
    <2>4. SameOrder(h, u) /\ u.arr = t.arr
      BY <2>2, <2>3 DEF SameOrder, releaseEmptySparseHash, Fields
    <2>5. \A m \in 1 .. Len(t.arr) : k # <<"flt", m>>
      BY <1>1
    <2>6. k \in DOMAIN t.dict => k \in Hash(t)
      BY DEF Hash
    <2> HIDE DEF k
    <2>7. HashWrote(t, u, k, v)
      <3>1. Indexed(u) /\ SameSlots(h, u) /\ Hashed(u) = Hashed(h)
        BY <2>1, <2>4, SameOrderKept DEF HashWrote
      <3>2. v = Nil \/ k \in Hash(t) => SameSlots(t, u)
        BY <2>1, <3>1, SameSlotsTwice DEF HashWrote
      <3> QED
        BY <2>1, <2>4, <3>1, <3>2 DEF HashWrote, SameOrder, Fits, NoNewSlots
    <2>8. Settled(t, u) /\ (v = Nil \/ k \in Hash(t) => Calm(t, u))
      BY <2>4, <2>5, <2>7, HashWroteSettles
    <2> QED
      BY <2>6, <2>8 DEF u, k
  <1>3. CASE ~ StaysHashed(t, n, v)
    <2>1. u = pullHashed(g)
      BY <1>3, SparseForm
    <2>2. Shape(g) /\ Beyond(g)
      <3>1. GrewTo(t, g, n, v)
        BY GrownData
      <3> HIDE DEF g
      <3> QED
        BY <3>1, GrowReads
    <2>3. Indexed(g) /\ Cleared(g) /\ Len(g.keys) = Len(t.keys) /\ g.ordered = t.ordered
      BY GrownListed
    <2> HIDE DEF g, u
    <2>4. Indexed(u) /\ Cleared(u) /\ Len(u.keys) = Len(g.keys) /\ u.ordered = g.ordered
      BY <2>1, <2>2, <2>3, PullListed
    <2>5. v # Nil /\ k \notin DOMAIN t.dict
      BY <1>3 DEF StaysHashed
    <2> QED
      BY <2>3, <2>4, <2>5 DEF Settled, Fits, u
  <1> QED
    BY <1>2, <1>3

\* and so does RawSetInt; without a new field it moves no slot.
LEMMA SetIntListed ==
    ASSUME NEW t, Shape(t), Apart(t), Indexed(t), Cleared(t), NEW n \in Positions,
           NEW v \in Values \cup {Nil}
    PROVE  /\ Settled(t, RawSetInt(t, n, v))
           /\ v = Nil \/ getIntKey(t, n) # Nil => Calm(t, RawSetInt(t, n, v))
  <1> DEFINE a == Len(t.arr)
             u == RawSetInt(t, n, v)
  <1>1. a \in Nat /\ n \in Nat /\ n >= 1 /\ DOMAIN t = Fields /\ t.arr \in Seq(Values \cup {Nil})
    BY DEF Shape, Positions
  <1>2. Shape(u)
    BY SetIntReads DEF PositionSet
  <1>3. CASE n <= a
    <2> DEFINE w == [t EXCEPT !.arr[n] = v]
    <2>1. u = forgetDeletedArrayKey(w, {n})
      BY <1>3 DEF RawSetInt
    <2>2. DOMAIN w = Fields /\ SameOrder(t, w) /\ Len(w.arr) = a
      BY <1>1 DEF Fields, SameOrder
    <2> HIDE DEF w, u
    <2>3. Indexed(w) /\ SameSlots(t, w)
      BY <2>2, SameOrderKept
    <2>4. <<"flt", n>> \notin DOMAIN w.k2i
      BY <1>1, <1>3, <2>2 DEF Cleared, SameOrder
    <2>5. /\ Indexed(u) /\ u.keys = w.keys /\ u.ordered = w.ordered
          /\ DOMAIN u.k2i \subseteq DOMAIN w.k2i
      BY <2>1, <2>2, <2>3, ForgetListed
    <2>6. SameSlots(w, u)
      BY <2>1, <2>2, <2>3, <2>4, ForgetCalm
    <2>7. SameData(w, u)
      BY <2>1, <2>2, ForgetKeepsData
    <2>8. Len(u.arr) = a
      BY <2>2, <2>7 DEF SameData
    <2>9. Cleared(u)
      BY <2>2, <2>5, <2>8 DEF Cleared, SameOrder
    <2>10. SameSlots(t, u)
      BY <2>3, <2>6, SameSlotsTwice
    <2>11. Len(u.arr) <= Len(t.arr)
      BY <1>1, <2>8
    <2> QED
      BY <2>2, <2>5, <2>9, <2>10, <2>11 DEF Settled, Fits, Calm, SameOrder, u
  <1>4. CASE n > a /\ n = a + 1 /\ t.made /\ v # Nil /\ DOMAIN t.dict = {}
    <2> DEFINE w == [t EXCEPT !.arr = Append(@, v)]
    <2>1. u = forgetDeletedArrayKey(w, {n})
      BY <1>1, <1>4 DEF RawSetInt
    <2>2. DOMAIN w = Fields /\ SameOrder(t, w) /\ Len(w.arr) = n
      BY <1>1, <1>4 DEF Fields, SameOrder
    <2> HIDE DEF w, u
    <2>3. Indexed(w)
      BY <2>2, SameOrderKept
    <2>4. <<"flt", n>> \notin Hash(w)
      BY <1>4, <2>2, KeysApart DEF Hash, SameOrder, Shape
    <2>5. /\ Indexed(u) /\ u.keys = w.keys /\ u.ordered = w.ordered
          /\ DOMAIN u.k2i \subseteq DOMAIN w.k2i
          /\ \A m \in Positions :
                m \in {n} /\ <<"flt", m>> \notin Hash(w) => <<"flt", m>> \notin DOMAIN u.k2i
      BY <2>1, <2>2, <2>3, ForgetListed
    <2>6. Len(u.arr) = n
      BY <2>1, <2>2, ForgetKeepsData DEF SameData
    <2>7. \A m \in 1 .. Len(u.arr) : m \in 1 .. Len(t.arr) \/ m \in {n}
      BY <1>1, <1>4, <2>6
    <2>8. Cleared(u)
      <3>1. \A m \in Positions : m \in {n} => <<"flt", m>> \notin DOMAIN u.k2i
        BY <2>4, <2>5
      <3>2. DOMAIN u.k2i \subseteq DOMAIN t.k2i
        BY <2>2, <2>5 DEF SameOrder
      <3> QED
        BY <1>2, <2>7, <3>1, <3>2, ClearedAfter
    <2>9. getIntKey(t, n) = Nil
      <3>1. ~ (n <= Len(t.arr)) /\ <<"flt", n>> \notin DOMAIN t.dict
        BY <1>1, <1>4
      <3> QED
        BY <3>1, ReadPosition
    <2>10. u.keys = t.keys /\ u.ordered = t.ordered
      BY <2>2, <2>5 DEF SameOrder
    <2>11. Settled(t, u)
      BY <2>5, <2>8, <2>10 DEF Settled, Fits
    <2> QED
      BY <1>4, <2>9, <2>11 DEF u
  <1>5. CASE n > a /\ ~ (n = a + 1 /\ t.made /\ v # Nil /\ DOMAIN t.dict = {})
    <2>1. u = setSparseIntKey(t, n, v)
      BY <1>1, <1>5 DEF RawSetInt
    <2>2. getIntKey(t, n) # Nil => <<"flt", n>> \in DOMAIN t.dict
      BY <1>1, <1>5, ReadPosition
    <2> QED
      BY <1>5, <2>1, <2>2, SparseListed
  <1> QED
    BY <1>1, <1>3, <1>4, <1>5

\* Append, Insert and Remove: the array changes, and the cursor of the last
\* position concerned goes.
LEMMA ArrayListed ==
    ASSUME NEW t, Shape(t), Apart(t), Indexed(t), Cleared(t), NEW w, SameOrder(t, w),
           Shape(w), Beyond(w), NEW n \in Positions,
           Len(w.arr) <= Len(t.arr) \/ (Len(w.arr) = n /\ n = Len(t.arr) + 1)
    PROVE  LET f == forgetDeletedArrayKey(w, {n})
           IN  Settled(t, f) /\ Settled(t, pullHashed(f))
  <1> DEFINE f == forgetDeletedArrayKey(w, {n})
             u == pullHashed(f)
  <1>1. DOMAIN w = Fields /\ Indexed(w)
    BY SameOrderKept DEF Shape
  <1>2. SameData(w, f)
    BY <1>1, ForgetKeepsData
  <1>3. /\ Indexed(f) /\ f.keys = w.keys /\ f.ordered = w.ordered
        /\ DOMAIN f.k2i \subseteq DOMAIN w.k2i
        /\ \A m \in Positions :
              m \in {n} /\ <<"flt", m>> \notin Hash(w) => <<"flt", m>> \notin DOMAIN f.k2i
    BY <1>1, ForgetListed
  <1> HIDE DEF f
  <1>4. Shape(f) /\ Beyond(f) /\ Len(f.arr) = Len(w.arr)
    BY <1>2, ShapeKept DEF Beyond, SameData
  <1>5. Len(t.arr) \in Nat /\ Len(w.arr) \in Nat
    BY DEF Shape
  <1>6. DOMAIN f.k2i \subseteq DOMAIN t.k2i /\ f.keys = t.keys /\ f.ordered = t.ordered
    BY <1>3 DEF SameOrder
  <1>7. Cleared(f)
    <2>1. CASE Len(w.arr) <= Len(t.arr)
      <3>1. \A m \in 1 .. Len(f.arr) : m \in 1 .. Len(t.arr)
        BY <1>4, <1>5, <2>1
      <3> QED
        BY <1>6, <3>1 DEF Cleared
    <2>2. CASE Len(w.arr) = n /\ n = Len(t.arr) + 1
      <3>1. <<"flt", n>> \notin Hash(w)
        <4>1. ~ (n > Len(t.arr) + 1)
          BY <1>5, <2>2
        <4>2. <<"flt", n>> \notin DOMAIN t.dict
          BY <4>1 DEF Apart
        <4>3. <<"flt", n>> \notin DOMAIN t.str
          BY KeysApart DEF Shape
        <4> QED
          BY <4>2, <4>3 DEF Hash, SameOrder
      <3>2. \A m \in Positions : m \in {n} => <<"flt", m>> \notin DOMAIN f.k2i
        BY <1>3, <3>1
      <3>3. \A m \in 1 .. Len(f.arr) : m \in 1 .. Len(t.arr) \/ m \in {n}
        BY <1>4, <1>5, <2>2
      <3> QED
        BY <1>4, <1>6, <3>2, <3>3, ClearedAfter
    <2> QED
      BY <2>1, <2>2
  <1>8. Settled(t, f)
    BY <1>3, <1>6, <1>7 DEF Settled, Fits
  <1>9. Indexed(u) /\ Cleared(u) /\ Len(u.keys) = Len(f.keys) /\ u.ordered = f.ordered
    BY <1>3, <1>4, <1>7, PullListed
  <1>10. Settled(t, u)
    <2> HIDE DEF u
    <2> QED
      BY <1>6, <1>9 DEF Settled, Fits
  <1> QED
    BY <1>8, <1>10 DEF f

-----------------------------------------------------------------------------
(* What is present.                                                        *)

\* The keys present are those that can be read.
LEMMA PresentIs ==
    ASSUME NEW t
    PROVE  /\ \A n \in Positions : <<"pos", n>> \in Present(t) <=> getIntKey(t, n) # Nil
           /\ \A k \in OtherKeys : k \in Present(t) <=> RawGetH(t, k) # Nil
           /\ \A x \in Present(t) : x \in OtherKeys \/ \E n \in Positions : x = <<"pos", n>>
  BY ContentReads, MapKeyForms DEF Present

\* Whether an operation can upset a traversal is seen from what is present.
LEMMA SetListed ==
    ASSUME NEW t, Shape(t), Apart(t), Indexed(t), Cleared(t), NEW key \in Keys,
           NEW v \in Values \cup {Nil}
    PROVE  LET u == RawSet(t, key, v)
           IN  Settled(t, u) /\ (Present(u) \subseteq Present(t) => Calm(t, u))
  <1> DEFINE u == RawSet(t, key, v)
             k == MapKey(key)
  <1>1. Shape(u) /\ Content(u) = MapSet(Content(t), k, v)
    BY SetReads DEF MapSet
  <1>2. k \in Map!MapKeys
    BY MapKeyOf, MapKeyForms
  <1>3. Content(u)[k] = v
    <2> HIDE DEF u, k
    <2> QED
      BY <1>1, <1>2, ContentReads DEF MapSet
  <1>4. Present(u) \subseteq Present(t) => v = Nil \/ Content(t)[k] # Nil
    <2> HIDE DEF u, k
    <2> QED
      BY <1>2, <1>3 DEF Present
  <1>5. CASE key[1] \in {"int", "flt"} /\ key[2] \in Positions
    <2>1. u = RawSetInt(t, key[2], v)
      BY <1>5 DEF RawSet
    <2>2. k = <<"pos", key[2]>> /\ Content(t)[k] = getIntKey(t, key[2])
      BY <1>5, MapKeyOf, ContentReads
    <2> HIDE DEF k
    <2> QED
      BY <1>4, <1>5, <2>1, <2>2, SetIntListed
  <1>6. CASE ~ (key[1] \in {"int", "flt"} /\ key[2] \in Positions)
    <2>1. u = RawSetH(t, key, v)
      BY <1>6 DEF RawSet
    <2>2. k \in OtherKeys /\ k = numericTableKey(key)
      BY <1>6, MapKeyOf
    <2> HIDE DEF k
    <2>3. numericTableKey(k) = k
      BY <2>2, KeysCanonical, OtherForms DEF HashKeys, DictKeys
    <2>4. u = RawSetH(t, k, v)
      BY <2>1, <2>2, <2>3 DEF RawSetH
    <2>5. \A n \in 1 .. Len(t.arr) : k # <<"flt", n>>
      <3>1. \A n \in 1 .. Len(t.arr) : n \in Positions
        BY SizeAssumption DEF Shape, Positions
      <3> QED
        BY <2>2, <3>1, KeysApart, OtherForms
    <2>6. Content(t)[k] = RawGetH(t, k)
      BY <2>2, ContentReads
    <2>7. CASE k \in StrKeys
      <3>1. k[1] = "str"
        BY <2>7 DEF StrKeys
      <3>2. u = RawSetString(t, k, v)
        BY <2>3, <2>4, <3>1 DEF RawSetH
      <3> HIDE DEF u
      <3>3. HashWrote(t, u, k, v) /\ u.arr = t.arr
        BY <1>1, <2>7, <3>2, SetStringListed
      <3>4. RawGetH(t, k) # Nil => k \in Hash(t)
        BY <2>7, ReadStr DEF Hash
      <3>5. Settled(t, u) /\ (v = Nil \/ k \in Hash(t) => Calm(t, u))
        BY <2>5, <3>3, HashWroteSettles
      <3>6. Settled(t, u) /\ (Present(u) \subseteq Present(t) => Calm(t, u))
        BY <1>4, <2>6, <3>4, <3>5
      <3> QED
        BY <3>6 DEF u
    <2>8. CASE k \in RestKeys
      <3>1. k \in DictKeys
        BY <2>8 DEF DictKeys
      <3> HIDE DEF u
      <3>2. u.arr = t.arr
        <4>1. DictSet(t, u, k, v)
          BY <2>4, <3>1, SetHSets DEF Shape
        <4> QED
          BY <4>1 DEF DictSet
      <3>3. HashWrote(t, u, k, v)
        BY <2>4, <3>1, SetHListed
      <3>4. RawGetH(t, k) # Nil => k \in Hash(t)
        BY <3>1, ReadDict DEF Hash
      <3>5. Settled(t, u) /\ (v = Nil \/ k \in Hash(t) => Calm(t, u))
        BY <2>5, <3>2, <3>3, HashWroteSettles
      <3>6. Settled(t, u) /\ (Present(u) \subseteq Present(t) => Calm(t, u))
        BY <1>4, <2>6, <3>4, <3>5
      <3> QED
        BY <3>6 DEF u
    <2> QED
      BY <2>2, <2>7, <2>8, OtherForms
  <1> QED
    BY <1>5, <1>6

\* The position after the last of the array that holds a value is absent.
LEMMA NextIsAbsent ==
    ASSUME NEW t, Shape(t), Apart(t), lenOf(t) + 1 \in Positions
    PROVE  getIntKey(t, lenOf(t) + 1) = Nil
  <1>1. lenOf(t) \in Map!Borders(Content(t))
    BY LenBorder
  <1>2. Map!At(Content(t), lenOf(t) + 1) = Nil
    BY <1>1 DEF Map!Borders
  <1>3. Content(t)[<<"pos", lenOf(t) + 1>>] = Nil
    BY <1>2 DEF Map!At, Map!Pos
  <1> QED
    BY <1>3, ContentReads

\* Append adds a field and keeps the order good.
LEMMA AppendListed ==
    ASSUME BelowLimit, NEW t, Shape(t), Apart(t), Indexed(t), Cleared(t),
           Len(t.arr) < MaxLen, NEW v \in Values
    PROVE  LET u == append(t, v)
           IN  Settled(t, u) /\ ~ (Present(u) \subseteq Present(t))
  <1> USE SizeAssumption
  <1> DEFINE a == Len(t.arr)
             b == lenOf(t)
             u == append(t, v)
  <1>1. a \in Nat /\ a < MaxLen /\ t.arr \in Seq(Values \cup {Nil}) /\ DOMAIN t = Fields
    BY DEF Shape
  <1>2. /\ b \in 0 .. a
        /\ \A i \in b + 1 .. a : t.arr[i] = Nil
    BY LenOf
  <1>3. b + 1 \in Positions /\ PositionSet(t, u, b + 1, v)
    BY AppendReads
  <1>4. v # Nil
    BY ValueAssumption
  <1>5. ~ (Present(u) \subseteq Present(t))
    <2>1. getIntKey(u, b + 1) = v /\ getIntKey(t, b + 1) = Nil
      BY <1>3, NextIsAbsent DEF PositionSet
    <2> HIDE DEF u, b
    <2> QED
      BY <1>3, <1>4, <2>1, PresentIs
  <1>6. CASE t.arr = <<>> \/ t.arr[a] # Nil
    <2> DEFINE w == [t EXCEPT !.made = TRUE, !.arr = Append(@, v)]
               f == forgetDeletedArrayKey(w, {a + 1})
    <2>1. u = pullHashed(f)
      <3>1. u = IF DOMAIN f.dict = {} THEN f ELSE pullHashed(f)
        BY <1>6 DEF append
      <3> QED
        BY <3>1, PullForm
    <2>2. DOMAIN w = Fields /\ SameOrder(t, w) /\ w.arr = Append(t.arr, v)
      BY <1>1 DEF Fields, SameOrder
    <2> HIDE DEF w, u
    <2>3. w.arr \in Seq(Values \cup {Nil}) /\ Len(w.arr) = a + 1
      BY <1>1, <2>2
    <2> HIDE DEF a
    <2>4. PICK n \in Positions : n = a + 1
      BY <1>1 DEF Positions, BelowLimit
    <2>5. Shape(w)
      <3>1. a + 1 < MaxArrayIndex
        BY <1>1 DEF BelowLimit
      <3> QED
        BY <2>2, <2>3, <3>1 DEF Shape, SameOrder
    <2>6. Beyond(w)
      BY <1>1, <2>2, <2>3 DEF Beyond, Apart, SameOrder, a, Positions
    <2>7. Len(w.arr) = n /\ n = Len(t.arr) + 1
      BY <2>3, <2>4 DEF a
    <2>8. Settled(t, pullHashed(forgetDeletedArrayKey(w, {n})))
      BY <2>2, <2>5, <2>6, <2>7, ArrayListed
    <2>9. Settled(t, u)
      BY <2>1, <2>4, <2>8
    <2> QED
      BY <1>5, <2>9 DEF u
  <1>7. CASE ~ (t.arr = <<>> \/ t.arr[a] # Nil)
    <2> DEFINE w == [t EXCEPT !.arr[b + 1] = v]
    <2>1. u = forgetDeletedArrayKey(w, {b + 1})
      BY <1>7 DEF append
    <2>2. b + 1 <= Len(t.arr)
      <3>1. b # a
        <4>1. a # 0 /\ t.arr[a] = Nil
          BY <1>1, <1>7
        <4>2. b # 0 => t.arr[b] # Nil
          BY LenOf
        <4> QED
          BY <4>1, <4>2
      <3>2. b + 1 <= a
        <4> HIDE DEF a, b
        <4> QED
          BY <1>1, <1>2, <3>1
      <3> QED
        BY <3>2
    <2>3. PositionSet(t, w, b + 1, v)
      BY <1>3, <2>2, SetInArray
    <2>4. SameOrder(t, w) /\ Len(w.arr) = Len(t.arr)
      <3> HIDE DEF b
      <3> QED
        BY <1>1 DEF Fields, SameOrder
    <2> HIDE DEF w, u
    <2>5. Shape(w) /\ Beyond(w)
      <3>1. Shape(w) /\ Apart(w)
        BY <2>3 DEF PositionSet
      <3>2. Len(w.arr) \in Nat
        BY <3>1 DEF Shape
      <3> QED
        BY <3>1, <3>2 DEF Apart, Beyond, Positions
    <2>6. Len(w.arr) <= Len(t.arr)
      BY <1>1, <2>4
    <2>7. PICK n \in Positions : n = b + 1
      BY <1>3
    <2>8. Settled(t, forgetDeletedArrayKey(w, {n}))
      BY <2>4, <2>5, <2>6, ArrayListed
    <2>9. Settled(t, u)
      BY <2>1, <2>7, <2>8
    <2> QED
      BY <1>5, <2>9 DEF u
  <1> QED
    BY <1>6, <1>7

\* Insert keeps the order good; without a new field it moves no slot.
LEMMA InsertListed ==
    ASSUME BelowLimit, NEW t, Shape(t), Apart(t), Indexed(t), Cleared(t),
           Len(t.arr) < MaxLen, NEW i \in 0 .. MaxArrayIndex, NEW v \in Values \cup {Nil}
    PROVE  LET u == insert(t, i, v)
           IN  Settled(t, u) /\ (Present(u) \subseteq Present(t) => Calm(t, u))
  <1> USE SizeAssumption
  <1> DEFINE a == Len(t.arr)
             b == lenOf(t)
             u == insert(t, i, v)
  <1>1. CASE i \notin 1 .. lenOf(t)
    BY <1>1, InsertOutside, SetListed
  <1>2. CASE i \in 1 .. lenOf(t)
    <2> DEFINE w == Shifted(t, i, v)
               f == forgetDeletedArrayKey(w, {b + 1})
    <2>1. a \in Nat /\ b \in 1 .. a /\ a < MaxLen
      <3>1. a \in Nat /\ b \in 0 .. a
        BY LenOf DEF Shape
      <3> HIDE DEF a
      <3>2. i \in 1 .. b
        BY <1>2
      <3> HIDE DEF b
      <3>3. a < MaxLen
        BY DEF a
      <3> QED
        BY <3>1, <3>2, <3>3
    <2>2. /\ DOMAIN w = Fields /\ w.str = t.str /\ w.dict = t.dict
          /\ w.arr \in Seq(Values \cup {Nil})
          /\ Len(w.arr) = IF b = a THEN a + 1 ELSE a
      BY <1>2, ShiftedData
    <2>3. SameOrder(t, w)
      <3>1. \E q : w = [t EXCEPT !.arr = q]
        BY Zenon DEF Shifted
      <3>2. DOMAIN t = Fields
        BY DEF Shape
      <3> HIDE DEF w
      <3> QED
        BY <3>1, <3>2 DEF SameOrder, Fields
    <2>4. u = pullHashed(f)
      <3>1. i \in Int /\ ~ (i > lenOf(t)) /\ ~ (i <= 0)
        <4> HIDE DEF a
        <4>1. i \in 1 .. b /\ b \in Nat
          BY <1>2, <2>1
        <4> HIDE DEF b
        <4>2. i \in Int /\ ~ (i > b) /\ ~ (i <= 0)
          BY <4>1
        <4> QED
          BY <4>2 DEF b
      <3> QED
        BY <3>1, InsertForm
    <2>5. Inserted(t, u, i, b, v) /\ b + 1 \in Positions
      BY <1>2, InsertReads
    <2> HIDE DEF w, u
    <2>6. Shape(w)
      <3>1. Len(w.arr) < MaxArrayIndex
        <4> HIDE DEF a, b
        <4> QED
          BY <2>1, <2>2 DEF BelowLimit
      <3> QED
        BY <2>2, <3>1 DEF Shape
    <2>7. Beyond(w)
      <3> HIDE DEF b
      <3> SUFFICES ASSUME NEW n \in Positions, <<"flt", n>> \in DOMAIN w.dict
                   PROVE  n > Len(w.arr)
        BY DEF Beyond
      <3>1. n > a + 1 /\ n \in Nat
        BY <2>2 DEF Apart, Positions
      <3> HIDE DEF a
      <3> QED
        BY <2>1, <2>2, <3>1
    <2>8. PICK n \in Positions : n = b + 1
      BY <2>5
    <2>9. Len(w.arr) <= Len(t.arr) \/ (Len(w.arr) = n /\ n = Len(t.arr) + 1)
      <3>1. Len(w.arr) <= a \/ (Len(w.arr) = n /\ n = a + 1)
        <4> HIDE DEF a, b
        <4> QED
          BY <2>1, <2>2, <2>8
      <3> QED
        BY <3>1
    <2>10. Settled(t, pullHashed(forgetDeletedArrayKey(w, {n})))
      BY <2>3, <2>6, <2>7, <2>9, ArrayListed
    <2>11. Settled(t, u)
      BY <2>4, <2>8, <2>10
    <2>12. ~ (Present(u) \subseteq Present(t))
      <3>1. getIntKey(t, b + 1) = Nil
        BY <2>5, NextIsAbsent
      <3>2. getIntKey(t, b) # Nil
        <4>1. b # 0 => t.arr[b] # Nil
          BY LenOf
        <4>2. b # 0 /\ b <= Len(t.arr)
          <5>1. b # 0 /\ b <= a
            <6> HIDE DEF a, b
            <6> QED
              BY <2>1
          <5> QED
            BY <5>1
        <4> QED
          BY <4>1, <4>2 DEF getIntKey
      <3>3. i \in 1 .. b
        BY <1>2
      <3> HIDE DEF a, b
      <3>4. b + 1 # i /\ b + 1 \in i + 1 .. b + 1 /\ (b + 1) - 1 = b
        BY <2>1, <3>3
      <3>5. getIntKey(u, b + 1) = getIntKey(t, b)
        BY <2>5, <3>4 DEF Inserted
      <3> QED
        BY <2>5, <3>1, <3>2, <3>5, PresentIs
    <2> QED
      BY <2>11, <2>12 DEF u
  <1> QED
    BY <1>1, <1>2

\* Remove keeps the order good and moves no slot.
LEMMA RemoveListed ==
    ASSUME NEW t, Shape(t), Apart(t), Indexed(t), Cleared(t), NEW pos \in Nat
    PROVE  Settled(t, remove(t, pos)) /\ Calm(t, remove(t, pos))
  <1> USE SizeAssumption
  <1> DEFINE a == Len(t.arr)
             b == lenOf(t)
             at == IF pos <= 0 THEN b ELSE pos
             w == Closed(t, at)
             u == remove(t, pos)
  <1>1. a \in Nat /\ b \in 0 .. a /\ b \in Nat
    <2>1. a \in Nat /\ b \in 0 .. a
      BY LenOf DEF Shape
    <2> QED
      BY <2>1
  <1>2. CASE b = 0 \/ pos > b
    <2>1. u = t
      BY <1>2, RemoveForm
    <2>2. SameSlots(t, t) /\ Len(t.arr) <= Len(t.arr)
      BY <1>1 DEF SameSlots
    <2> QED
      BY <2>1, <2>2 DEF Settled, Fits, Calm
  <1>3. CASE ~ (b = 0 \/ pos > b)
    <2>1. at \in 1 .. lenOf(t)
      <3> HIDE DEF b, a
      <3>1. at \in 1 .. b
        BY <1>1, <1>3
      <3> QED
        BY <3>1 DEF b
    <2>2. u = forgetDeletedArrayKey(w, {b})
      BY <1>3, RemoveForm
    <2>3. Shape(w) /\ Apart(w) /\ Len(w.arr) = b - 1
      <3> HIDE DEF at
      <3> QED
        BY <2>1, ClosedReads
    <2>4. SameOrder(t, w)
      <3>1. \E q : w = [t EXCEPT !.arr = q]
        BY Zenon DEF Closed
      <3>2. DOMAIN t = Fields
        BY DEF Shape
      <3> HIDE DEF w
      <3> QED
        BY <3>1, <3>2 DEF SameOrder, Fields
    <2> HIDE DEF at, w, u
    <2>5. Beyond(w) /\ DOMAIN w = Fields
      <3>1. Len(w.arr) \in Nat
        BY <2>3 DEF Shape
      <3> QED
        BY <2>3, <3>1 DEF Apart, Beyond, Positions, Shape
    <2>6. PICK n \in Positions : n = b
      <3>1. a < MaxArrayIndex
        BY DEF Shape
      <3> HIDE DEF a, b
      <3> QED
        BY <1>1, <1>3, <3>1 DEF Positions
    <2>7. Len(w.arr) <= Len(t.arr)
      <3>1. Len(w.arr) <= a
        <4> HIDE DEF a, b
        <4> QED
          BY <1>1, <2>3
      <3> QED
        BY <3>1
    <2>8. Settled(t, forgetDeletedArrayKey(w, {n}))
      BY <2>3, <2>4, <2>5, <2>7, ArrayListed
    <2>9. Indexed(w) /\ SameSlots(t, w)
      BY <2>4, SameOrderKept
    <2>10. <<"flt", n>> \notin DOMAIN w.k2i
      <3>1. n \in 1 .. Len(t.arr)
        <4>1. n \in 1 .. a
          <5> HIDE DEF a, b
          <5> QED
            BY <1>1, <1>3, <2>6
        <4> QED
          BY <4>1
      <3> QED
        BY <2>4, <3>1 DEF Cleared, SameOrder
    <2>11. SameSlots(w, forgetDeletedArrayKey(w, {n}))
      BY <2>5, <2>9, <2>10, ForgetCalm
    <2>12. SameData(w, u)
      BY <2>2, <2>5, ForgetKeepsData
    <2>13. u = forgetDeletedArrayKey(w, {n})
      BY <2>2, <2>6
    <2>14. SameSlots(t, u)
      BY <2>9, <2>11, <2>13, SameSlotsTwice
    <2>15. Len(u.arr) <= Len(t.arr)
      BY <2>7, <2>12 DEF SameData
    <2>16. Settled(t, u) /\ Calm(t, u)
      BY <2>8, <2>13, <2>14, <2>15 DEF Calm
    <2> QED
      BY <2>16 DEF u
  <1> QED
    BY <1>2, <1>3

-----------------------------------------------------------------------------
(* What next() has still to answer.                                        *)

fromOf(t, key) == IF slotOf(t, key) # 0 THEN Len(t.arr) ELSE IF key = Nil THEN 0 ELSE key[2]
\* What next has not answered yet after key: positions of the array,
LaterPositions(t, key) == {n \in fromOf(t, key) + 1 .. Len(t.arr) : t.arr[n] # Nil}
\* hashed keys,
LaterKeys(t, key) == {k \in Hash(t) : t.k2i[k] > slotOf(t, key)}
\* and both, as keys of the map.
Ahead(t, key) ==
    {<<"pos", n>> : n \in LaterPositions(t, key)} \cup {MapKey(k) : k \in LaterKeys(t, key)}

\* A key that next() can go on from.
Known(t, key) == key \in HashKeys /\ (slotOf(t, key) = 0 => key \in ArrayKeys)

\* Hashed keys stand for different keys of the map.
LEMMA MapKeyHash ==
    /\ \A n \in Positions : <<"flt", n>> \in HashKeys /\ MapKey(<<"flt", n>>) = <<"pos", n>>
    /\ \A k \in HashKeys : \/ k \in OtherKeys /\ MapKey(k) = k
                           \/ \E n \in Positions : k = <<"flt", n>> /\ MapKey(k) = <<"pos", n>>
    /\ \A k \in HashKeys, n \in Positions : MapKey(k) = <<"pos", n>> => k = <<"flt", n>>
    /\ \A k, x \in HashKeys : MapKey(k) = MapKey(x) => k = x
  <1>1. ASSUME NEW n \in Positions
        PROVE  <<"flt", n>> \in HashKeys /\ MapKey(<<"flt", n>>) = <<"pos", n>>
    <2>1. <<"flt", n>> \in HashKeys
      BY DEF HashKeys, DictKeys, ArrayKeys
    <2>2. numericTableKey(<<"flt", n>>) = <<"flt", n>>
      BY <2>1, KeysCanonical
    <2> QED
      BY <2>1, <2>2 DEF MapKey, Map!Pos
  <1>2. ASSUME NEW k \in OtherKeys PROVE MapKey(k) = k
    <2>1. numericTableKey(k) = k
      BY KeysCanonical, OtherForms DEF HashKeys, DictKeys
    <2>2. k[1] # "flt"
      BY DEF OtherKeys
    <2> QED
      BY <2>1, <2>2 DEF MapKey
  <1>3. ASSUME NEW k \in HashKeys
        PROVE  \/ k \in OtherKeys /\ MapKey(k) = k
               \/ \E n \in Positions : k = <<"flt", n>> /\ MapKey(k) = <<"pos", n>>
    <2>1. k \in OtherKeys \/ k \in ArrayKeys
      BY OtherForms DEF HashKeys, DictKeys
    <2> QED
      BY <1>1, <1>2, <2>1 DEF ArrayKeys
  <1>4. ASSUME NEW k \in HashKeys, NEW n \in Positions, MapKey(k) = <<"pos", n>>
        PROVE  k = <<"flt", n>>
    BY <1>3, <1>4, MapKeyForms
  <1>5. ASSUME NEW k \in HashKeys, NEW x \in HashKeys, MapKey(k) = MapKey(x)
        PROVE  k = x
    <2>1. CASE k \in OtherKeys /\ MapKey(k) = k
      <3>1. CASE x \in OtherKeys /\ MapKey(x) = x
        BY <1>5, <2>1, <3>1
      <3>2. CASE \E n \in Positions : x = <<"flt", n>> /\ MapKey(x) = <<"pos", n>>
        BY <1>5, <2>1, <3>2, MapKeyForms
      <3> QED
        BY <1>3, <3>1, <3>2
    <2>2. CASE \E n \in Positions : k = <<"flt", n>> /\ MapKey(k) = <<"pos", n>>
      BY <1>4, <1>5, <2>2
    <2> QED
      BY <1>3, <2>1, <2>2
  <1> QED
    BY <1>1, <1>3, <1>4, <1>5

\* Where what is present is stored.
LEMMA PresentStored ==
    ASSUME NEW t, Shape(t), Beyond(t)
    PROVE  /\ \A n \in 1 .. Len(t.arr) : <<"pos", n>> \in Present(t) <=> t.arr[n] # Nil
           /\ \A k \in Hash(t) : MapKey(k) \in Present(t)
           /\ \A k \in HashKeys : /\ MapKey(k) \in Present(t)
                                  /\ \A n \in 1 .. Len(t.arr) : k # <<"flt", n>>
                                  => k \in Hash(t)
  <1>1. Len(t.arr) \in Nat /\ \A n \in 1 .. Len(t.arr) : n \in Positions
    BY SizeAssumption DEF Shape, Positions
  <1>2. \A n \in 1 .. Len(t.arr) : getIntKey(t, n) = t.arr[n]
    BY <1>1 DEF getIntKey
  <1>3. ASSUME NEW n \in Positions, n > Len(t.arr)
        PROVE  /\ <<"pos", n>> \in Present(t) <=> <<"flt", n>> \in DOMAIN t.dict
               /\ <<"flt", n>> \notin DOMAIN t.str
    <2>1. ~ (n <= Len(t.arr))
      BY <1>1, <1>3 DEF Positions
    <2>2. getIntKey(t, n) = IF <<"flt", n>> \in DOMAIN t.dict THEN t.dict[<<"flt", n>>] ELSE Nil
      BY <2>1, ReadPosition
    <2>3. <<"flt", n>> \in DOMAIN t.dict => t.dict[<<"flt", n>>] # Nil
      BY ValueAssumption DEF Shape
    <2>4. <<"flt", n>> \notin DOMAIN t.str
      BY KeysApart DEF Shape
    <2> QED
      BY <2>2, <2>3, <2>4, PresentIs
  <1>4. ASSUME NEW k \in OtherKeys PROVE k \in Present(t) <=> k \in Hash(t)
    <2>1. CASE k \in StrKeys
      <3>1. k \notin DOMAIN t.dict
        BY <2>1, KeysApart DEF Shape
      <3>2. k \in DOMAIN t.str => t.str[k] # Nil
        BY ValueAssumption DEF Shape
      <3> QED
        BY <2>1, <3>1, <3>2, ReadStr, PresentIs DEF Hash
    <2>2. CASE k \in RestKeys
      <3>1. k \in DictKeys
        BY <2>2 DEF DictKeys
      <3>2. k \notin DOMAIN t.str
        BY <3>1, KeysApart DEF Shape
      <3>3. k \in DOMAIN t.dict => t.dict[k] # Nil
        BY ValueAssumption DEF Shape
      <3> QED
        BY <3>1, <3>2, <3>3, ReadDict, PresentIs DEF Hash
    <2> QED
      BY <2>1, <2>2, OtherForms
  <1>5. ASSUME NEW k \in Hash(t) PROVE MapKey(k) \in Present(t)
    <2>1. k \in HashKeys
      BY DEF Shape, Hash, HashKeys
    <2>2. CASE k \in OtherKeys /\ MapKey(k) = k
      BY <1>4, <2>2
    <2>3. CASE \E n \in Positions : k = <<"flt", n>> /\ MapKey(k) = <<"pos", n>>
      <3>1. PICK n \in Positions : k = <<"flt", n>> /\ MapKey(k) = <<"pos", n>>
        BY <2>3
      <3>2. k \in DOMAIN t.dict
        BY <3>1, KeysApart DEF Hash, Shape
      <3>3. n > Len(t.arr)
        BY <3>1, <3>2 DEF Beyond
      <3> QED
        BY <1>3, <3>1, <3>2, <3>3
    <2> QED
      BY <2>1, <2>2, <2>3, MapKeyHash
  <1>6. ASSUME NEW k \in HashKeys, MapKey(k) \in Present(t),
               \A n \in 1 .. Len(t.arr) : k # <<"flt", n>>
        PROVE  k \in Hash(t)
    <2>1. CASE k \in OtherKeys /\ MapKey(k) = k
      BY <1>4, <1>6, <2>1
    <2>2. CASE \E n \in Positions : k = <<"flt", n>> /\ MapKey(k) = <<"pos", n>>
      <3>1. PICK n \in Positions : k = <<"flt", n>> /\ MapKey(k) = <<"pos", n>>
        BY <2>2
      <3>2. n > Len(t.arr)
        BY <1>1, <1>6, <3>1 DEF Positions
      <3> QED
        BY <1>3, <1>6, <3>1, <3>2 DEF Hash
    <2> QED
      BY <2>1, <2>2, MapKeyHash
  <1> QED
    BY <1>1, <1>2, <1>5, <1>6, PresentIs

\* Where next goes on.
LEMMA FromIs ==
    ASSUME NEW t, Shape(t), Listed(t), NEW key, key = Nil \/ Known(t, key)
    PROVE  /\ fromOf(t, key) \in Nat /\ slotOf(t, key) \in Nat
           /\ key = Nil => slotOf(t, key) = 0 /\ fromOf(t, key) = 0
  <1>1. Len(t.arr) \in Nat
    BY DEF Shape
  <1>2. \A x \in DOMAIN t.k2i : x \in HashKeys \cup Cursors /\ t.k2i[x] \in Nat
    <2>1. CASE t.ordered
      <3>1. \A x \in DOMAIN t.k2i : x \in HashKeys \cup Cursors /\ t.k2i[x] \in 1 .. Len(t.keys)
        BY <2>1 DEF Listed, Lists
      <3>2. Len(t.keys) \in Nat
        BY KeysSequence
      <3> QED
        BY <3>1, <3>2
    <2>2. CASE ~ t.ordered
      BY <2>2 DEF Listed
    <2> QED
      BY <2>1, <2>2
  <1>3. slotOf(t, key) \in Nat
    BY <1>2 DEF slotOf
  <1>4. key = Nil => slotOf(t, key) = 0
    BY <1>2, CursorKeys DEF slotOf
  <1>5. key \in ArrayKeys => key[2] \in Nat
    BY DEF ArrayKeys, Positions
  <1>6. fromOf(t, key) \in Nat
    BY <1>1, <1>4, <1>5 DEF fromOf, Known
  <1> QED
    BY <1>3, <1>4, <1>6 DEF fromOf

\* A calm operation takes from what is ahead exactly what it clears.
LEMMA CalmAhead ==
    ASSUME NEW t, Shape(t), Apart(t), Listed(t), t.ordered,
           NEW u, Shape(u), Apart(u), Listed(u), Calm(t, u), Present(u) \subseteq Present(t),
           NEW at, Known(t, at)
    PROVE  Known(u, at) /\ Ahead(u, at) = Ahead(t, at) \cap Present(u)
  <1>1. Len(t.arr) \in Nat /\ Len(u.arr) \in Nat /\ Len(u.arr) <= Len(t.arr)
    BY DEF Shape, Calm
  <1>2. Beyond(t) /\ Beyond(u)
    BY <1>1 DEF Apart, Beyond, Positions
  <1>3. /\ slotOf(u, at) = slotOf(t, at) /\ Known(u, at)
        /\ \A x \in Hash(u) : x \in Hash(t) /\ u.k2i[x] = t.k2i[x]
    BY DEF Calm, SameSlots, Known
  <1>4. \A n \in 1 .. Len(t.arr) : n \in Positions
    BY SizeAssumption, <1>1 DEF Shape, Positions
  <1>5. at # Nil
    BY CursorKeys DEF Known
  <1>6. fromOf(t, at) \in Nat /\ fromOf(u, at) \in Nat /\ slotOf(t, at) \in Nat
    BY <1>3, FromIs
  <1>7. \A n \in 1 .. Len(t.arr) : <<"flt", n>> \notin Hash(t)
    <2>1. ASSUME NEW n \in 1 .. Len(t.arr) PROVE <<"flt", n>> \notin Hash(t)
      <3>1. n \in Positions /\ ~ (n > Len(t.arr))
        BY <1>1, <1>4
      <3>2. <<"flt", n>> \notin DOMAIN t.dict /\ <<"flt", n>> \notin DOMAIN t.str
        BY <1>2, <3>1, KeysApart DEF Beyond, Shape
      <3> QED
        BY <3>2 DEF Hash
    <2> QED
      BY <2>1
  <1>8. ASSUME NEW n
        PROVE  n \in LaterPositions(u, at) <=>
                   n \in LaterPositions(t, at) /\ <<"pos", n>> \in Present(u)
    <2>1. CASE slotOf(t, at) # 0
      <3>1. n \notin LaterPositions(u, at) /\ n \notin LaterPositions(t, at)
        BY <1>1, <1>3, <2>1 DEF LaterPositions, fromOf
      <3> QED
        BY <3>1
    <2>2. CASE slotOf(t, at) = 0
      <3>1. fromOf(u, at) = fromOf(t, at)
        BY <1>3, <1>5, <2>2 DEF fromOf
      <3>2. ASSUME n \in LaterPositions(u, at)
            PROVE  n \in LaterPositions(t, at) /\ <<"pos", n>> \in Present(u)
        <4>1. n \in 1 .. Len(u.arr) /\ n \in 1 .. Len(t.arr) /\ u.arr[n] # Nil
              /\ n \in fromOf(t, at) + 1 .. Len(t.arr)
          BY <1>1, <1>6, <3>1, <3>2 DEF LaterPositions
        <4>2. <<"pos", n>> \in Present(u)
          BY <1>2, <4>1, PresentStored
        <4>3. t.arr[n] # Nil
          BY <1>2, <4>1, <4>2, PresentStored
        <4> QED
          BY <4>1, <4>2, <4>3 DEF LaterPositions
      <3>3. ASSUME n \in LaterPositions(t, at), <<"pos", n>> \in Present(u)
            PROVE  n \in LaterPositions(u, at)
        <4>1. n \in 1 .. Len(t.arr) /\ n \in fromOf(t, at) + 1 .. Len(t.arr)
          BY <1>1, <1>6, <3>3 DEF LaterPositions
        <4>2. n \in Positions /\ <<"flt", n>> \notin Hash(u)
          BY <1>3, <1>4, <1>7, <4>1
        <4>3. <<"flt", n>> \in HashKeys /\ MapKey(<<"flt", n>>) = <<"pos", n>>
          BY <4>2, MapKeyHash
        <4>4. ~ \A m \in 1 .. Len(u.arr) : <<"flt", n>> # <<"flt", m>>
          BY <1>2, <3>3, <4>2, <4>3, PresentStored
        <4>5. n \in 1 .. Len(u.arr)
          BY <4>4
        <4>6. u.arr[n] # Nil
          BY <1>2, <3>3, <4>5, PresentStored
        <4>7. n \in fromOf(u, at) + 1 .. Len(u.arr)
          BY <1>1, <1>6, <3>1, <4>1, <4>5
        <4> QED
          BY <4>6, <4>7 DEF LaterPositions
      <3> QED
        BY <3>2, <3>3
    <2> QED
      BY <2>1, <2>2
  <1>9. ASSUME NEW k
        PROVE  k \in LaterKeys(u, at) <=> k \in LaterKeys(t, at) /\ MapKey(k) \in Present(u)
    <2>1. ASSUME k \in LaterKeys(u, at)
          PROVE  k \in LaterKeys(t, at) /\ MapKey(k) \in Present(u)
      BY <1>2, <1>3, <2>1, PresentStored DEF LaterKeys
    <2>2. ASSUME k \in LaterKeys(t, at), MapKey(k) \in Present(u)
          PROVE  k \in LaterKeys(u, at)
      <3>1. k \in Hash(t) /\ k \in HashKeys /\ t.k2i[k] > slotOf(t, at)
        BY <2>2 DEF LaterKeys, Shape, Hash, HashKeys
      <3>2. \A n \in 1 .. Len(u.arr) : k # <<"flt", n>>
        BY <1>1, <1>7, <3>1
      <3>3. k \in Hash(u)
        BY <1>2, <2>2, <3>1, <3>2, PresentStored
      <3> QED
        BY <1>3, <3>1, <3>3 DEF LaterKeys
    <2> QED
      BY <2>1, <2>2
  <1>10. Ahead(u, at) = Ahead(t, at) \cap Present(u)
    BY <1>8, <1>9 DEF Ahead
  <1> QED
    BY <1>3, <1>10

\* A loop that starts has every field ahead of it.
LEMMA AheadAll ==
    ASSUME NEW t, Shape(t), Apart(t), Listed(t), t.ordered
    PROVE  Ahead(t, Nil) = Present(t)
  <1>1. fromOf(t, Nil) = 0 /\ slotOf(t, Nil) = 0
    BY FromIs
  <1>2. Len(t.arr) \in Nat /\ \A n \in 1 .. Len(t.arr) : n \in Positions
    BY SizeAssumption DEF Shape, Positions
  <1>3. Beyond(t)
    BY <1>2 DEF Apart, Beyond, Positions
  <1>4. LaterPositions(t, Nil) = {n \in 1 .. Len(t.arr) : t.arr[n] # Nil}
    BY <1>1 DEF LaterPositions
  <1>5. LaterKeys(t, Nil) = Hash(t)
    <2>1. \A k \in Hash(t) : t.k2i[k] \in 1 .. Len(t.keys)
      BY DEF Listed, Lists
    <2> QED
      BY <1>1, <2>1 DEF LaterKeys
  <1>6. ASSUME NEW x \in Ahead(t, Nil) PROVE x \in Present(t)
    BY <1>3, <1>4, <1>5, PresentStored DEF Ahead
  <1>7. ASSUME NEW x \in Present(t) PROVE x \in Ahead(t, Nil)
    <2>1. CASE x \in OtherKeys
      <3>1. x \in HashKeys /\ MapKey(x) = x
        <4>1. x \in HashKeys
          BY <2>1, OtherForms DEF HashKeys, DictKeys
        <4>2. \A n \in Positions : x # <<"flt", n>>
          BY <2>1, KeysApart, OtherForms
        <4> QED
          BY <4>1, <4>2, MapKeyHash
      <3>2. \A n \in 1 .. Len(t.arr) : x # <<"flt", n>>
        BY <1>2, <2>1, KeysApart, OtherForms
      <3>3. x \in Hash(t)
        BY <1>3, <3>1, <3>2, PresentStored
      <3> QED
        BY <1>5, <3>1, <3>3 DEF Ahead
    <2>2. CASE \E n \in Positions : x = <<"pos", n>>
      <3>1. PICK n \in Positions : x = <<"pos", n>>
        BY <2>2
      <3>2. CASE n \in 1 .. Len(t.arr)
        BY <1>3, <1>4, <3>1, <3>2, PresentStored DEF Ahead
      <3>3. CASE n \notin 1 .. Len(t.arr)
        <4>1. <<"flt", n>> \in HashKeys /\ MapKey(<<"flt", n>>) = x
          BY <3>1, MapKeyHash
        <4>2. \A m \in 1 .. Len(t.arr) : <<"flt", n>> # <<"flt", m>>
          BY <3>3
        <4>3. <<"flt", n>> \in Hash(t)
          BY <1>3, <4>1, <4>2, PresentStored
        <4> QED
          BY <1>5, <4>1, <4>3 DEF Ahead
      <3> QED
        BY <3>2, <3>3
    <2> QED
      BY <2>1, <2>2, PresentIs
  <1> QED
    BY <1>6, <1>7

\* The first of some slots or positions.
First(S) == CHOOSE i \in S : \A j \in S : i <= j
\* The live slots after that of key.
LaterSlots(t, key) ==
    {i \in slotOf(t, key) + 1 .. Len(t.keys) : t.keys[i] # Dead /\ RawGetH(t, t.keys[i]) # Nil}

\* nextKey by these definitions.
LEMMA NextKeyForm ==
    ASSUME NEW t, NEW key
    PROVE  nextKey(t, key) =
               IF key # Nil /\ slotOf(t, key) = 0 /\ key \notin ArrayKeys THEN Nil
               ELSE IF LaterPositions(t, key) # {} THEN <<"flt", First(LaterPositions(t, key))>>
               ELSE IF LaterSlots(t, key) # {} THEN t.keys[First(LaterSlots(t, key))]
               ELSE Nil
  BY Zenon DEF nextKey, slotOf, fromOf, LaterPositions, LaterSlots, First

\* First is the smallest.
LEMMA FirstIs ==
    ASSUME NEW S \in SUBSET Nat, S # {}
    PROVE  First(S) \in S /\ \A j \in S : First(S) <= j
  <1>1. \E i \in S : \A j \in S : i <= j
    BY SmallestExists
  <1> QED
    BY <1>1 DEF First

\* The keys ahead are those of the slots ahead.
LEMMA LaterSlotsList ==
    ASSUME NEW t, Shape(t), Listed(t), t.ordered, NEW key, key = Nil \/ Known(t, key)
    PROVE  /\ \A i \in LaterSlots(t, key) : t.keys[i] \in LaterKeys(t, key)
           /\ \A i \in LaterSlots(t, key) : t.k2i[t.keys[i]] = i /\ i \in 1 .. Len(t.keys)
           /\ \A k \in LaterKeys(t, key) : t.k2i[k] \in LaterSlots(t, key) /\ t.keys[t.k2i[k]] = k
  <1>1. Len(t.keys) \in Nat
    BY KeysSequence
  <1>2. slotOf(t, key) \in Nat
    BY FromIs
  <1>3. ASSUME NEW i \in LaterSlots(t, key)
        PROVE  /\ t.keys[i] \in LaterKeys(t, key)
               /\ t.k2i[t.keys[i]] = i /\ i \in 1 .. Len(t.keys)
    <2>1. i \in 1 .. Len(t.keys) /\ i > slotOf(t, key) /\ t.keys[i] # Dead
      BY <1>1, <1>2 DEF LaterSlots
    <2>2. t.keys[i] \in Hash(t) /\ t.k2i[t.keys[i]] = i
      BY <2>1 DEF Listed, Lists
    <2> QED
      BY <2>1, <2>2 DEF LaterKeys
  <1>4. ASSUME NEW k \in LaterKeys(t, key)
        PROVE  t.k2i[k] \in LaterSlots(t, key) /\ t.keys[t.k2i[k]] = k
    <2>1. k \in Hash(t) /\ t.k2i[k] > slotOf(t, key)
      BY DEF LaterKeys
    <2>2. k \in HashKeys /\ t.k2i[k] \in 1 .. Len(t.keys) /\ t.keys[t.k2i[k]] = k /\ k # Dead
      BY <2>1, CursorKeys DEF Listed, Lists
    <2>3. RawGetH(t, k) # Nil
      <3>1. CASE k \in StrKeys
        BY <2>1, <3>1, ReadStr, KeysApart, ValueAssumption DEF Hash, Shape
      <3>2. CASE k \in DictKeys
        BY <2>1, <3>2, ReadDict, KeysApart, ValueAssumption DEF Hash, Shape
      <3> QED
        BY <2>2, <3>1, <3>2 DEF HashKeys
    <2>4. t.k2i[k] \in slotOf(t, key) + 1 .. Len(t.keys)
      BY <1>1, <1>2, <2>1, <2>2
    <2> QED
      BY <2>2, <2>3, <2>4 DEF LaterSlots
  <1> QED
    BY <1>3, <1>4

\* next() answers a key that is ahead, and then all the others are.
LEMMA NextKeyExact ==
    ASSUME NEW t, Shape(t), Apart(t), Listed(t), Cleared(t), t.ordered,
           NEW key, key = Nil \/ Known(t, key)
    PROVE  LET r == nextKey(t, key)
           IN  /\ r = Nil => Ahead(t, key) = {}
               /\ r # Nil => /\ Known(t, r) /\ MapKey(r) \in Ahead(t, key)
                             /\ Ahead(t, r) = Ahead(t, key) \ {MapKey(r)}
  <1> DEFINE r == nextKey(t, key)
             P == LaterPositions(t, key)
             S == LaterSlots(t, key)
  <1>1. r = IF P # {} THEN <<"flt", First(P)>> ELSE IF S # {} THEN t.keys[First(S)] ELSE Nil
    BY NextKeyForm DEF Known
  <1>2. fromOf(t, key) \in Nat /\ slotOf(t, key) \in Nat
    BY FromIs
  <1>3. Len(t.arr) \in Nat /\ \A n \in 1 .. Len(t.arr) : n \in Positions
    BY SizeAssumption DEF Shape, Positions
  <1>4. P \in SUBSET Nat /\ P \subseteq 1 .. Len(t.arr)
    BY <1>2, <1>3 DEF LaterPositions
  <1>5. S \in SUBSET Nat
    BY LaterSlotsList
  <1>6. Beyond(t)
    BY <1>3 DEF Apart, Beyond, Positions
  <1>7. \A k \in Hash(t) : k \in HashKeys /\ \A n \in 1 .. Len(t.arr) : k # <<"flt", n>>
    <2>1. ASSUME NEW k \in Hash(t), NEW n \in 1 .. Len(t.arr), k = <<"flt", n>> PROVE FALSE
      <3>1. n \in Positions /\ ~ (n > Len(t.arr))
        BY <1>3
      <3> QED
        BY <1>6, <2>1, <3>1, KeysApart DEF Beyond, Shape, Hash
    <2>2. \A k \in Hash(t) : k \in HashKeys
      BY DEF Shape, Hash, HashKeys
    <2> QED
      BY <2>1, <2>2
  <1> HIDE DEF r, P, S
  <1>8. CASE P # {}
    <2> DEFINE n == First(P)
    <2>1. n \in P /\ \A j \in P : n <= j
      BY <1>4, <1>8, FirstIs
    <2> HIDE DEF n
    <2>2. n \in 1 .. Len(t.arr) /\ n \in Positions /\ t.arr[n] # Nil /\ n > fromOf(t, key)
      BY <1>2, <1>3, <1>4, <2>1 DEF P, LaterPositions
    <2>3. r = <<"flt", n>> /\ MapKey(r) = <<"pos", n>> /\ r \in HashKeys /\ r \in ArrayKeys
      BY <1>1, <1>8, <2>2, MapKeyHash DEF n, ArrayKeys
    <2>4. r # Nil
      BY <2>3, CursorKeys
    <2>5. slotOf(t, key) = 0
      BY <1>3, <2>2 DEF fromOf
    <2>6. slotOf(t, r) = 0
      <3>1. iterationKey(r) = r
        BY <2>3 DEF iterationKey
      <3>2. r \notin DOMAIN t.k2i
        BY <2>2, <2>3 DEF Cleared
      <3> QED
        BY <3>1, <3>2 DEF slotOf
    <2>7. fromOf(t, r) = n
      BY <2>3, <2>4, <2>6 DEF fromOf
    <2>8. LaterPositions(t, r) = P \ {n}
      <3>1. ASSUME NEW j \in LaterPositions(t, r) PROVE j \in P \ {n}
        BY <1>2, <1>3, <2>2, <2>7, <3>1 DEF LaterPositions, P
      <3>2. ASSUME NEW j \in P \ {n} PROVE j \in LaterPositions(t, r)
        <4>1. j \in Nat /\ n \in Nat /\ n <= j /\ j # n /\ j <= Len(t.arr) /\ t.arr[j] # Nil
          BY <1>3, <1>4, <2>1, <2>2, <3>2 DEF P, LaterPositions
        <4> QED
          BY <1>3, <2>7, <4>1 DEF LaterPositions
      <3> QED
        BY <3>1, <3>2
    <2>9. LaterKeys(t, r) = LaterKeys(t, key)
      BY <2>5, <2>6 DEF LaterKeys
    <2>10. \A k \in LaterKeys(t, key) : MapKey(k) # <<"pos", n>>
      BY <1>7, <2>2, MapKeyHash DEF LaterKeys
    <2>11. MapKey(r) \in Ahead(t, key)
      BY <2>1, <2>3 DEF Ahead, P
    <2>12. Ahead(t, r) = Ahead(t, key) \ {MapKey(r)}
      BY <2>3, <2>8, <2>9, <2>10 DEF Ahead, P
    <2> QED
      BY <2>3, <2>4, <2>11, <2>12 DEF r, Known
  <1>9. CASE P = {} /\ S # {}
    <2> DEFINE i == First(S)
    <2>1. i \in S /\ \A j \in S : i <= j
      BY <1>5, <1>9, FirstIs
    <2>2. r = t.keys[i]
      BY <1>1, <1>9
    <2> HIDE DEF i
    <2>3. r \in LaterKeys(t, key) /\ t.k2i[r] = i /\ i \in 1 .. Len(t.keys)
      BY <2>1, <2>2, LaterSlotsList DEF S
    <2>4. i \in Nat /\ i # 0
      BY <1>5, <2>1, <2>3
    <2>5. r \in Hash(t) /\ r \in HashKeys /\ r \in DOMAIN t.k2i
      BY <2>3 DEF LaterKeys, Listed, Lists
    <2>6. r # Nil /\ slotOf(t, r) = i
      BY <2>3, <2>5, CursorKeys DEF slotOf
    <2>7. LaterPositions(t, r) = {}
      BY <1>3, <2>4, <2>6 DEF LaterPositions, fromOf
    <2>8. LaterKeys(t, r) = LaterKeys(t, key) \ {r}
      <3>1. ASSUME NEW k \in LaterKeys(t, r) PROVE k \in LaterKeys(t, key) \ {r}
        <4>1. k \in Hash(t) /\ t.k2i[k] > i
          BY <2>6, <3>1 DEF LaterKeys
        <4>2. i > slotOf(t, key)
          BY <2>3 DEF LaterKeys
        <4>3. t.k2i[k] \in 1 .. Len(t.keys)
          BY <4>1 DEF Listed, Lists
        <4> QED
          BY <1>2, <2>3, <2>4, <4>1, <4>2, <4>3 DEF LaterKeys
      <3>2. ASSUME NEW k \in LaterKeys(t, key) \ {r} PROVE k \in LaterKeys(t, r)
        <4>1. t.k2i[k] \in S /\ t.keys[t.k2i[k]] = k /\ k \in Hash(t)
          BY <3>2, LaterSlotsList DEF S, LaterKeys
        <4>2. i <= t.k2i[k] /\ t.k2i[k] # i /\ t.k2i[k] \in Nat
          BY <1>5, <2>1, <2>2, <3>2, <4>1
        <4> QED
          BY <2>4, <2>6, <4>1, <4>2 DEF LaterKeys
      <3> QED
        BY <3>1, <3>2
    <2>9. \A k \in LaterKeys(t, key) : k \in HashKeys
      BY <1>7 DEF LaterKeys
    <2>10. MapKey(r) \in Ahead(t, key)
      BY <2>3 DEF Ahead
    <2>11. \A k \in LaterKeys(t, key) : MapKey(k) = MapKey(r) => k = r
      BY <2>5, <2>9, MapKeyHash
    <2>12. Ahead(t, r) = Ahead(t, key) \ {MapKey(r)}
      BY <1>9, <2>7, <2>8, <2>11 DEF Ahead, P
    <2>13. Known(t, r)
      BY <2>4, <2>5, <2>6 DEF Known
    <2> QED
      BY <2>6, <2>10, <2>12, <2>13 DEF r
  <1>10. CASE P = {} /\ S = {}
    <2>1. r = Nil
      BY <1>1, <1>10
    <2>2. LaterKeys(t, key) = {}
      BY <1>10, LaterSlotsList DEF S
    <2>3. Ahead(t, key) = {}
      BY <1>10, <2>2 DEF Ahead, P
    <2> QED
      BY <2>1, <2>3 DEF r
  <1> QED
    BY <1>8, <1>9, <1>10

-----------------------------------------------------------------------------
(* Loops over next() are exact, and the order of traversal is bounded.     *)

\* The order made for the first next lists every field once.
LEMMA EnsureListed ==
    ASSUME NEW t, Shape(t), Apart(t), Indexed(t), Cleared(t),
           NEW u \in ensureIterationOrder(t)
    PROVE  /\ Shape(u) /\ Apart(u) /\ Indexed(u) /\ Cleared(u) /\ u.ordered
           /\ Present(u) = Present(t) /\ Hashed(u) = Hashed(t)
           /\ u = t \/ Len(u.keys) = Hashed(u)
           /\ t.ordered => u = t
  <1>1. SameData(t, u)
    BY OrderKeepsData
  <1>2. Shape(u) /\ Apart(u)
    BY <1>1, ShapeKept DEF Apart, SameData
  <1>3. Present(u) = Present(t)
    <2>1. PositionsSame(t, u) /\ OthersSame(t, u)
      BY <1>1, SameReads
    <2>2. \A x \in Present(u) : x \in Present(t)
      BY <2>1, PresentIs DEF PositionsSame, OthersSame
    <2>3. \A x \in Present(t) : x \in Present(u)
      BY <2>1, PresentIs DEF PositionsSame, OthersSame
    <2> QED
      BY <2>2, <2>3
  <1>4. Hashed(u) = Hashed(t) /\ Hash(u) = Hash(t) /\ Finite(u)
    BY <1>1 DEF SameData, Hashed, Hash, Finite, Indexed
  <1>5. CASE t.ordered
    BY <1>2, <1>3, <1>4, <1>5 DEF ensureIterationOrder
  <1>6. CASE ~ t.ordered
    <2>1. PICK q \in Enumerations(t) :
              u = [t EXCEPT !.ordered = TRUE, !.keys = q, !.k2i = AntiFunction(q)]
      BY <1>6 DEF ensureIterationOrder
    <2>2. u.ordered /\ u.keys = q /\ u.k2i = AntiFunction(q)
      BY <2>1 DEF Shape, Fields
    <2>3. q \in Bijection(1 .. Hashed(t), Hash(t))
      BY DEF Enumerations, Hash
    <2>4. Hashed(t) \in Nat /\ \A k \in Hash(t) : k \in HashKeys
      BY HashedIs DEF Indexed
    <2>5. Lists(q, AntiFunction(q), Hash(t)) /\ Len(q) = Hashed(t)
      BY <2>3, <2>4, ListsEnumeration
    <2>6. Indexed(u)
      BY <1>4, <2>2, <2>5 DEF Indexed, Listed
    <2>7. DOMAIN u.k2i = Hash(t)
      <3>1. Range(q) = Hash(t)
        BY <2>3 DEF Bijection, Injection, Surjection, Range
      <3> QED
        BY <2>2, <3>1 DEF AntiFunction, Inverse
    <2>8. Cleared(u)
      <3> SUFFICES ASSUME NEW n \in 1 .. Len(u.arr) PROVE <<"flt", n>> \notin Hash(t)
        BY <2>7 DEF Cleared
      <3>1. Len(t.arr) \in Nat /\ u.arr = t.arr
        BY <1>1 DEF Shape, SameData
      <3>2. n \in Positions /\ ~ (n > Len(t.arr) + 1)
        BY <3>1, SizeAssumption DEF Shape, Positions
      <3>3. <<"flt", n>> \notin DOMAIN t.dict /\ <<"flt", n>> \notin DOMAIN t.str
        BY <3>2, KeysApart DEF Apart, Shape
      <3> QED
        BY <3>3 DEF Hash
    <2>9. Len(u.keys) = Hashed(u)
      BY <1>4, <2>2, <2>5
    <2> QED
      BY <1>2, <1>3, <1>4, <1>6, <2>2, <2>6, <2>8, <2>9
  <1> QED
    BY <1>5, <1>6

\* The order of traversal of the table.
OrderInv ==
    /\ Indexed(tb) /\ Cleared(tb)
    /\ Hashed(tb) <= MaxHash
    /\ Len(tb.keys) <= 2 * MaxHash

\* A loop has still to answer what is ahead of the key it has reached.
LoopInv ==
    /\ DOMAIN traversal = {"on", "at", "pending", "verdict"}
    /\ traversal.verdict = "exact"
    /\ traversal.on => /\ tb.ordered /\ Known(tb, traversal.at)
                       /\ traversal.pending = Ahead(tb, traversal.at)

\* The invariant holds of the empty table.
LEMMA InitOrder == Init => OrderInv /\ LoopInv
  <1> SUFFICES ASSUME NEW acap \in BOOLEAN, tb = newLTable(acap), traversal = NoTraversal
               PROVE  OrderInv /\ LoopInv
    BY DEF Init
  <1> USE SizeAssumption
  <1>1. /\ tb.arr = <<>> /\ tb.str = <<>> /\ tb.dict = <<>>
        /\ tb.keys = <<>> /\ tb.k2i = <<>> /\ tb.ordered = FALSE
    BY DEF newLTable
  <1>2. DOMAIN tb.str = {} /\ DOMAIN tb.dict = {} /\ DOMAIN tb.k2i = {} /\ Len(tb.keys) = 0
    BY <1>1
  <1>3. Indexed(tb) /\ Cleared(tb)
    BY <1>1, <1>2, FS_EmptySet DEF Indexed, Listed, Finite, Cleared
  <1>4. Hashed(tb) = 0
    BY <1>2, FS_EmptySet DEF Hashed
  <1>5. LoopInv
    BY DEF LoopInv, NoTraversal
  <1> QED
    BY <1>2, <1>3, <1>4, <1>5 DEF OrderInv

\* A step of an operation.
LEMMA BecomesOrder ==
    ASSUME DataInv, OrderInv, LoopInv, NEW u, Becomes(u), Shape(u), Apart(u),
           Settled(tb, u), Present(u) \subseteq Present(tb) => Calm(tb, u)
    PROVE  OrderInv' /\ LoopInv'
  <1> USE SizeAssumption
  <1>1. tb' = u /\ Hashed(u) <= MaxHash
    BY DEF Becomes
  <1>2. OrderInv'
    <2>1. Len(u.keys) <= 2 * MaxHash
      BY <1>1 DEF OrderInv, Settled, Fits
    <2> QED
      BY <1>1, <2>1 DEF OrderInv, Settled
  <1>3. CASE traversal.on /\ Present(u) \subseteq Present(tb)
    <2>1. traversal' = [traversal EXCEPT !.pending = @ \cap Present(u)]
      BY <1>3 DEF Becomes
    <2>2. /\ DOMAIN traversal' = {"on", "at", "pending", "verdict"}
          /\ traversal'.verdict = "exact" /\ traversal'.on = traversal.on
          /\ traversal'.at = traversal.at
          /\ traversal'.pending = traversal.pending \cap Present(u)
      BY <2>1 DEF LoopInv
    <2>3. /\ tb.ordered /\ Known(tb, traversal.at)
          /\ traversal.pending = Ahead(tb, traversal.at)
      BY <1>3 DEF LoopInv
    <2>4. Known(u, traversal.at) /\ Ahead(u, traversal.at) = Ahead(tb, traversal.at) \cap Present(u)
      BY <1>3, <2>3, CalmAhead DEF DataInv, OrderInv, Indexed, Settled
    <2>5. u.ordered
      BY <2>3 DEF Settled
    <2>6. LoopInv'
      BY <1>1, <2>2, <2>3, <2>4, <2>5 DEF LoopInv
    <2> QED
      BY <1>2, <2>6
  <1>4. CASE ~ (traversal.on /\ Present(u) \subseteq Present(tb))
    <2>1. traversal' = NoTraversal
      BY <1>4 DEF Becomes
    <2>2. LoopInv'
      BY <2>1 DEF LoopInv, NoTraversal
    <2> QED
      BY <1>2, <2>2
  <1> QED
    BY <1>3, <1>4

\* A step of a loop.
LEMMA AdvanceOrder ==
    ASSUME DataInv, OrderInv, LoopInv, NEW from, NEW pending, Advance(from, pending),
           from = Nil \/ (tb.ordered /\ Known(tb, from)),
           pending = IF from = Nil THEN Present(tb) ELSE Ahead(tb, from)
    PROVE  OrderInv' /\ LoopInv'
  <1> USE SizeAssumption
  <1> DEFINE u == tb'
             key == nextKey(u, from)
  <1>1. u \in ensureIterationOrder(tb)
    BY DEF Advance
  <1>2. traversal' =
            IF key = Nil
            THEN [NoTraversal EXCEPT !.verdict = IF pending = {} THEN "exact" ELSE "missed"]
            ELSE [on |-> TRUE, at |-> key, pending |-> pending \ {MapKey(key)},
                  verdict |-> IF MapKey(key) \in pending THEN "exact" ELSE "repeated"]
    BY DEF Advance
  <1>3. /\ Shape(u) /\ Apart(u) /\ Indexed(u) /\ Cleared(u) /\ u.ordered
        /\ Present(u) = Present(tb) /\ Hashed(u) = Hashed(tb)
        /\ u = tb \/ Len(u.keys) = Hashed(u)
        /\ tb.ordered => u = tb
    BY <1>1, EnsureListed DEF DataInv, OrderInv
  <1>4. OrderInv'
    <2>1. Hashed(u) \in Nat
      BY <1>3, HashedIs DEF Indexed
    <2>2. Hashed(u) <= MaxHash
      BY <1>3 DEF OrderInv
    <2>3. Len(u.keys) <= 2 * MaxHash
      BY <1>3, <2>1, <2>2 DEF OrderInv
    <2> QED
      BY <1>3, <2>2, <2>3 DEF OrderInv
  <1>5. (from = Nil \/ Known(u, from)) /\ pending = Ahead(u, from)
    <2>1. CASE from = Nil
      BY <1>3, <2>1, AheadAll DEF Indexed
    <2>2. CASE from # Nil
      BY <1>3, <2>2
    <2> QED
      BY <2>1, <2>2
  <1>6. /\ key = Nil => Ahead(u, from) = {}
        /\ key # Nil => /\ Known(u, key) /\ MapKey(key) \in Ahead(u, from)
                        /\ Ahead(u, key) = Ahead(u, from) \ {MapKey(key)}
    BY <1>3, <1>5, NextKeyExact DEF Indexed
  <1> HIDE DEF key
  <1>7. CASE key = Nil
    <2>1. traversal' = [NoTraversal EXCEPT !.verdict = "exact"]
      BY <1>2, <1>5, <1>6, <1>7
    <2>2. LoopInv'
      BY <2>1 DEF LoopInv, NoTraversal
    <2> QED
      BY <1>4, <2>2
  <1>8. CASE key # Nil
    <2>1. traversal' = [on |-> TRUE, at |-> key, pending |-> Ahead(u, key), verdict |-> "exact"]
      BY <1>2, <1>5, <1>6, <1>8
    <2>2. LoopInv'
      BY <1>3, <1>6, <1>8, <2>1 DEF LoopInv
    <2> QED
      BY <1>4, <2>2
  <1> QED
    BY <1>7, <1>8

\* Every step keeps it.
LEMMA NextOrder ==
    ASSUME BelowLimit, DataInv, OrderInv, LoopInv, [Next]_vars
    PROVE  OrderInv' /\ LoopInv'
  <1> USE SizeAssumption
  <1>0. Shape(tb) /\ Apart(tb) /\ Indexed(tb) /\ Cleared(tb)
    BY DEF DataInv, OrderInv
  <1>1. ASSUME NEW key \in Keys, NEW v \in Values \cup {Nil}, Assign(key, v)
        PROVE  OrderInv' /\ LoopInv'
    BY <1>0, <1>1, SetReads, SetListed, BecomesOrder DEF Assign
  <1>2. ASSUME NEW v \in Values, AppendValue(v)
        PROVE  OrderInv' /\ LoopInv'
    <2> DEFINE u == append(tb, v)
    <2>1. Shape(u) /\ Apart(u)
      BY <1>0, <1>2, AppendReads DEF AppendValue, HasRoom, PositionSet
    <2>2. Settled(tb, u) /\ ~ (Present(u) \subseteq Present(tb))
      BY <1>0, <1>2, AppendListed DEF AppendValue, HasRoom
    <2>3. Becomes(u)
      BY <1>2 DEF AppendValue
    <2> HIDE DEF u
    <2> QED
      BY <2>1, <2>2, <2>3, BecomesOrder
  <1>3. ASSUME NEW i \in 0 .. MaxArrayIndex, NEW v \in Values \cup {Nil}, InsertAt(i, v)
        PROVE  OrderInv' /\ LoopInv'
    <2> DEFINE u == insert(tb, i, v)
    <2>1. Len(tb.arr) < MaxLen /\ Becomes(u)
      BY <1>3 DEF InsertAt, HasRoom
    <2>2. Shape(u) /\ Apart(u)
      <3>1. CASE i \in 1 .. lenOf(tb)
        BY <1>0, <2>1, <3>1, InsertReads
      <3>2. CASE i \notin 1 .. lenOf(tb)
        BY <1>0, <3>2, InsertOutside
      <3> QED
        BY <3>1, <3>2
    <2>3. Settled(tb, u) /\ (Present(u) \subseteq Present(tb) => Calm(tb, u))
      BY <1>0, <2>1, InsertListed
    <2> HIDE DEF u
    <2> QED
      BY <2>1, <2>2, <2>3, BecomesOrder
  <1>4. ASSUME NEW i \in 0 .. MaxArrayIndex, RemoveAt(i)
        PROVE  OrderInv' /\ LoopInv'
    <2> DEFINE u == remove(tb, i)
    <2>1. i \in Nat /\ Becomes(u)
      BY <1>4 DEF RemoveAt
    <2>2. Shape(u) /\ Apart(u)
      BY <1>0, <2>1, RemoveReads
    <2>3. Settled(tb, u) /\ Calm(tb, u)
      BY <1>0, <2>1, RemoveListed
    <2> HIDE DEF u
    <2> QED
      BY <2>1, <2>2, <2>3, BecomesOrder
  <1>5. CASE Peek
    <2> DEFINE u == tb'
    <2>1. u \in ensureIterationOrder(tb) /\ traversal' = traversal
      BY <1>5 DEF Peek
    <2>2. /\ Indexed(u) /\ Cleared(u) /\ Shape(u) /\ Hashed(u) = Hashed(tb)
          /\ u = tb \/ Len(u.keys) = Hashed(u)
          /\ tb.ordered => u = tb
      BY <1>0, <2>1, EnsureListed
    <2>3. Hashed(u) \in Nat
      BY <2>2, HashedIs DEF Indexed
    <2>4. Hashed(u) <= MaxHash
      BY <2>2 DEF OrderInv
    <2>5. Len(u.keys) <= 2 * MaxHash
      BY <2>2, <2>3, <2>4 DEF OrderInv
    <2>6. OrderInv'
      BY <2>2, <2>4, <2>5 DEF OrderInv
    <2>7. LoopInv'
      BY <2>1, <2>2 DEF LoopInv
    <2> QED
      BY <2>6, <2>7
  <1>6. CASE Begin
    BY <1>6, AdvanceOrder DEF Begin
  <1>7. CASE Step
    <2>1. tb.ordered /\ Known(tb, traversal.at) /\ traversal.pending = Ahead(tb, traversal.at)
      BY <1>7 DEF Step, LoopInv
    <2>2. traversal.at # Nil
      BY <2>1, CursorKeys DEF Known
    <2>3. Advance(traversal.at, traversal.pending)
      BY <1>7 DEF Step
    <2> QED
      BY <2>1, <2>2, <2>3, AdvanceOrder
  <1>8. CASE UNCHANGED vars
    BY <1>8 DEF vars, OrderInv, LoopInv
  <1> QED
    BY <1>1, <1>2, <1>3, <1>4, <1>5, <1>6, <1>7, <1>8 DEF Next

\* It holds in every reachable state.
LEMMA SpecOrder == ASSUME BelowLimit PROVE Spec => [](OrderInv /\ LoopInv)
  <1>1. Init => OrderInv /\ LoopInv
    BY InitOrder
  <1>2. DataInv /\ (OrderInv /\ LoopInv) /\ [Next]_vars => (OrderInv /\ LoopInv)'
    BY NextOrder
  <1>3. Spec => []DataInv
    BY SpecData
  <1> QED
    BY <1>1, <1>2, <1>3, PTL DEF Spec

\* A loop over next() answers every field that stays present exactly once,
\* whatever fields of the table it changes and clears, nested loops and list
\* operations included.
THEOREM LoopsExact == ASSUME BelowLimit PROVE Spec => []TraversalExact
  <1>1. OrderInv /\ LoopInv => TraversalExact
    BY DEF LoopInv, TraversalExact
  <1> QED
    BY <1>1, SpecOrder, PTL

\* The slots of deleted keys are reclaimed: the order of traversal never has
\* more than twice as many slots as fields were hashed at a time.
THEOREM SlotsBounded == ASSUME BelowLimit PROVE Spec => []OrderIsBounded
  <1>1. OrderInv /\ LoopInv => OrderIsBounded
    BY DEF OrderInv, OrderIsBounded
  <1> QED
    BY <1>1, SpecOrder, PTL

=============================================================================
