-------------------------------- MODULE Table --------------------------------
(***************************************************************************)
(* LTable of table.go: an array part, a hash part for strings and one for  *)
(* every other key, and the order of traversal kept for next().            *)
(*                                                                         *)
(* Keys are tagged by their Go type: <<"int", n>> an LInteger, <<"flt", n>> *)
(* an integral LNumber, <<"str", s>> an LString and <<"ref", r>> a value   *)
(* with an identity.  A native function is one of the latter: tableKey     *)
(* finds it by the address of its code, and its cursor is that address.    *)
(* A table is a record, an operation an operator from a table to a table;  *)
(* the loops of takeHashed and pullHashed over consecutive positions are   *)
(* written over the set of these positions.                                *)
(***************************************************************************)
EXTENDS Integers, Sequences, FiniteSets, Functions

CONSTANTS MaxArrayIndex,  \* config.go: array positions are below it
          MaxArrayGap,    \* maxArrayGap
          MaxLen,         \* bound: the array does not grow past this length
          MaxHash,        \* bound: nor the hash parts past this many fields
          Strings, Refs,
          Values,
          Nil,            \* LNil, and the nil key that starts a traversal
          Dead            \* the nil that a deleted key leaves in Keys

ASSUME SizeAssumption ==
    /\ MaxArrayIndex \in Nat \ {0, 1}
    /\ MaxArrayGap \in Nat
    /\ MaxLen \in Nat /\ MaxHash \in Nat

VARIABLES tb,         \* the LTable
          traversal   \* a caller's loop over next(), and what it has seen

vars == <<tb, traversal>>

-----------------------------------------------------------------------------
(* Keys.                                                                   *)

Positions == 1 .. MaxArrayIndex - 1
ArrayKeys == {<<"flt", n>> : n \in Positions}
OtherKeys == {<<"int", n>> : n \in {0, MaxArrayIndex}}
                 \cup {<<"str", s>> : s \in Strings} \cup {<<"ref", r>> : r \in Refs}
\* What a caller may pass: both representations of a number out of range.
\* (RawSet and RawGet treat both representations of a position alike.)
Keys == ArrayKeys \cup OtherKeys \cup {<<"flt", n>> : n \in {0, MaxArrayIndex}}

\* numericTableKey: a position is a float, any other integer an LInteger.
numericTableKey(k) ==
    IF k[1] = "int" /\ k[2] \in Positions THEN <<"flt", k[2]>>
    ELSE IF k[1] = "flt" /\ k[2] \notin Positions THEN <<"int", k[2]>>
    ELSE k

\* iterationKey: a deleted key with an identity is remembered by its address.
iterationKey(k) == IF k[1] = "ref" THEN <<"cursor", k[2]>> ELSE k
Cursors == ArrayKeys \cup OtherKeys \cup {<<"cursor", r>> : r \in Refs}

ASSUME ValueAssumption ==
    /\ Nil \notin Values \cup Keys \cup Cursors
    /\ Dead \notin Values \cup Keys \cup Cursors

-----------------------------------------------------------------------------
(* The table.                                                              *)

newLTable(acap) ==
    [arr |-> <<>>, made |-> acap,          \* Array; whether it is not nil
     str |-> <<>>,                         \* Strdict
     dict |-> <<>>, hasDict |-> FALSE,     \* Dict; whether it is not nil
     sparse |-> FALSE,                     \* sparseArrayHash
     keys |-> <<>>, k2i |-> <<>>,          \* Keys and K2i
     ordered |-> FALSE]                    \* whether Keys is not nil

\* The number of fields in the hash parts.
Hashed(t) == Cardinality(DOMAIN t.str) + Cardinality(DOMAIN t.dict)

\* Entries of a Go map written and deleted.
With(f, k, v) == [x \in DOMAIN f \cup {k} |-> IF x = k THEN v ELSE f[x]]
Without(f, S) == [k \in DOMAIN f \ S |-> f[k]]

\* RawGetH, RawGetString, getIntKey, RawGet.
RawGetH(t, key) ==
    LET k == numericTableKey(key) IN
    IF k \in DOMAIN t.str THEN t.str[k]
    ELSE IF k \in DOMAIN t.dict THEN t.dict[k] ELSE Nil
getIntKey(t, n) == IF n <= Len(t.arr) THEN t.arr[n] ELSE RawGetH(t, <<"flt", n>>)
RawGet(t, key) ==
    IF key[1] \in {"int", "flt"} /\ key[2] \in Positions THEN getIntKey(t, key[2])
    ELSE RawGetH(t, key)

\* Len: the last position of the array that holds a value.
lenOf(t) == CHOOSE n \in 0 .. Len(t.arr) :
                /\ n # 0 => t.arr[n] # Nil
                /\ \A i \in n + 1 .. Len(t.arr) : t.arr[i] = Nil

\* MaxN looks through the hash part too.
MaxN(t) ==
    LET present == {n \in Positions : \/ n <= Len(t.arr) /\ t.arr[n] # Nil
                                      \/ <<"flt", n>> \in DOMAIN t.dict}
    IN  CHOOSE n \in {0} \cup present : \A i \in present : i <= n

-----------------------------------------------------------------------------
(* The order of traversal.                                                 *)

\* Mutant: the last key takes the slot of a deleted one.
MutantDeleteIterationKey(t, k) ==
    LET n == Len(t.keys) IN
    IF k \in DOMAIN t.k2i
    THEN [t EXCEPT !.keys = SubSeq([@ EXCEPT ![t.k2i[k]] = t.keys[n]], 1, n - 1),
                   !.k2i = Without(With(@, t.keys[n], t.k2i[k]), {k})]
    ELSE t

deleteIterationKey(t, k) ==
    IF k \in DOMAIN t.k2i
    THEN [t EXCEPT !.keys[t.k2i[k]] = Dead,
                   !.k2i = With(Without(@, {k}), iterationKey(k), t.k2i[k])]
    ELSE t

\* The live keys move together, and the cursors of deleted ones go.
compacted(t) ==
    LET slots == {i \in DOMAIN t.keys : t.keys[i] # Dead}
        before(i) == {j \in slots : j <= i}
        live == [n \in 1 .. Cardinality(slots) |->
                    t.keys[CHOOSE i \in slots : Cardinality(before(i)) = n]]
    IN  [t EXCEPT !.keys = live,
                  !.k2i = [k \in Range(live) |-> CHOOSE i \in DOMAIN live : live[i] = k]]

\* Mutant: dead slots are never reclaimed.
MutantAddIterationKey(t, k) ==
    IF ~t.ordered \/ (k \in DOMAIN t.k2i /\ t.keys[t.k2i[k]] # Dead) THEN t
    ELSE [t EXCEPT !.k2i = With(@, k, Len(t.keys) + 1), !.keys = Append(@, k)]

addIterationKey(t, k) ==
    IF ~t.ordered \/ (k \in DOMAIN t.k2i /\ t.keys[t.k2i[k]] # Dead) THEN t
    ELSE LET u == IF Len(t.keys) > Hashed(t) /\ Len(t.keys) - Hashed(t) >= Hashed(t)
                  THEN compacted(t) ELSE t
         IN  [u EXCEPT !.k2i = With(@, k, Len(u.keys) + 1), !.keys = Append(@, k)]

\* forgetDeletedArrayKey, for every position of ns.
forgetDeletedArrayKey(t, ns) ==
    [t EXCEPT !.k2i = Without(@, {k \in DOMAIN @ : /\ k[1] \in {"int", "flt"}
                                                   /\ k[2] \in ns
                                                   /\ t.keys[@[k]] = Dead})]

-----------------------------------------------------------------------------
(* Writing.                                                                *)

releaseEmptySparseHash(t) ==
    IF t.sparse /\ DOMAIN t.dict = {} THEN [t EXCEPT !.hasDict = FALSE, !.sparse = FALSE]
    ELSE t

RawSetString(t, k, v) ==
    IF v = Nil THEN deleteIterationKey([t EXCEPT !.str = Without(@, {k})], k)
    ELSE [addIterationKey(t, k) EXCEPT !.str = With(@, k, v)]

RawSetH(t, key, v) ==
    LET k == numericTableKey(key) IN
    IF k[1] = "str" THEN RawSetString(t, k, v)
    ELSE IF v = Nil
    THEN releaseEmptySparseHash(deleteIterationKey([t EXCEPT !.dict = Without(@, {k})], k))
    ELSE [addIterationKey(t, k) EXCEPT !.sparse = FALSE, !.hasDict = TRUE,
                                       !.dict = With(@, k, v)]

\* takeHashed for every position of ns: the hashed ones leave the hash part
\* and the order of traversal, deleted ones lose their cursors.
takeHashed(t, ns) ==
    LET taken == {k \in DOMAIN t.dict : k[1] = "flt" /\ k[2] \in ns}
        u == forgetDeletedArrayKey(t, ns)
        w == [u EXCEPT !.dict = Without(@, taken), !.k2i = Without(@, taken),
                       !.keys = [i \in DOMAIN @ |-> IF @[i] \in taken THEN Dead ELSE @[i]]]
    IN  IF taken = {} THEN u ELSE releaseEmptySparseHash(w)

\* Mutant: what is hashed stays there.
MutantPullHashed(t) == t

\* pullHashed: the hashed positions that continue the array join it.  The
\* loop looks at one position more, unless the hash part is then empty.
pullHashed(t) ==
    LET next == Len(t.arr) + 1
        last == CHOOSE n \in Len(t.arr) .. MaxArrayIndex :
                    /\ \A i \in next .. n : <<"flt", i>> \in DOMAIN t.dict
                    /\ <<"flt", n + 1>> \notin DOMAIN t.dict
        pulled == {<<"flt", i>> : i \in next .. last}
        looked == IF DOMAIN t.dict \ pulled = {} THEN next .. last ELSE next .. last + 1
    IN  IF DOMAIN t.dict = {} THEN t
        ELSE [takeHashed(t, looked) EXCEPT
                 !.arr = @ \o [i \in 1 .. last - Len(t.arr) |-> t.dict[<<"flt", Len(t.arr) + i>>]]]

\* Mutant: the gap is filled with nil, over what is hashed there.
MutantSetSparseIntKey(t, n, v) ==
    LET alen == Len(t.arr)
        grown == [t EXCEPT !.made = TRUE,
                           !.arr = @ \o [i \in 1 .. n - alen |-> IF alen + i = n THEN v ELSE Nil]]
    IN  IF v = Nil \/ n - 1 - alen > MaxArrayGap \/ <<"flt", n>> \in DOMAIN t.dict
        THEN RawSetH(t, <<"flt", n>>, v)
        ELSE pullHashed(grown)

\* setSparseIntKey: a position past the array is hashed, unless the gap is
\* small: then the array grows over it, taking what is hashed on the way.
setSparseIntKey(t, n, v) ==
    LET alen == Len(t.arr)
        origin == ~t.hasDict \/ t.sparse
        hashed == RawSetH(t, <<"flt", n>>, v)
        grown == [takeHashed(t, alen + 1 .. n) EXCEPT
                     !.made = TRUE,
                     !.arr = @ \o [i \in 1 .. n - alen |->
                                      IF alen + i = n THEN v
                                      ELSE RawGetH(t, <<"flt", alen + i>>)]]
    IN  IF v = Nil \/ n - 1 - alen > MaxArrayGap \/ <<"flt", n>> \in DOMAIN t.dict
        THEN IF origin THEN releaseEmptySparseHash([hashed EXCEPT !.sparse = TRUE])
                       ELSE hashed
        ELSE pullHashed(grown)

RawSetInt(t, n, v) ==
    IF n \notin Positions THEN RawSetH(t, <<"int", n>>, v)
    ELSE IF n <= Len(t.arr)
    THEN forgetDeletedArrayKey([t EXCEPT !.arr[n] = v], {n})
    ELSE IF n = Len(t.arr) + 1 /\ t.made /\ v # Nil /\ DOMAIN t.dict = {}
    THEN forgetDeletedArrayKey([t EXCEPT !.arr = Append(@, v)], {n})
    ELSE setSparseIntKey(t, n, v)

RawSet(t, key, v) ==
    IF key[1] \in {"int", "flt"} /\ key[2] \in Positions THEN RawSetInt(t, key[2], v)
    ELSE RawSetH(t, key, v)

\* Append (v is not nil): after the last value of the array.
append(t, v) ==
    LET n == lenOf(t) + 1 IN
    IF t.arr = <<>> \/ t.arr[Len(t.arr)] # Nil
    THEN LET u == forgetDeletedArrayKey([t EXCEPT !.made = TRUE, !.arr = Append(@, v)],
                                        {Len(t.arr) + 1})
         IN  IF DOMAIN u.dict = {} THEN u ELSE pullHashed(u)
    ELSE forgetDeletedArrayKey([t EXCEPT !.arr[n] = v], {n})

insert(t, i, v) ==
    LET length == lenOf(t)
        room == IF length = Len(t.arr) THEN Append(t.arr, Nil) ELSE t.arr
    IN  IF i > length THEN RawSetInt(t, i, v)
        ELSE IF i <= 0 THEN RawSet(t, <<"flt", i>>, v)
        ELSE pullHashed(forgetDeletedArrayKey(
                 [t EXCEPT !.arr = [j \in DOMAIN room |->
                                       IF j = i THEN v
                                       ELSE IF j \in i + 1 .. length + 1 THEN room[j - 1]
                                       ELSE room[j]]],
                 {length + 1}))

remove(t, pos) ==
    LET length == lenOf(t)
        at == IF pos <= 0 THEN length ELSE pos
    IN  IF length = 0 \/ pos > length THEN t
        ELSE forgetDeletedArrayKey(
                 [t EXCEPT !.arr = [j \in 1 .. length - 1 |-> IF j < at THEN @[j] ELSE @[j + 1]]],
                 {length})

-----------------------------------------------------------------------------
(* next().                                                                 *)

\* ensureIterationOrder: the strings come first, each map in any order.
Enumerations(t) ==
    {q \in Bijection(1 .. Hashed(t), DOMAIN t.str \cup DOMAIN t.dict) :
        \A i \in DOMAIN q : i <= Cardinality(DOMAIN t.str) <=> q[i] \in DOMAIN t.str}
ensureIterationOrder(t) ==
    IF t.ordered THEN {t}
    ELSE {[t EXCEPT !.ordered = TRUE, !.keys = q, !.k2i = AntiFunction(q)] :
             q \in Enumerations(t)}

\* The key that Next answers for key, in an ordered table; Nil at the end.
nextKey(t, key) ==
    LET slot == IF key \in DOMAIN t.k2i THEN t.k2i[key]
                ELSE IF key # Nil /\ iterationKey(key) \in DOMAIN t.k2i
                THEN t.k2i[iterationKey(key)] ELSE 0
        from == IF slot # 0 THEN Len(t.arr)
                ELSE IF key = Nil THEN 0 ELSE key[2]
        unknown == key # Nil /\ slot = 0 /\ key \notin ArrayKeys
        inArray == {i \in from + 1 .. Len(t.arr) : t.arr[i] # Nil}
        inHash == {i \in slot + 1 .. Len(t.keys) :
                      t.keys[i] # Dead /\ RawGetH(t, t.keys[i]) # Nil}
        first(S) == CHOOSE i \in S : \A j \in S : i <= j
    IN  IF unknown THEN Nil
        ELSE IF inArray # {} THEN <<"flt", first(inArray)>>
        ELSE IF inHash # {} THEN t.keys[first(inHash)]
        ELSE Nil

-----------------------------------------------------------------------------
(* The map a table stands for, and the steps.                              *)

content == [k \in {<<"pos", n>> : n \in Positions} \cup OtherKeys |->
               IF k[1] = "pos" THEN getIntKey(tb, k[2]) ELSE RawGetH(tb, k)]
Map == INSTANCE TableMap

Content(t) == [k \in Map!MapKeys |-> IF k[1] = "pos" THEN getIntKey(t, k[2]) ELSE RawGetH(t, k)]
MapKey(key) == LET k == numericTableKey(key) IN IF k[1] = "flt" THEN Map!Pos(k[2]) ELSE k
Present(t) == {k \in Map!MapKeys : Content(t)[k] # Nil}

\* A loop over next(): at is the key it has reached, pending the keys that
\* were present when it began, still are, and have not been answered yet.
NoTraversal == [on |-> FALSE, at |-> Nil, pending |-> {}, verdict |-> "exact"]

Init ==
    /\ tb \in {newLTable(acap) : acap \in BOOLEAN}
    /\ traversal = NoTraversal

\* The table becomes t.  Lua lets the caller of next() change and clear the
\* fields of the table; the traversal has no meaning once a field is added.
Becomes(t) ==
    /\ Hashed(t) <= MaxHash
    /\ tb' = t
    /\ traversal' = IF traversal.on /\ Present(t) \subseteq Present(tb)
                    THEN [traversal EXCEPT !.pending = @ \cap Present(t)]
                    ELSE NoTraversal

\* Bound: the array keeps to MaxLen.
HasRoom == Len(tb.arr) < MaxLen

Assign(key, v) == Becomes(RawSet(tb, key, v))
AppendValue(v) == HasRoom /\ Becomes(append(tb, v))
InsertAt(i, v) == HasRoom /\ Becomes(insert(tb, i, v))
RemoveAt(i) == Becomes(remove(tb, i))

\* A call of next(t), to see whether t is empty, say.
Peek ==
    /\ tb' \in ensureIterationOrder(tb)
    /\ UNCHANGED traversal

\* The loop calls next: its first call begins the traversal.
Advance(from, pending) ==
    /\ tb' \in ensureIterationOrder(tb)
    /\ LET key == nextKey(tb', from) IN
       traversal' =
           IF key = Nil
           THEN [NoTraversal EXCEPT !.verdict = IF pending = {} THEN "exact" ELSE "missed"]
           ELSE [on |-> TRUE, at |-> key, pending |-> pending \ {MapKey(key)},
                 verdict |-> IF MapKey(key) \in pending THEN "exact" ELSE "repeated"]
Begin == ~traversal.on /\ Advance(Nil, Present(tb))
Step == traversal.on /\ Advance(traversal.at, traversal.pending)

Next ==
    \/ \E key \in Keys, v \in Values \cup {Nil} : Assign(key, v)
    \/ \E v \in Values : AppendValue(v)
    \/ \E i \in 0 .. MaxArrayIndex, v \in Values \cup {Nil} : InsertAt(i, v)
    \/ \E i \in 0 .. MaxArrayIndex : RemoveAt(i)
    \/ Peek
    \/ Begin
    \/ Step

Spec == Init /\ [][Next]_vars

-----------------------------------------------------------------------------
(* Properties.                                                             *)

\* Whatever call comes next, it does to the map of keys and values what it
\* promises, wherever the array and hash parts hold them: RawSet changes one
\* field, Append, Insert and Remove work from a border of the table.
CallsConform ==
    LET m == Content(tb) IN
    /\ \A key \in Keys, v \in Values \cup {Nil} :
           Content(RawSet(tb, key, v)) \in Map!AfterSet(m, MapKey(key), v)
    /\ HasRoom => \A v \in Values : Content(append(tb, v)) \in Map!AfterAppend(m, v)
    /\ HasRoom => \A i \in 1 .. lenOf(tb), v \in Values \cup {Nil} :
           Content(insert(tb, i, v)) \in Map!AfterInsert(m, i, v)
    /\ \A i \in 0 .. MaxArrayIndex : Content(remove(tb, i)) \in Map!AfterRemove(m, i)

\* # answers a border of the table, and MaxN its largest position, also when
\* positions are hashed.
LenIsBorder ==
    /\ lenOf(tb) \in Map!Borders(Content(tb))
    /\ \A n \in Positions : n > MaxN(tb) => getIntKey(tb, n) = Nil
    /\ MaxN(tb) # 0 => getIntKey(tb, MaxN(tb)) # Nil

\* A loop over next() that only changes and clears fields answers every field
\* that stays present exactly once, with a cursor that the loop, or a nested
\* loop, has cleared as well.
TraversalExact == traversal.verdict = "exact"

\* Keys holds at most twice as many slots as fields were ever hashed at a time,
\* however many were inserted and deleted.
OrderIsBounded == Len(tb.keys) <= 2 * MaxHash

=============================================================================
