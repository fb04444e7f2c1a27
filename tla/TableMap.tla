------------------------------ MODULE TableMap ------------------------------
(***************************************************************************)
(* What an LTable promises: a partial map from keys to values, without the *)
(* array and hash parts of table.go.  Integer keys 1, 2, ... also form a   *)
(* list that ends at a border: a present position, or 0, whose successor   *)
(* is absent.  The list operations work from one border of the table, and  *)
(* the promise leaves open which.                                          *)
(***************************************************************************)
EXTENDS Integers

CONSTANTS Positions,    \* the integer keys of the list, 1 .. some limit
          OtherKeys,    \* strings, objects, integers out of the list's range
          Values,
          Nil           \* absent

VARIABLE content

\* Keys are tagged, so that no position is one of the other keys.
Pos(n) == <<"pos", n>>
MapKeys == {Pos(n) : n \in Positions} \cup OtherKeys
Contents == [MapKeys -> Values \cup {Nil}]

\* What position n of map m holds; past the last position nothing is present.
At(m, n) == IF n \in Positions THEN m[Pos(n)] ELSE Nil
Borders(m) == {b \in Positions \cup {0} : (b # 0 => At(m, b) # Nil) /\ At(m, b + 1) = Nil}

\* m with position n holding f[n] for the positions of [from .. to -> ...] f.
WithPositions(m, from, to, f(_)) ==
    [k \in MapKeys |-> IF \E n \in from .. to : k = Pos(n) THEN f(k[2]) ELSE m[k]]

-----------------------------------------------------------------------------
(* The maps that each operation may leave of map m.                        *)

AfterSet(m, k, v) == {[m EXCEPT ![k] = v]}

AfterAppend(m, v) ==
    {[m EXCEPT ![Pos(b + 1)] = v] : b \in {c \in Borders(m) : c + 1 \in Positions}}

\* The values from position i to the border move up, v takes position i.
AfterInsert(m, i, v) ==
    {WithPositions(m, i, b + 1, LAMBDA n : IF n = i THEN v ELSE At(m, n - 1)) :
        b \in {c \in Borders(m) : i <= c /\ c + 1 \in Positions}}

\* The value at position i goes, those after it up to the border move down;
\* without a position it is the border's.  Past the border there is nothing
\* to remove.
AfterRemove(m, i) ==
    {IF b = 0 \/ i > b THEN m
     ELSE WithPositions(m, IF i <= 0 THEN b ELSE i, b,
                        LAMBDA n : IF n = b THEN Nil ELSE At(m, n + 1)) :
        b \in Borders(m)}

-----------------------------------------------------------------------------
Init == content = [k \in MapKeys |-> Nil]

Set(k, v) == content' \in AfterSet(content, k, v)
Append(v) == content' \in AfterAppend(content, v)
Insert(i, v) == content' \in AfterInsert(content, i, v)
Remove(i) == content' \in AfterRemove(content, i)

Next ==
    \/ \E k \in MapKeys, v \in Values \cup {Nil} : Set(k, v)
    \/ \E v \in Values : Append(v)
    \/ \E i \in Positions, v \in Values \cup {Nil} : Insert(i, v)
    \/ \E i \in Positions \cup {0} : Remove(i)

Spec == Init /\ [][Next]_content
=============================================================================
