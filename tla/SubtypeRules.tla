---------------------------- MODULE SubtypeRules ----------------------------
(***************************************************************************)
(* The subtype rules of types/subtype/subtype.go: which goals decide       *)
(* sub <: super, and in which order they are asked.                        *)
(*                                                                         *)
(* A type is a tuple that begins with its kind.  <<"alias", n>> and        *)
(* <<"rec", n>> name an entry of the graph g, a function from names to     *)
(* types; everything else is written out, so types that are equal are the  *)
(* same: derive compares them so, while the memos go by pointer and miss   *)
(* an equal type that fieldPresentType has just made.  A record carries    *)
(* its fields in order, whether it is Open and Complete, and its map       *)
(* component as <<>> or <<key, value>>.  Left out: metatables, interfaces with Self, *)
(* type parameters, generics, the builtin table marker, optional and       *)
(* variadic parameters.                                                    *)
(***************************************************************************)
EXTENDS Naturals, Sequences, SequencesExt

Nil == <<"nil">>
Never == <<"never">>
AnyType == <<"any">>
Unknown == <<"unknown">>
Integer == <<"integer">>
Number == <<"number">>
Str == <<"string">>

Kind(t) == t[1]
IsTop(t) == t \in {AnyType, Unknown}
Primitive == {"nil", "boolean", "number", "integer", "string", "any", "unknown", "never"}
needsCycleGuard(t) == Kind(t) \notin Primitive

-----------------------------------------------------------------------------
(* What a rule does: it asks goals, in order, and combines the answers.    *)

True == <<"true">>
False == <<"false">>
Ask(a, b, deeper) == <<"ask", <<a, b>>, deeper>>
All(s) == <<"all", s>>
Some(s) == <<"some", s>>
If(c) == IF c THEN True ELSE False
Cond(c, yes, no) == <<"cond", c, yes, no>>
Each(s, Op(_)) == All([i \in DOMAIN s |-> Op(s[i])])
SomeOf(s, Op(_)) == Some([i \in DOMAIN s |-> Op(s[i])])

\* The runs of a rule.  && and || stop at the first answer that decides.
RECURSIVE RunsOf(_)
RunsOf(rule) ==
    LET Then(x, y) == [steps |-> x.steps \o y.steps, deeper |-> x.deeper \o y.deeper,
                       holds |-> y.holds]
        Chain(s, go) ==    \* go on as long as the answer is go
            FoldLeft(LAMBDA acc, r :
                         {x \in acc : x.holds # go}
                             \cup {Then(x, y) : x \in {z \in acc : z.holds = go},
                                                y \in RunsOf(r)},
                     {[steps |-> <<>>, deeper |-> <<>>, holds |-> go]}, s)
    IN  CASE Kind(rule) = "true" -> {[steps |-> <<>>, deeper |-> <<>>, holds |-> TRUE]}
          [] Kind(rule) = "false" -> {[steps |-> <<>>, deeper |-> <<>>, holds |-> FALSE]}
          [] Kind(rule) = "ask" ->
                 {[steps |-> <<[pair |-> rule[2], holds |-> b]>>,
                   deeper |-> <<rule[3]>>, holds |-> b] : b \in BOOLEAN}
          [] Kind(rule) = "all" -> Chain(rule[2], TRUE)
          [] Kind(rule) = "some" -> Chain(rule[2], FALSE)
          [] Kind(rule) = "cond" ->
                 UNION {{Then(x, y) : y \in RunsOf(IF x.holds THEN rule[3] ELSE rule[4])} :
                        x \in RunsOf(rule[2])}

-----------------------------------------------------------------------------
(* Helpers on types.                                                       *)

RECURSIVE Unaliased(_, _)
Unaliased(g, t) == IF Kind(t) = "alias" THEN Unaliased(g, g[t[2]]) ELSE t

RECURSIVE hasTopMember(_)
hasTopMember(t) ==
    CASE Kind(t) = "opt" -> IsTop(t[2]) \/ hasTopMember(t[2])
      [] Kind(t) = "union" -> \E i \in DOMAIN t[2] : IsTop(t[2][i]) \/ hasTopMember(t[2][i])
      [] OTHER -> FALSE

\* fieldPresentType: what is left of t in a table when nil deletes the entry.
RECURSIVE fieldPresentType(_, _)
fieldPresentType(g, t) ==
    LET u == Unaliased(g, t)
        members == SelectSeq([i \in DOMAIN u[2] |-> fieldPresentType(g, u[2][i])],
                             LAMBDA m : m # Never)
    IN  CASE u = Nil -> Never
          [] Kind(u) = "opt" -> fieldPresentType(g, u[2])
          [] Kind(u) = "union" ->
                 IF Len(members) = 0 THEN Never
                 ELSE IF Len(members) = 1 THEN members[1]
                 ELSE IF members = u[2] THEN t ELSE <<"union", members>>
          [] OTHER -> t

FieldsOf(r, name) == {i \in DOMAIN r.fields : r.fields[i].name = name}
Field(r, name) == r.fields[CHOOSE i \in FieldsOf(r, name) : TRUE]

-----------------------------------------------------------------------------
(* Mutable slots and the widening of fresh values.                         *)

checkInvariantSlot(g, a, b, d) ==
    All(<<Ask(a, b, d), Some(<<Ask(b, a, d), If(IsTop(Unaliased(g, b)))>>)>>)

LiteralFits(lit, b) ==
    IF lit[2] = "integer" THEN Kind(b) \in {"integer", "number"} ELSE Kind(b) = lit[2]

\* The depth check of canWidenTo: a goal that holds unless it is too deep.
Within(d) == Ask(Never, Never, d)

functionParamsEquivalent(a, b, d) ==
    IF Len(a[2]) # Len(b[2]) THEN False
    ELSE All([i \in DOMAIN a[2] |-> All(<<Ask(a[2][i], b[2][i], d + 1),
                                          Ask(b[2][i], a[2][i], d + 1)>>)])

RECURSIVE canWidenTo(_, _, _, _)
canWidenTo(g, narrow, wide, d) ==
    LET a == Unaliased(g, narrow)
        b == Unaliased(g, wide)
        Fits(x, y) == Some(<<Ask(x, y, d + 1), canWidenTo(g, x, y, d + 1)>>)
        record ==
            LET nr == a[2] IN
            IF Kind(b) = "record"
            THEN Each(SelectSeq(b[2].fields, LAMBDA f :
                                  FieldsOf(nr, f.name) # {} /\
                                  fieldPresentType(g, Field(nr, f.name).type) # Never),
                      LAMBDA f :
                        LET nv == fieldPresentType(g, Field(nr, f.name).type) IN
                        Some(<<checkInvariantSlot(g, nv, fieldPresentType(g, f.type), d + 2),
                               canWidenTo(g, nv, f.type, d + 2)>>))
            ELSE Some(<<IF Kind(b) = "map" /\ ~nr.open THEN Ask(a, b, d + 1) ELSE False,
                        If(/\ Len(nr.fields) = 0 /\ nr.map = <<>>
                           /\ \/ Kind(b) = "array" /\ b[2] = Unknown
                              \/ Kind(b) = "map" /\ b[3] = Unknown)>>)
        shapes ==
            CASE Kind(a) = "integer" -> If(b = Number)
              [] Kind(a) = "lit" ->
                     If(LiteralFits(a, IF Kind(b) = "opt" THEN Unaliased(g, b[2]) ELSE b))
              [] Kind(a) = "record" -> record
              [] Kind(a) = "tuple" /\ Kind(b) = "array" -> Ask(a, b, d + 1)
              [] Kind(a) = "array" /\ Kind(b) = "array" -> Fits(a[2], b[2])
              [] Kind(a) = "tuple" /\ Kind(b) = "tuple" ->
                     IF Len(a[2]) # Len(b[2]) THEN False
                     ELSE All([i \in DOMAIN a[2] |-> Fits(a[2][i], b[2][i])])
              [] Kind(a) = "fn" /\ Kind(b) = "fn" ->
                     All(<<functionParamsEquivalent(a, b, d + 1),
                           IF Len(a[3]) < Len(b[3]) THEN False
                           ELSE All([i \in DOMAIN b[3] |-> Fits(a[3][i], b[3][i])])>>)
              [] OTHER -> False
        rest ==
            IF Kind(a) = "union"
            THEN Each(a[2], LAMBDA m : IF Kind(b) = "union" THEN canWidenTo(g, m, b, d + 1)
                                                            ELSE Fits(m, b))
            ELSE IF Kind(b) = "union"
            THEN SomeOf(SelectSeq(b[2], LAMBDA m : Kind(m) # "lit"), LAMBDA m : Fits(a, m))
            ELSE shapes
    IN  All(<<Within(d),
              IF \/ b = AnyType
                 \/ a = Nil /\ (Kind(b) = "opt" \/ (Kind(b) = "union" /\ Nil \in ToSet(b[2])))
              THEN True
              ELSE Some(<<IF Kind(b) = "opt" THEN Ask(a, b[2], d + 1) ELSE False, rest>>)>>)

-----------------------------------------------------------------------------
(* Two types of known shape.                                               *)

\* Parameters are contravariant, results covariant.
checkFunction(a, b) ==
    IF Len(a[2]) > Len(b[2]) THEN False
    ELSE All(<<All([i \in DOMAIN a[2] |-> Ask(b[2][i], a[2][i], 1)]),
               IF Len(a[3]) < Len(b[3]) THEN False
               ELSE All([i \in DOMAIN b[3] |-> Ask(a[3][i], b[3][i], 1)])>>)

\* A map's entries for the fields that declared (<<>> or a record) does not name.
checkRecordMapDomain(g, r, key, value, declared, d) ==
    LET counts(f) == /\ \A i \in DOMAIN declared : FieldsOf(declared[i], f.name) = {}
                     /\ fieldPresentType(g, f.type) # Never
    IN  IF declared # <<>> /\ ~r.complete /\ r.map = <<>> THEN False
        ELSE All(<<Each(SelectSeq(r.fields, counts),
                        LAMBDA f : All(<<Ask(<<"lit", "string", f.name>>, key, d + 1),
                                         Ask(fieldPresentType(g, f.type), value, d + 1)>>)),
                   IF r.map = <<>> THEN True
                   ELSE All(<<Ask(r.map[1], key, d + 1), Ask(r.map[2], value, d + 1)>>)>>)

\* One field of the super record.  Presence is a question to the checker, whose
\* answer is not used in one direction only.
checkNil(t) == Ask(Nil, t, 1)

checkField(g, r, f) ==
    LET mayBeAbsent(h) == IF h.optional THEN True ELSE checkNil(h.type)
        sub == Field(r, f.name)
        subValue == fieldPresentType(g, sub.type)
        superValue == fieldPresentType(g, f.type)
        depthwise ==
            IF subValue = Never THEN True
            ELSE IF f.readonly THEN Ask(subValue, superValue, 1)
            ELSE IF sub.readonly THEN False
            ELSE All(<<Ask(subValue, superValue, 1),
                       Some(<<checkInvariantSlot(g, subValue, superValue, 1),
                              canWidenTo(g, subValue, f.type, 1)>>)>>)
    IN  IF FieldsOf(r, f.name) = {} THEN mayBeAbsent(f)
        ELSE Cond(mayBeAbsent(f),
                  Cond(mayBeAbsent(sub), depthwise, depthwise),
                  Cond(mayBeAbsent(sub), False, depthwise))

checkRecord(g, a, b) ==
    All(<<Each(b.fields, LAMBDA f : checkField(g, a, f)),
          IF b.map = <<>> THEN True
          ELSE checkRecordMapDomain(g, a, b.map[1], b.map[2], <<b>>, 0)>>)

\* The fields of a record, or an interface's own methods, cover its methods.
checkMethods(fields, methods, d) ==
    LET typeOf(name) == {fields[i].type : i \in {j \in DOMAIN fields : fields[j].name = name}}
    IN  Each(methods, LAMBDA m : IF typeOf(m.name) = {} THEN False
                                 ELSE Ask(CHOOSE t \in typeOf(m.name) : TRUE, m.type, d))

\* The end of deriveStructural: neither type unfolds, and neither is a sum.
Shapes(g, a, b) ==
    LET kinds == <<Kind(a), Kind(b)>> IN
    CASE Kind(a) = "lit" -> If(LiteralFits(a, b))
      [] Kind(a) = "record" /\ Kind(b) \in {"array", "map"} ->
             IF Len(a[2].fields) = 0 THEN True
             ELSE IF Kind(b) = "array" THEN False
             ELSE checkRecordMapDomain(g, a[2], b[2], b[3], <<>>, 1)
      [] kinds = <<"array", "map">> -> All(<<Ask(Integer, b[2], 2), Ask(a[2], b[3], 2)>>)
      [] kinds = <<"tuple", "array">> -> Each(a[2], LAMBDA e : Ask(e, b[2], 2))
      [] kinds = <<"tuple", "map">> ->
             All(<<Ask(Integer, b[2], 2), Each(a[2], LAMBDA e : Ask(e, b[3], 2))>>)
      [] kinds = <<"record", "iface">> -> checkMethods(a[2].fields, b[3], 2)
      [] kinds = <<"integer", "number">> -> True
      [] kinds = <<"fn", "fn">> -> checkFunction(a, b)
      [] kinds = <<"record", "record">> -> checkRecord(g, a[2], b[2])
      [] kinds = <<"array", "array">> -> Ask(a[2], b[2], 1)
      [] kinds = <<"map", "map">> -> All(<<checkInvariantSlot(g, a[2], b[2], 1),
                                           checkInvariantSlot(g, a[3], b[3], 1)>>)
      [] kinds = <<"tuple", "tuple">> ->
             IF Len(a[2]) # Len(b[2]) THEN False
             ELSE All([i \in DOMAIN a[2] |-> Ask(a[2][i], b[2][i], 1)])
      [] kinds = <<"iface", "iface">> ->
             IF a[3] = <<>> /\ b[3] = <<>> THEN If(a[2] = b[2]) ELSE checkMethods(a[3], b[3], 1)
      [] OTHER -> If(a = b)

\* Unions, intersections and optional types, in the order the code looks at them.
Sums(g, a, b) ==
    IF Kind(a) = "union" THEN Each(a[2], LAMBDA m : Ask(m, b, 1))
    ELSE IF Kind(b) = "union"
    THEN IF Kind(a) = "opt" THEN All(<<Ask(a[2], b, 1), checkNil(b)>>)
         ELSE SomeOf(b[2], LAMBDA m : Ask(a, m, 1))
    ELSE IF Kind(a) = "inter" THEN SomeOf(a[2], LAMBDA m : Ask(m, b, 1))
    ELSE IF Kind(b) = "inter" THEN Each(b[2], LAMBDA m : Ask(a, m, 1))
    ELSE IF Kind(b) = "opt"
    THEN IF a = Nil THEN True ELSE Ask(IF Kind(a) = "opt" THEN a[2] ELSE a, b[2], 1)
    ELSE IF Kind(a) = "opt" THEN All(<<checkNil(b), Ask(a[2], b, 1)>>)
    ELSE Shapes(g, a, b)

deriveStructural(g, a, b) ==
    IF Kind(a) = "alias" THEN Ask(g[a[2]], b, 1)
    ELSE IF Kind(b) = "alias" THEN Ask(a, g[b[2]], 1)
    ELSE IF Kind(a) = "rec" THEN Ask(g[a[2]], b, 1)
    ELSE IF Kind(b) = "rec" THEN Ask(a, g[b[2]], 1)
    ELSE IF a = Never \/ IsTop(b) THEN True
    ELSE IF b = Never THEN False
    ELSE IF IsTop(a) THEN If(hasTopMember(b))
    ELSE Sums(g, a, b)

=============================================================================
