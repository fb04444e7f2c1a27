------------------------------ MODULE MCQueryDB ------------------------------
(***************************************************************************)
(* Query graphs for QueryDB over the inputs i and j.                       *)
(***************************************************************************)
EXTENDS QueryDB, FiniteSetsExt, SequencesExt

\* An acyclic graph over 0 and 1.  base copies i; mid is base and j, and reads j
\* only if base is 1, so base may change and leave mid equal; top asks for mid,
\* and for base too if mid is 1.
ChainRead(q, vals) ==
    LET reads == CASE q = "base" -> <<"i">>
                   [] q = "mid"  -> <<"base", "j">>
                   [] q = "top"  -> <<"mid", "base">>
    IN  CASE vals = <<>> -> reads[1]
          [] vals = <<1>> /\ q # "base" -> reads[2]
          [] OTHER -> None

ChainCombine(q, vals) ==
    CASE q = "base" -> vals[1]
      [] q = "mid"  -> IF Len(vals) = 2 THEN vals[2] ELSE 0
      [] q = "top"  -> IF Len(vals) = 2 THEN 1 - vals[2] ELSE 1

\* The graph is one the theorems of QueryDBProofs are about: no query reads one
\* of its own rank, and the compute functions end and give values.
ChainRank == [base |-> 0, mid |-> 1, top |-> 2]
ASSUME ChainIsRanked ==
    \A q \in DOMAIN ChainRank, vals \in SeqOf({0, 1}, 3) :
        LET source == ChainRead(q, vals)
        IN  /\ source \in DOMAIN ChainRank => ChainRank[source] < ChainRank[q]
            /\ source = None => ChainCombine(q, vals) \in {0, 1}
            /\ Len(vals) > 1 => source = None

\* Queries that ask for themselves.  sum climbs to 2 when i is set and stays
\* where it is when i is 0; wheel, when i is 2, asks for sum and then goes round
\* and round.  Before they ask for themselves both read the two inputs, so a Set
\* of either makes them compute.  view reads j only if sum is 2, and is validated
\* through sum.
SelfRead(q, vals) ==
    LET reads == CASE q = "sum"   -> <<"i", "j", "sum">>
                   [] q = "wheel" -> IF Len(vals) = 0 \/ vals[1] = 2
                                     THEN <<"i", "j", "sum", "wheel">> ELSE vals
                   [] q = "view"  -> IF vals \in {<<>>, <<2>>} THEN <<"sum", "j">> ELSE vals
    IN  IF Len(vals) < Len(reads) THEN reads[Len(vals) + 1] ELSE None

SelfCombine(q, vals) ==
    CASE q = "sum"   -> Min({vals[1] + vals[3], 2})
      [] q = "wheel" -> IF Len(vals) = 1 THEN vals[1] ELSE (vals[4] + 1) % 3
      [] q = "view"  -> IF Len(vals) = 2 THEN vals[2] ELSE vals[1]

\* sum as a program would write it: it does not read j.
LazyRead(q, vals) ==
    LET reads == <<"i", "sum">>
    IN  IF Len(vals) < Len(reads) THEN reads[Len(vals) + 1] ELSE None

LazyCombine(q, vals) == Min({vals[1] + vals[2], 2})

\* Two queries that ask for each other.
MutualRead(q, vals) ==
    LET reads == CASE q = "ping" -> <<"i", "pong">>
                   [] q = "pong" -> <<"i", "ping">>
    IN  IF Len(vals) < Len(reads) THEN reads[Len(vals) + 1] ELSE None

Larger(a, b) == Max({a, b})

\* Goroutines are interchangeable.
ThreadSymmetry == Permutations(Threads)
==============================================================================
