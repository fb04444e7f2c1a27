--------------------------- MODULE RegistersProofs ---------------------------
(***************************************************************************)
(* Theorems about Registers, for any states, closures, variables, options  *)
(* and depth of calls: local variables are kept, open upvalues are listed. *)
(***************************************************************************)
EXTENDS Registers, FiniteSetTheorems, SequenceTheorems, WellFoundedInduction, TLAPS

-----------------------------------------------------------------------------
(* What a state holds.                                                     *)

\* A registry: registers 0, 1, ... up to its capacity, and a top within them.
IsRegistry(rg) ==
    /\ Capacity(rg) \in Nat
    /\ rg \in [array : [0 .. Capacity(rg) - 1 -> Contents], top : 0 .. Capacity(rg),
               growBy : Nat, maxSize : Nat]

\* The record of a call.
FrameRecords ==
    [fn : Nat, base : Nat, ret : Nat,
     guard : [on : BOOLEAN, base : Nat, ret : Nat, resumed : BOOLEAN], vars : Seq(Names)]

\* The first register of a call: pcall's own, when it is protected.
Begin(f) == IF f.guard.on THEN f.guard.ret ELSE f.fn

\* The first register after the variables of a call.
End(f) == f.base + Len(f.vars)

\* The i-th call of thread t: its function lies below its variables, and they
\* have the names of their places.
FrameOk(t, i, f) ==
    /\ f \in FrameRecords
    /\ f.fn < f.base /\ f.ret = f.fn /\ f.vars # <<>>
    /\ f.guard.on => f.guard.base = f.fn /\ f.guard.ret + 1 = f.fn
    /\ \A k \in DOMAIN f.vars : f.vars[k][1] = t /\ f.vars[k][2] = i /\ f.vars[k][3] = k

\* The calls of thread t lie one above the other, below top.
Stacked(t, fs, top) ==
    /\ \A i \in DOMAIN fs : FrameOk(t, i, fs[i]) /\ End(fs[i]) <= top
    /\ \A i, j \in DOMAIN fs : i < j => End(fs[i]) <= Begin(fs[j])

\* One thread.
ThreadOk(t, L) ==
    /\ L \in [status : {"none", "live", "dead", "pooled"}, thread : BOOLEAN, options : Options,
              reg : {L.reg}, frames : Seq(FrameRecords), uvcache : Seq(Upvals)]
    /\ IsRegistry(L.reg)
    /\ Stacked(t, L.frames, L.reg.top)
    /\ L.status # "live" => L.frames = <<>>

-----------------------------------------------------------------------------
(* Which variables are where.  What follows takes the state as arguments:   *)
(* H has for each thread the pairs of a register and the variable in it, A  *)
(* its registers, Q its list of open upvalues; U, C and S are uv, closure   *)
(* and store.                                                              *)

\* The variables of calls fs in their registers.
Live(fs) ==
    UNION {{<<fs[i].base + k - 1, fs[i].vars[k]>> : k \in DOMAIN fs[i].vars} : i \in DOMAIN fs}

\* A register has one variable and a variable one register.
Once(H) ==
    /\ \A t \in Threads : \A p, q \in H[t] : p[1] = q[1] <=> p[2] = q[2]
    /\ \A s, t \in Threads : \A p \in H[s], q \in H[t] : p[2] = q[2] => s = t

\* Upvalue objects; an open one belongs to a thread.
Objects(U) ==
    /\ U \in [Upvals -> [reg : Threads \cup {None}, index : Nat, closed : BOOLEAN, value : Contents]
                         \cup {None}]
    /\ \A u \in Upvals : U[u] # None => (U[u].closed <=> U[u].reg = None)

\* Closures hold an upvalue; two closures share it if they share the variable.
Holding(U, C) ==
    /\ C \in [Closures -> [uv : Upvals, var : Names] \cup {None}]
    /\ \A c \in Closures : C[c] # None => U[C[c].uv] # None
    /\ \A c, d \in Closures : C[c] # None /\ C[d] # None =>
          (C[c].uv = C[d].uv <=> C[c].var = C[d].var)

\* A captured variable that is in a register has its upvalue open there.
Attached(H, U, C) ==
    \A t \in Threads : \A p \in H[t] : \A c \in Closures :
        C[c] # None /\ C[c].var = p[2] =>
            U[C[c].uv].reg = t /\ U[C[c].uv].index = p[1]

\* The list is sorted, and has all open upvalues of the thread;
Listed(Q, U) ==
    \A t \in Threads :
        /\ Q[t] \in Seq(Upvals)
        /\ \A i, j \in DOMAIN Q[t] : i < j => U[Q[t][i]].index < U[Q[t][j]].index
        /\ \A u \in Upvals : U[u] # None /\ U[u].reg = t => Contains(Q[t], u)

\* u is open on a register of t that has the variable u was made for.
OnVariable(t, u, H, U, C) ==
    /\ U[u] # None /\ U[u].reg = t
    /\ \E p \in H[t] : /\ p[1] = U[u].index
                       /\ \A c \in Closures : C[c] # None /\ C[c].uv = u => C[c].var = p[2]

\* which is so of all that the lists have.
Placed(H, Q, U, C) ==
    \A t \in Threads : \A i \in DOMAIN Q[t] : OnVariable(t, Q[t][i], H, U, C)

\* Registers and closed upvalues have the values of their variables.
Kept(H, A, U, C, S) ==
    /\ \A t \in Threads : \A p \in H[t] : A[t][p[1]] = S[p[2]]
    /\ \A c \in Closures : C[c] # None /\ U[C[c].uv].closed => U[C[c].uv].value = S[C[c].var]

\* All of it.
Bound(H, A, Q, U, C, S) ==
    /\ Once(H) /\ Objects(U) /\ Holding(U, C) /\ Attached(H, U, C)
    /\ Listed(Q, U) /\ Placed(H, Q, U, C) /\ Kept(H, A, U, C, S)

\* The arguments for a value L of ls: the variables in registers,
LiveOf(L) == [t \in Threads |-> Live(L[t].frames)]
\* the registers,
ArrayOf(L) == [t \in Threads |-> L[t].reg.array]
\* and the lists of open upvalues.
ListOf(L) == [t \in Threads |-> L[t].uvcache]

\* The inductive invariant.
IInv ==
    /\ DOMAIN ls = Threads
    /\ \A t \in Threads : ThreadOk(t, ls[t])
    /\ Bound(LiveOf(ls), ArrayOf(ls), ListOf(ls), uv, closure, store)

-----------------------------------------------------------------------------
(* Registries.                                                             *)

\* The capacity of registers 0 .. n - 1 is n.
LEMMA CapacityIs ==
    ASSUME NEW rg, NEW n \in Nat, DOMAIN rg.array = 0 .. n - 1
    PROVE  Capacity(rg) = n
  <1>1. Cardinality(0 .. n - 1) = IF 0 > n - 1 THEN 0 ELSE (n - 1) - 0 + 1
    BY FS_Interval
  <1> QED
    BY <1>1 DEF Capacity

\* What a registry is made of makes it one.
LEMMA RegistryMade ==
    ASSUME NEW n \in Nat, NEW rg, rg \in [array : [0 .. n - 1 -> Contents], top : 0 .. n,
                                          growBy : Nat, maxSize : Nat]
    PROVE  IsRegistry(rg) /\ Capacity(rg) = n
  <1>1. rg.array \in [0 .. n - 1 -> Contents]
    OBVIOUS
  <1>2. DOMAIN rg.array = 0 .. n - 1
    BY <1>1
  <1>3. Capacity(rg) = n
    BY <1>2, CapacityIs
  <1> QED
    BY <1>3 DEF IsRegistry

\* rg2 has at least the registers of rg, and those below m are as they were.
Keeps(rg, rg2, m) ==
    /\ IsRegistry(rg2) /\ Capacity(rg2) >= Capacity(rg)
    /\ rg2.growBy = rg.growBy /\ rg2.maxSize = rg.maxSize
    /\ \A i \in Nat : i < m => rg2.array[i] = rg.array[i]

\* Keeping is transitive,
LEMMA KeepsTrans ==
    ASSUME NEW a, NEW b, NEW c, NEW l \in Nat, NEW m \in Nat, NEW n \in Nat, IsRegistry(a),
           Keeps(a, b, l), Keeps(b, c, m), n <= l, n <= m
    PROVE  Keeps(a, c, n)
  BY DEF Keeps, IsRegistry

\* and keeps the room to grow.
LEMMA KeepsFits ==
    ASSUME NEW a, NEW b, NEW l, NEW m \in Nat, NEW n \in Nat, IsRegistry(a),
           Keeps(a, b, l), Fits(a, m), n <= m
    PROVE  Fits(b, n)
  BY DEF Keeps, IsRegistry, Fits

\* Fewer registers fit if more do.
LEMMA FitsLess ==
    ASSUME NEW a, NEW m \in Nat, NEW n \in Nat, IsRegistry(a), Fits(a, m), n <= m
    PROVE  Fits(a, n)
  BY DEF IsRegistry, Fits

\* checkSize makes room and keeps what is below the top.
LEMMA CheckSizeKeeps ==
    ASSUME NEW rg, IsRegistry(rg), NEW n \in Nat, Fits(rg, n)
    PROVE  /\ Keeps(rg, checkSize(rg, n), rg.top)
           /\ Capacity(checkSize(rg, n)) >= n
           /\ checkSize(rg, n).top = rg.top
           /\ n <= Capacity(rg) => checkSize(rg, n) = rg
  <1>1. CASE n <= Capacity(rg)
    BY <1>1 DEF checkSize, Keeps, IsRegistry
  <1>2. CASE ~(n <= Capacity(rg))
    <2> DEFINE want == n + rg.growBy
               size == IF want > rg.maxSize THEN rg.maxSize ELSE want
               arr == [i \in 0 .. size - 1 |-> IF i < rg.top THEN rg.array[i] ELSE Nil]
               rg2 == checkSize(rg, n)
    <2>1. size \in Nat /\ size >= n /\ size >= Capacity(rg)
      BY <1>2 DEF Fits, IsRegistry
    <2>2. rg2 = [rg EXCEPT !.array = arr]
      BY <1>2 DEF checkSize
    <2>3. arr \in [0 .. size - 1 -> Contents]
      BY <2>1 DEF IsRegistry, Contents
    <2>4. rg2 = [array |-> arr, top |-> rg.top, growBy |-> rg.growBy, maxSize |-> rg.maxSize]
      BY <2>2 DEF IsRegistry
    <2>5. IsRegistry(rg2) /\ Capacity(rg2) = size
      <3> HIDE DEF arr, rg2, size
      <3>1. rg.top \in 0 .. size /\ rg.growBy \in Nat /\ rg.maxSize \in Nat
        BY <2>1 DEF IsRegistry
      <3>2. rg2 \in [array : [0 .. size - 1 -> Contents], top : 0 .. size, growBy : Nat, maxSize : Nat]
        BY <2>3, <2>4, <3>1
      <3> QED
        BY <2>1, <3>2, RegistryMade
    <2>6. \A i \in Nat : i < rg.top => rg2.array[i] = rg.array[i]
      BY <2>1, <2>4 DEF IsRegistry
    <2> HIDE DEF size, arr
    <2> QED
      BY <1>2, <2>1, <2>4, <2>5, <2>6 DEF Keeps
  <1> QED
    BY <1>1, <1>2

\* The same facts in the form the operations need.
LEMMA CheckSizeRoom ==
    ASSUME NEW rg, IsRegistry(rg), NEW n \in Nat, n <= Capacity(rg)
    PROVE  checkSize(rg, n) = rg
  BY DEF checkSize

\* The top moves to n: registers below both tops are kept.
LEMMA SetTopKeeps ==
    ASSUME NEW rg, IsRegistry(rg), NEW n \in Nat, Fits(rg, n), NEW m \in Nat, m <= n, m <= rg.top
    PROVE  /\ Keeps(rg, SetTop(rg, n), m)
           /\ Capacity(SetTop(rg, n)) >= n
           /\ SetTop(rg, n).top = n
           /\ \A i \in Nat : i >= rg.top /\ i < n => SetTop(rg, n).array[i] = Nil
  <1> DEFINE r == checkSize(rg, n)
             a == [i \in DOMAIN r.array |->
                      IF i \in n .. r.top - 1 \/ i \in r.top .. n - 1 THEN Nil ELSE r.array[i]]
             r2 == SetTop(rg, n)
  <1>1. Keeps(rg, r, rg.top) /\ Capacity(r) >= n /\ r.top = rg.top
    BY CheckSizeKeeps
  <1>2. IsRegistry(r)
    BY <1>1 DEF Keeps
  <1>3. r2 = [r EXCEPT !.top = n, !.array = a]
    BY DEF SetTop, MoveTop
  <1> HIDE DEF r
  <1>4. r2 = [array |-> a, top |-> n, growBy |-> r.growBy, maxSize |-> r.maxSize]
    BY <1>2, <1>3 DEF IsRegistry
  <1>5. a \in [0 .. Capacity(r) - 1 -> Contents]
    BY <1>2 DEF IsRegistry, Contents
  <1>6. rg.top \in Nat /\ r.top \in Nat /\ Capacity(r) \in Nat /\ r.top <= Capacity(r)
        /\ DOMAIN r.array = 0 .. Capacity(r) - 1
    BY <1>1, <1>2 DEF IsRegistry
  <1>7. \A i \in Nat : i < m => a[i] = r.array[i]
    BY <1>1, <1>6
  <1>8. \A i \in Nat : i >= rg.top /\ i < n => a[i] = Nil
    BY <1>1, <1>6
  <1>9. n \in 0 .. Capacity(r)
    BY <1>1, <1>6
  <1> HIDE DEF a, r2
  <1>10. r2 \in [array : [0 .. Capacity(r) - 1 -> Contents], top : 0 .. Capacity(r),
                 growBy : Nat, maxSize : Nat]
    BY <1>2, <1>4, <1>5, <1>9 DEF IsRegistry
  <1>11. IsRegistry(r2) /\ Capacity(r2) = Capacity(r)
    BY <1>6, <1>10, RegistryMade
  <1>12. Keeps(r, r2, m) /\ Capacity(r2) = Capacity(r)
    BY <1>4, <1>6, <1>7, <1>11 DEF Keeps
  <1>13. Keeps(rg, r2, m)
    BY <1>1, <1>6, <1>12, KeepsTrans
  <1>14. r2.array = a /\ r2.top = n
    BY <1>4
  <1> QED
    BY <1>1, <1>8, <1>12, <1>13, <1>14 DEF r2

\* A register is written: the others are kept, below the top or below it.
LEMMA SetKeeps ==
    ASSUME NEW rg, IsRegistry(rg), NEW j \in Nat, Fits(rg, j + 1), NEW x \in Contents,
           NEW m \in Nat, m <= rg.top
    PROVE  /\ IsRegistry(Set(rg, j, x)) /\ Capacity(Set(rg, j, x)) >= Capacity(rg)
           /\ Set(rg, j, x).growBy = rg.growBy /\ Set(rg, j, x).maxSize = rg.maxSize
           /\ \A i \in Nat : i < m /\ i # j => Set(rg, j, x).array[i] = rg.array[i]
           /\ Set(rg, j, x).array[j] = x
           /\ Set(rg, j, x).top = IF j >= rg.top THEN j + 1 ELSE rg.top
           /\ j >= m => Keeps(rg, Set(rg, j, x), m)
  <1> DEFINE r == checkSize(rg, j + 1)
             a == [r.array EXCEPT ![j] = x]
             n == IF j >= r.top THEN j + 1 ELSE r.top
             r2 == Set(rg, j, x)
  <1>1. Keeps(rg, r, rg.top) /\ Capacity(r) >= j + 1 /\ r.top = rg.top
    BY CheckSizeKeeps
  <1>2. IsRegistry(r)
    BY <1>1 DEF Keeps
  <1>3. r2 = [r EXCEPT !.array[j] = x, !.top = IF j >= @ THEN j + 1 ELSE @]
    BY DEF Set
  <1> HIDE DEF r
  <1>4. rg.top \in Nat /\ r.top \in Nat /\ Capacity(r) \in Nat /\ r.top <= Capacity(r)
        /\ DOMAIN r.array = 0 .. Capacity(r) - 1 /\ r.growBy \in Nat /\ r.maxSize \in Nat
    BY <1>1, <1>2 DEF IsRegistry
  <1>5. r2 = [array |-> a, top |-> n, growBy |-> r.growBy, maxSize |-> r.maxSize]
    BY <1>2, <1>3 DEF IsRegistry
  <1>6. a \in [0 .. Capacity(r) - 1 -> Contents]
    BY <1>2 DEF IsRegistry
  <1>7. \A i \in Nat : i # j /\ i < Capacity(r) => a[i] = r.array[i]
    BY <1>4
  <1>8. a[j] = x
    BY <1>1, <1>4
  <1>9. n \in 0 .. Capacity(r)
    BY <1>1, <1>4
  <1>10. n = IF j >= rg.top THEN j + 1 ELSE rg.top
    BY <1>1
  <1> HIDE DEF a, r2, n
  <1>11. r2 \in [array : [0 .. Capacity(r) - 1 -> Contents], top : 0 .. Capacity(r),
                 growBy : Nat, maxSize : Nat]
    BY <1>5, <1>6, <1>4, <1>9
  <1>12. IsRegistry(r2) /\ Capacity(r2) = Capacity(r)
    BY <1>4, <1>11, RegistryMade
  <1>13. r2.array = a /\ r2.top = n /\ r2.growBy = rg.growBy /\ r2.maxSize = rg.maxSize
    BY <1>1, <1>5 DEF Keeps
  <1>14. Capacity(r2) >= Capacity(rg)
    BY <1>1, <1>12 DEF Keeps
  <1>15. \A i \in Nat : i < m /\ i # j => r2.array[i] = rg.array[i]
    BY <1>1, <1>4, <1>7, <1>13 DEF Keeps
  <1>16. r2.array[j] = x /\ r2.top = IF j >= rg.top THEN j + 1 ELSE rg.top
    BY <1>8, <1>10, <1>13
  <1>17. j >= m => Keeps(rg, r2, m)
    BY <1>12, <1>13, <1>14, <1>15 DEF Keeps
  <1> QED
    BY <1>12, <1>13, <1>14, <1>15, <1>16, <1>17 DEF r2

\* n registers from start on can be copied down to the place to,
MayCopy(rg, to, start, n) ==
    /\ IsRegistry(rg) /\ to \in Nat /\ start \in Nat /\ n \in Nat
    /\ to + n <= Capacity(rg) /\ to <= rg.top

\* and are then: rg2 is the result.
IsCopied(rg, to, start, n, rg2) ==
    /\ Keeps(rg, rg2, to) /\ rg2.top = to + n /\ Capacity(rg2) = Capacity(rg)
    /\ \A i \in Nat : i < n /\ start + i < rg.top => rg2.array[to + i] = rg.array[start + i]

\* Registers are copied down: those below are kept.
LEMMA CopyRangeKeeps ==
    ASSUME NEW rg, NEW to, NEW start, NEW n, MayCopy(rg, to, start, n)
    PROVE  IsCopied(rg, to, start, n, CopyRange(rg, to, start, n))
  <1> USE DEF MayCopy
  <1> DEFINE a == [i \in DOMAIN rg.array |->
                     IF i \in to .. to + n - 1
                     THEN IF start + (i - to) < rg.top THEN rg.array[start + (i - to)] ELSE Nil
                     ELSE rg.array[i]]
             b == [i \in DOMAIN a |-> IF i \in to + n .. rg.top - 1 THEN Nil ELSE a[i]]
             r2 == CopyRange(rg, to, start, n)
  <1>1. checkSize(rg, to + n) = rg
    BY CheckSizeRoom
  <1>2. r2 = [[rg EXCEPT !.array = a] EXCEPT !.top = to + n, 
                     !.array = [i \in DOMAIN @ |-> IF i \in to + n .. rg.top - 1 THEN Nil ELSE @[i]]]
    BY <1>1 DEF CopyRange
  <1>3. rg.top \in Nat /\ Capacity(rg) \in Nat /\ rg.top <= Capacity(rg)
        /\ DOMAIN rg.array = 0 .. Capacity(rg) - 1
    BY DEF IsRegistry
  <1>4. r2 = [array |-> b, top |-> to + n, growBy |-> rg.growBy, maxSize |-> rg.maxSize]
    <2> HIDE DEF a
    <2>1. [rg EXCEPT !.array = a] = [array |-> a, top |-> rg.top, growBy |-> rg.growBy,
                                     maxSize |-> rg.maxSize]
      BY DEF IsRegistry
    <2>2. r2 = [[array |-> a, top |-> rg.top, growBy |-> rg.growBy, maxSize |-> rg.maxSize]
                  EXCEPT !.top = to + n,
                     !.array = [i \in DOMAIN @ |-> IF i \in to + n .. rg.top - 1 THEN Nil ELSE @[i]]]
      <3> HIDE DEF r2
      <3> QED
        BY <1>2, <2>1
    <2> HIDE DEF r2
    <2> QED
      BY <2>2
  <1>5. a \in [0 .. Capacity(rg) - 1 -> Contents]
    <2>1. ASSUME NEW i \in 0 .. Capacity(rg) - 1, i \in to .. to + n - 1,
                 start + (i - to) < rg.top
          PROVE  rg.array[start + (i - to)] \in Contents
      <3>1. start + (i - to) \in 0 .. Capacity(rg) - 1
        BY <1>3, <2>1
      <3> QED
        BY <3>1 DEF IsRegistry
    <2>2. \A i \in 0 .. Capacity(rg) - 1 : rg.array[i] \in Contents
      BY DEF IsRegistry
    <2> QED
      BY <1>3, <2>1, <2>2 DEF Contents
  <1>6. b \in [0 .. Capacity(rg) - 1 -> Contents]
    <2> HIDE DEF a
    <2> QED
      BY <1>5 DEF Contents
  <1>7. \A i \in Nat : i < to => b[i] = rg.array[i]
    BY <1>3
  <1>8. \A i \in Nat : i < n /\ start + i < rg.top => b[to + i] = rg.array[start + i]
    BY <1>3
  <1>9. to + n \in 0 .. Capacity(rg)
    BY <1>3
  <1> HIDE DEF a, b, r2
  <1>10. r2 \in [array : [0 .. Capacity(rg) - 1 -> Contents], top : 0 .. Capacity(rg),
                 growBy : Nat, maxSize : Nat]
    BY <1>4, <1>6, <1>9 DEF IsRegistry
  <1>11. IsRegistry(r2) /\ Capacity(r2) = Capacity(rg)
    BY <1>3, <1>10, RegistryMade
  <1>12. Keeps(rg, r2, to) /\ Capacity(r2) = Capacity(rg)
    BY <1>3, <1>4, <1>7, <1>11 DEF Keeps
  <1>13. r2.array = b /\ r2.top = to + n
    BY <1>4
  <1> QED
    BY <1>8, <1>12, <1>13 DEF IsCopied, r2

\* Registers from idx on become temporaries.
LEMMA TemporaryKeeps ==
    ASSUME NEW rg, IsRegistry(rg), NEW idx \in Nat, idx <= rg.top
    PROVE  /\ Keeps(rg, Temporary(rg, idx), idx)
           /\ Temporary(rg, idx).top = rg.top
  <1> DEFINE a == [i \in DOMAIN rg.array |-> IF i >= idx THEN Nil ELSE rg.array[i]]
  <1>1. Temporary(rg, idx) = [array |-> a, top |-> rg.top, growBy |-> rg.growBy, maxSize |-> rg.maxSize]
    BY DEF Temporary, IsRegistry
  <1>2. a \in [0 .. Capacity(rg) - 1 -> Contents]
    BY DEF IsRegistry, Contents
  <1>3. \A i \in Nat : i < idx => a[i] = rg.array[i]
    BY DEF IsRegistry
  <1> HIDE DEF a
  <1>4. rg.top \in 0 .. Capacity(rg)
    BY DEF IsRegistry
  <1>5. Temporary(rg, idx) \in [array : [0 .. Capacity(rg) - 1 -> Contents], top : 0 .. Capacity(rg),
                                growBy : Nat, maxSize : Nat]
    BY <1>1, <1>2, <1>4 DEF IsRegistry
  <1>6. IsRegistry(Temporary(rg, idx)) /\ Capacity(Temporary(rg, idx)) = Capacity(rg)
    BY <1>5, RegistryMade DEF IsRegistry
  <1>7. Keeps(rg, Temporary(rg, idx), idx)
    BY <1>1, <1>3, <1>6 DEF Keeps, IsRegistry
  <1> QED
    BY <1>1, <1>7

-----------------------------------------------------------------------------
(* Calls on registries.                                                    *)

\* A set of naturals that is not empty has a smallest element.
LEMMA SmallestExists ==
    ASSUME NEW N \in SUBSET Nat, N # {}
    PROVE  \E n \in N : \A m \in N : n <= m
  <1>1. PICK n \in N : \A m \in Nat : <<m, n>> \in OpToRel(<, Nat) => m \notin N
    BY NatLessThanWellFounded, WFMin
  <1>2. \A m \in N : ~ (m < n)
    BY <1>1 DEF OpToRel
  <1> QED
    BY <1>2

\* The equations of put in Arguments, for k arguments.
Puts(f, rg, ra, x, k) ==
    f = [j \in 0 .. k |-> IF j = 0 THEN Set(rg, ra, Nil)
                          ELSE Set(f[j - 1], ra + j, IF j = 1 THEN x ELSE Nil)]

\* They have a solution.
LEMMA PutsExists ==
    ASSUME NEW rg, NEW ra, NEW x, NEW n \in Nat
    PROVE  \E f : Puts(f, rg, ra, x, n)
  <1> DEFINE N == {k \in Nat : ~ \E f : Puts(f, rg, ra, x, k)}
  <1> SUFFICES ASSUME N # {} PROVE FALSE
    OBVIOUS
  <1>1. PICK k \in N : \A m \in N : k <= m
    BY SmallestExists
  <1>2. k # 0
    <2> DEFINE f == [j \in 0 .. 0 |-> Set(rg, ra, Nil)]
    <2>1. Puts(f, rg, ra, x, 0)
      BY DEF Puts
    <2> QED
      BY <2>1
  <1>3. k - 1 \in Nat /\ k - 1 \notin N
    BY <1>1, <1>2
  <1>4. PICK f : Puts(f, rg, ra, x, k - 1)
    BY <1>3
  <1> DEFINE g == [j \in 0 .. k |-> IF j = k THEN Set(f[k - 1], ra + k, IF k = 1 THEN x ELSE Nil) ELSE f[j]]
  <1>5. Puts(g, rg, ra, x, k)
    <2>1. \A j \in 0 .. k - 1 : g[j] = f[j]
      BY <1>3
    <2>2. \A j \in 0 .. k - 1 : f[j] = IF j = 0 THEN Set(rg, ra, Nil)
                                        ELSE Set(f[j - 1], ra + j, IF j = 1 THEN x ELSE Nil)
      BY <1>4, <1>3 DEF Puts
    <2>3. g[k] = Set(f[k - 1], ra + k, IF k = 1 THEN x ELSE Nil)
      BY <1>3
    <2>4. k - 1 \in 0 .. k - 1
      BY <1>3
    <2>5. ASSUME NEW j \in 0 .. k
          PROVE  g[j] = IF j = 0 THEN Set(rg, ra, Nil)
                        ELSE Set(g[j - 1], ra + j, IF j = 1 THEN x ELSE Nil)
      <3> HIDE DEF g
      <3>1. CASE j = k
        BY <1>2, <2>1, <2>3, <2>4, <3>1
      <3>2. CASE j # k /\ j # 0
        <4>1. j \in 0 .. k - 1 /\ j - 1 \in 0 .. k - 1
          BY <1>3, <3>2
        <4> QED
          BY <2>1, <2>2, <3>2, <4>1
      <3>3. CASE j # k /\ j = 0
        <4>1. j \in 0 .. k - 1
          BY <1>3, <3>3
        <4> QED
          BY <2>1, <2>2, <3>3, <4>1
      <3> QED
        BY <3>1, <3>2, <3>3
    <2>6. g = [j \in 0 .. k |-> g[j]]
      OBVIOUS
    <2> HIDE DEF g
    <2> QED
      BY <2>5, <2>6, Zenon DEF Puts
  <1> QED
    BY <1>1, <1>5

\* Arguments is such a solution.
LEMMA ArgumentsPut ==
    ASSUME NEW rg, NEW ra, NEW x, NEW n \in Nat
    PROVE  \E f : Puts(f, rg, ra, x, n) /\ Arguments(rg, ra, n, x) = f[n]
  <1> DEFINE g == CHOOSE f : Puts(f, rg, ra, x, n)
  <1>1. Puts(g, rg, ra, x, n)
    BY PutsExists
  <1>2. Arguments(rg, ra, n, x) = g[n]
    BY DEF Arguments, Puts
  <1> QED
    BY <1>1, <1>2

\* The function and its arguments go above ra; the first is the parameter.
LEMMA ArgumentsKeeps ==
    ASSUME NEW rg, IsRegistry(rg), NEW ra \in Nat, ra <= rg.top, NEW x \in Contents, NEW n \in Nat,
           Fits(rg, ra + n + 1)
    PROVE  /\ Keeps(rg, Arguments(rg, ra, n, x), ra)
           /\ Arguments(rg, ra, n, x).top >= ra + n + 1
           /\ n >= 1 => Arguments(rg, ra, n, x).array[ra + 1] = x
  <1>1. PICK f : Puts(f, rg, ra, x, n) /\ Arguments(rg, ra, n, x) = f[n]
    BY ArgumentsPut
  <1> DEFINE P(j) == /\ Keeps(rg, f[j], ra)
                     /\ f[j].top >= ra + j + 1
                     /\ j >= 1 => f[j].array[ra + 1] = x
             N == {j \in 0 .. n : ~P(j)}
  <1>2. f[0] = Set(rg, ra, Nil)
    BY <1>1 DEF Puts
  <1>3. \A j \in 1 .. n : f[j] = Set(f[j - 1], ra + j, IF j = 1 THEN x ELSE Nil)
    BY <1>1 DEF Puts
  <1>4. rg.top \in Nat /\ Nil \in Contents
    BY DEF IsRegistry, Contents
  <1>5. P(0)
    <2>1. Fits(rg, ra + 1)
      BY FitsLess
    <2>2. Keeps(rg, Set(rg, ra, Nil), ra)
          /\ Set(rg, ra, Nil).top = IF ra >= rg.top THEN ra + 1 ELSE rg.top
      BY <2>1, <1>4, SetKeeps
    <2> QED
      BY <1>2, <1>4, <2>2
  <1>6. ASSUME NEW j \in 1 .. n, P(j - 1)
        PROVE  P(j)
    <2> DEFINE r == f[j - 1]
               y == IF j = 1 THEN x ELSE Nil
    <2>1. IsRegistry(r) /\ r.top \in Nat /\ r.top >= ra + j /\ Keeps(rg, r, ra)
      BY <1>6 DEF Keeps, IsRegistry
    <2>2. Fits(r, ra + j + 1)
      BY <2>1, KeepsFits
    <2>3. f[j] = Set(r, ra + j, y) /\ y \in Contents
      BY <1>3, <1>4
    <2>4. j >= 2 => r.array[ra + 1] = x
      BY <1>6
    <2> HIDE DEF r, y
    <2>5. /\ \A i \in Nat : i < r.top /\ i # ra + j => f[j].array[i] = r.array[i]
          /\ f[j].array[ra + j] = y
          /\ f[j].top = IF ra + j >= r.top THEN ra + j + 1 ELSE r.top
          /\ Keeps(r, f[j], ra)
      <3>1. ra + j \in Nat /\ ra <= r.top /\ ra + j >= ra
        BY <2>1
      <3>2. Keeps(r, f[j], ra)
        BY <2>1, <2>2, <2>3, <3>1, SetKeeps
      <3>3. r.top <= r.top
        BY <2>1
      <3>4. \A i \in Nat : i < r.top /\ i # ra + j => Set(r, ra + j, y).array[i] = r.array[i]
        BY <2>1, <2>2, <2>3, <3>1, <3>3, SetKeeps
      <3>5. /\ Set(r, ra + j, y).array[ra + j] = y
            /\ Set(r, ra + j, y).top = IF ra + j >= r.top THEN ra + j + 1 ELSE r.top
        BY <2>1, <2>2, <2>3, <3>1, SetKeeps
      <3> QED
        BY <2>3, <3>2, <3>4, <3>5
    <2>6. Keeps(rg, f[j], ra)
      BY <2>1, <2>5, KeepsTrans
    <2>7. f[j].top >= ra + j + 1
      BY <2>1, <2>5
    <2>8. f[j].array[ra + 1] = x
      <3>1. CASE j = 1
        BY <2>5, <3>1 DEF y
      <3>2. CASE j # 1
        <4>1. ra + 1 \in Nat /\ ra + 1 < r.top /\ ra + 1 # ra + j /\ j >= 2
          BY <2>1, <3>2
        <4> QED
          BY <2>5, <2>4, <4>1
      <3> QED
        BY <3>1, <3>2
    <2> QED
      BY <2>6, <2>7, <2>8
  <1>7. N = {}
    <2> SUFFICES ASSUME N # {} PROVE FALSE
      OBVIOUS
    <2> HIDE DEF P
    <2>1. PICK j \in N : \A m \in N : j <= m
      <3>1. N \in SUBSET Nat
        OBVIOUS
      <3> HIDE DEF N
      <3> QED
        BY <3>1, SmallestExists
    <2>2. j # 0
      BY <1>5
    <2>3. j \in 1 .. n /\ j - 1 \in 0 .. n /\ j - 1 \notin N
      BY <2>1, <2>2
    <2> QED
      BY <1>6, <2>3
  <1>8. P(n)
    <2> HIDE DEF P
    <2> QED
      BY <1>7
  <1> QED
    BY <1>1, <1>8

\* initCallFrame, when no argument is given,
NoArgument(rg, lbase) ==
    [checkSize(rg, lbase + 1) EXCEPT !.array[lbase] = Nil, !.top = lbase + 1]

\* makes the parameter nil.
LEMMA NoArgumentKeeps ==
    ASSUME NEW rg, IsRegistry(rg), NEW lbase \in Nat, lbase <= rg.top, Fits(rg, lbase + 1)
    PROVE  /\ Keeps(rg, NoArgument(rg, lbase), lbase)
           /\ NoArgument(rg, lbase).top = lbase + 1
           /\ NoArgument(rg, lbase).array[lbase] = Nil
  <1> DEFINE r == checkSize(rg, lbase + 1)
             r2 == NoArgument(rg, lbase)
             a == [r.array EXCEPT ![lbase] = Nil]
  <1>1. Keeps(rg, r, rg.top) /\ Capacity(r) >= lbase + 1 /\ r.top = rg.top
    BY CheckSizeKeeps
  <1>2. IsRegistry(r)
    BY <1>1 DEF Keeps
  <1>3. r2 = [r EXCEPT !.array[lbase] = Nil, !.top = lbase + 1]
    BY DEF NoArgument
  <1> HIDE DEF r, r2
  <1>4. rg.top \in Nat /\ r.top \in Nat /\ Capacity(r) \in Nat /\ r.top <= Capacity(r)
        /\ DOMAIN r.array = 0 .. Capacity(r) - 1 /\ r.growBy \in Nat /\ r.maxSize \in Nat
    BY <1>1, <1>2 DEF IsRegistry
  <1>5. r2 = [array |-> a, top |-> lbase + 1, growBy |-> r.growBy, maxSize |-> r.maxSize]
    BY <1>2, <1>3 DEF IsRegistry
  <1>6. a \in [0 .. Capacity(r) - 1 -> Contents]
    BY <1>2 DEF IsRegistry, Contents
  <1>7. \A i \in Nat : i < lbase => a[i] = r.array[i]
    BY <1>1, <1>4
  <1>8. a[lbase] = Nil
    BY <1>1, <1>4
  <1> HIDE DEF a
  <1>9. r2 \in [array : [0 .. Capacity(r) - 1 -> Contents], top : 0 .. Capacity(r),
                growBy : Nat, maxSize : Nat]
    BY <1>1, <1>5, <1>6, <1>4
  <1>10. IsRegistry(r2) /\ Capacity(r2) = Capacity(r)
    BY <1>4, <1>9, RegistryMade
  <1>11. r.growBy = rg.growBy /\ r.maxSize = rg.maxSize /\ Capacity(r) >= Capacity(rg)
         /\ \A i \in Nat : i < rg.top => r.array[i] = rg.array[i]
    BY <1>1 DEF Keeps
  <1>12. r2.array = a /\ r2.top = lbase + 1 /\ r2.growBy = r.growBy /\ r2.maxSize = r.maxSize
    BY <1>5
  <1>13. r2.array = a /\ r2.top = lbase + 1 /\ r2.growBy = rg.growBy /\ r2.maxSize = rg.maxSize
    BY <1>11, <1>12
  <1>14. \A i \in Nat : i < lbase => i < rg.top
    BY <1>4
  <1>15. \A i \in Nat : i < lbase => r2.array[i] = rg.array[i]
    BY <1>7, <1>13, <1>11, <1>14, Zenon
  <1>16. Capacity(r2) >= Capacity(rg)
    BY <1>1, <1>10 DEF Keeps
  <1> QED
    BY <1>8, <1>10, <1>13, <1>15, <1>16 DEF Keeps, r2

\* A call is set up above lbase, its first variable is the parameter.
LEMMA InitCallFrameKeeps ==
    ASSUME NEW rg, IsRegistry(rg), NEW lbase \in Nat, NEW nargs \in Nat, NEW vararg \in BOOLEAN,
           NEW x \in Contents, lbase + nargs <= rg.top, nargs >= 1 => rg.array[lbase] = x,
           Fits(rg, lbase + nargs + 1 + FrameSize), NEW init,
           init = initCallFrame(rg, lbase, nargs, vararg)
    PROVE  /\ Keeps(rg, init.reg, lbase)
           /\ init.base \in Nat /\ init.base >= lbase
           /\ init.reg.top = init.base + FrameSize
           /\ init.reg.array[init.base] = ArgumentOr(nargs, x)
  <1> DEFINE empty == NoArgument(rg, lbase)
             given == IF nargs = 0 THEN empty ELSE rg
             n == IF nargs = 0 THEN 1 ELSE nargs
             y == ArgumentOr(nargs, x)
  <1>1. FrameSize \in Nat /\ FrameSize >= 2
    BY RegistersAssumption
  <1>2. n \in Nat /\ n >= 1 /\ rg.top \in Nat /\ y \in Contents /\ Nil \in Contents
    BY DEF IsRegistry, ArgumentOr, Contents
  <1>3. Keeps(rg, given, lbase) /\ given.top >= lbase + n /\ given.array[lbase] = y
    <2>1. CASE nargs = 0
      <3>1. Fits(rg, lbase + 1)
        BY <1>1, FitsLess
      <3>2. Keeps(rg, empty, lbase) /\ empty.top = lbase + 1 /\ empty.array[lbase] = Nil
        <4>1. lbase <= rg.top
          BY <1>2
        <4> QED
          BY <3>1, <4>1, NoArgumentKeeps
      <3> HIDE DEF empty
      <3> QED
        BY <2>1, <3>2 DEF ArgumentOr
    <2>2. CASE nargs # 0
      BY <2>2, <1>2 DEF Keeps, ArgumentOr, IsRegistry
    <2> QED
      BY <2>1, <2>2
  <1>4. IsRegistry(given) /\ given.top \in Nat
    BY <1>3 DEF Keeps, IsRegistry
  <1>5. lbase + n + FrameSize \in Nat /\ lbase + n + FrameSize <= lbase + nargs + 1 + FrameSize
    BY <1>1
  <1>6. Fits(given, lbase + n + FrameSize)
    <2> HIDE DEF given, n
    <2> QED
      BY <1>1, <1>3, <1>5, KeepsFits
  <1>7. CASE vararg
    <2> DEFINE room == SetTop(given, lbase + n + 1)
               swapped == [room EXCEPT !.array[lbase + n] = room.array[lbase], !.array[lbase] = Nil]
               final == SetTop(swapped, lbase + n + FrameSize)
    <2>1. init = [reg |-> final, base |-> lbase + n]
      BY <1>7 DEF initCallFrame, NoArgument
    <2> HIDE DEF given, n, y
    <2>2. Fits(given, lbase + n + 1)
      BY <1>1, <1>2, <1>4, <1>6, FitsLess
    <2>3. /\ Keeps(given, room, lbase + n) /\ Capacity(room) >= lbase + n + 1
          /\ room.top = lbase + n + 1
      <3>1. lbase + n \in Nat /\ lbase + n + 1 \in Nat /\ lbase + n <= lbase + n + 1
            /\ lbase + n <= given.top
        BY <1>2, <1>3
      <3> QED
        BY <1>4, <2>2, <3>1, SetTopKeeps
    <2>4. IsRegistry(room) /\ Capacity(room) \in Nat /\ DOMAIN room.array = 0 .. Capacity(room) - 1
      BY <2>3 DEF Keeps, IsRegistry
    <2>5. room.array[lbase] = y
      BY <1>2, <1>3, <2>3 DEF Keeps
    <2> HIDE DEF room
    <2> DEFINE a == [[room.array EXCEPT ![lbase + n] = room.array[lbase]] EXCEPT ![lbase] = Nil]
    <2>6. swapped = [array |-> a, top |-> lbase + n + 1, growBy |-> room.growBy,
                     maxSize |-> room.maxSize]
      <3>1. room = [array |-> room.array, top |-> lbase + n + 1, growBy |-> room.growBy,
                    maxSize |-> room.maxSize]
        BY <2>3, <2>4 DEF IsRegistry
      <3>2. swapped = [[array |-> room.array, top |-> lbase + n + 1, growBy |-> room.growBy,
                        maxSize |-> room.maxSize]
                       EXCEPT !.array[lbase + n] = room.array[lbase], !.array[lbase] = Nil]
        BY <3>1, Zenon
      <3> HIDE DEF swapped
      <3> QED
        BY <3>2
    <2>7. a \in [0 .. Capacity(room) - 1 -> Contents]
      BY <1>2, <2>4, <2>5 DEF IsRegistry
    <2>8. /\ \A i \in Nat : i < lbase => a[i] = room.array[i]
          /\ a[lbase + n] = y
      BY <1>2, <2>3, <2>4, <2>5
    <2> HIDE DEF swapped, a
    <2>9. swapped \in [array : [0 .. Capacity(room) - 1 -> Contents], top : 0 .. Capacity(room),
                       growBy : Nat, maxSize : Nat]
      <3>1. room.growBy \in Nat /\ room.maxSize \in Nat /\ lbase + n + 1 \in 0 .. Capacity(room)
        BY <1>2, <2>3, <2>4 DEF IsRegistry
      <3> QED
        BY <2>6, <2>7, <3>1
    <2>10. IsRegistry(swapped) /\ Capacity(swapped) = Capacity(room)
      BY <2>4, <2>9, RegistryMade
    <2>11. Keeps(room, swapped, lbase)
      BY <2>4, <2>6, <2>8, <2>10 DEF Keeps
    <2>12. Keeps(given, swapped, lbase)
      BY <1>2, <1>4, <2>3, <2>11, KeepsTrans
    <2>13. Fits(swapped, lbase + n + FrameSize)
      BY <1>4, <1>5, <1>6, <2>12, KeepsFits
    <2>14. /\ Keeps(swapped, final, lbase + n + 1)
           /\ final.top = lbase + n + FrameSize
      <3>1. lbase + n + 1 \in Nat /\ lbase + n + FrameSize \in Nat
            /\ lbase + n + 1 <= lbase + n + FrameSize /\ lbase + n + 1 <= swapped.top
        BY <1>1, <1>2, <2>6
      <3> QED
        BY <2>10, <2>13, <3>1, SetTopKeeps
    <2> HIDE DEF final
    <2>15. final.array[lbase + n] = y
      BY <1>2, <2>6, <2>8, <2>14 DEF Keeps
    <2>16. Keeps(given, final, lbase)
      BY <1>2, <1>4, <2>12, <2>14, KeepsTrans
    <2>17. Keeps(rg, final, lbase)
      BY <1>3, <2>16, KeepsTrans
    <2> QED
      BY <1>1, <1>2, <2>1, <2>14, <2>15, <2>17 DEF y
  <1>8. CASE ~vararg
    <2> DEFINE need == IF n < FrameSize THEN FrameSize ELSE n
               sized == checkSize(given, lbase + need)
               a == [i \in DOMAIN sized.array |->
                        IF i \in lbase + 1 .. lbase + need - 1 THEN Nil ELSE sized.array[i]]
               plain == [sized EXCEPT !.array = a, !.top = lbase + FrameSize]
    <2>1. init = [reg |-> plain, base |-> lbase]
      BY <1>8 DEF initCallFrame, NoArgument
    <2>2. need \in Nat /\ need >= FrameSize /\ need >= n
          /\ lbase + need <= lbase + n + FrameSize
      BY <1>1, <1>2
    <2> HIDE DEF given, n, y, need
    <2>3. Fits(given, lbase + need)
      BY <1>1, <1>2, <1>4, <1>5, <1>6, <2>2, FitsLess
    <2>4. Keeps(given, sized, given.top) /\ Capacity(sized) >= lbase + need
      BY <1>4, <2>2, <2>3, CheckSizeKeeps
    <2> HIDE DEF sized
    <2>5. IsRegistry(sized) /\ Capacity(sized) \in Nat /\ DOMAIN sized.array = 0 .. Capacity(sized) - 1
      BY <2>4 DEF Keeps, IsRegistry
    <2>6. sized.array[lbase] = y
      BY <1>2, <1>3, <1>4, <2>4 DEF Keeps
    <2>7. plain = [array |-> a, top |-> lbase + FrameSize, growBy |-> sized.growBy,
                   maxSize |-> sized.maxSize]
      <3> HIDE DEF a
      <3>1. sized = [array |-> sized.array, top |-> sized.top, growBy |-> sized.growBy,
                     maxSize |-> sized.maxSize]
        BY <2>5 DEF IsRegistry
      <3>2. plain = [[array |-> sized.array, top |-> sized.top, growBy |-> sized.growBy,
                      maxSize |-> sized.maxSize]
                     EXCEPT !.array = a, !.top = lbase + FrameSize]
        BY <3>1, Zenon
      <3> HIDE DEF plain
      <3> QED
        BY <3>2
    <2>8. a \in [0 .. Capacity(sized) - 1 -> Contents]
      BY <2>5 DEF IsRegistry, Contents
    <2>9. /\ \A i \in Nat : i < lbase => a[i] = sized.array[i]
          /\ a[lbase] = y
      BY <1>1, <2>2, <2>4, <2>5, <2>6
    <2> HIDE DEF plain, a
    <2>10. plain \in [array : [0 .. Capacity(sized) - 1 -> Contents], top : 0 .. Capacity(sized),
                      growBy : Nat, maxSize : Nat]
      <3>1. sized.growBy \in Nat /\ sized.maxSize \in Nat
        BY <2>5 DEF IsRegistry
      <3>2. lbase + FrameSize \in 0 .. Capacity(sized)
        BY <1>1, <2>2, <2>4, <2>5
      <3> QED
        BY <2>7, <2>8, <3>1, <3>2
    <2>11. IsRegistry(plain) /\ Capacity(plain) = Capacity(sized)
      BY <2>5, <2>10, RegistryMade
    <2>12. Keeps(sized, plain, lbase)
      BY <2>5, <2>7, <2>9, <2>11 DEF Keeps
    <2>13. Keeps(given, plain, lbase)
      BY <1>2, <1>3, <1>4, <2>4, <2>12, KeepsTrans
    <2>14. Keeps(rg, plain, lbase)
      BY <1>3, <2>13, KeepsTrans
    <2>15. plain.array[lbase] = y /\ plain.top = lbase + FrameSize
      BY <2>7, <2>9
    <2> QED
      BY <2>1, <2>14, <2>15 DEF y
  <1> QED
    BY <1>7, <1>8

\* A call at ra: the registry and the base are those of init.
SetsUp(rg, ra, nargs, x, vararg, init) ==
    init = initCallFrame(Arguments(rg, ra, nargs, x), ra + 1, nargs, vararg)
\* It keeps what is below ra.
LEMMA SetUpKeeps ==
    ASSUME NEW rg, IsRegistry(rg), NEW ra \in Nat, ra <= rg.top, NEW nargs \in Nat, NEW x \in Contents,
           NEW vararg \in BOOLEAN, Fits(rg, NeedOf(ra, nargs)), NEW init,
           SetsUp(rg, ra, nargs, x, vararg, init)
    PROVE  /\ Keeps(rg, init.reg, ra)
           /\ init.base \in Nat /\ init.base > ra
           /\ init.reg.top = init.base + FrameSize
           /\ init.reg.array[init.base] = ArgumentOr(nargs, x)
  <1> DEFINE r == Arguments(rg, ra, nargs, x)
  <1>1. FrameSize \in Nat /\ FrameSize >= 2
    BY RegistersAssumption
  <1>2. Fits(rg, ra + nargs + 1)
    BY <1>1, FitsLess DEF NeedOf
  <1>3. Keeps(rg, r, ra) /\ r.top >= ra + nargs + 1 /\ (nargs >= 1 => r.array[ra + 1] = x)
    BY <1>2, ArgumentsKeeps
  <1> HIDE DEF r
  <1>4. IsRegistry(r) /\ r.top \in Nat
    BY <1>3 DEF Keeps, IsRegistry
  <1>5. Fits(r, (ra + 1) + nargs + 1 + FrameSize)
    BY <1>1, <1>3, KeepsFits DEF NeedOf
  <1>6. ra + 1 \in Nat /\ (ra + 1) + nargs <= r.top
    BY <1>3, <1>4
  <1>7. init = initCallFrame(r, ra + 1, nargs, vararg)
    BY DEF r, SetsUp
  <1>8. /\ Keeps(r, init.reg, ra + 1)
        /\ init.base \in Nat /\ init.base >= ra + 1
        /\ init.reg.top = init.base + FrameSize
        /\ init.reg.array[init.base] = ArgumentOr(nargs, x)
    BY <1>3, <1>4, <1>5, <1>6, <1>7, InitCallFrameKeeps
  <1>9. Keeps(rg, init.reg, ra)
    <2>1. ra + 1 \in Nat /\ ra <= ra /\ ra <= ra + 1
      OBVIOUS
    <2> QED
      BY <1>3, <1>8, <2>1, KeepsTrans
  <1> QED
    BY <1>8, <1>9

\* The registry after a return to register ret, from a frame at base,
Answer(rg, ret, base) == Set(CopyRange(rg, ret, base, 1), ret, Nil)
\* and after pcall has put true before the result.
PcallAnswer(rg, ret, base, gret) == Set(Set(Answer(rg, ret, base), gret, Nil), gret + 1, Nil)

\* A return keeps what is below ret.
LEMMA AnswerKeeps ==
    ASSUME NEW rg, IsRegistry(rg), NEW ret \in Nat, NEW base \in Nat, ret < base, base <= rg.top
    PROVE  /\ Keeps(rg, Answer(rg, ret, base), ret)
           /\ Answer(rg, ret, base).top = ret + 1
  <1> DEFINE r == CopyRange(rg, ret, base, 1)
  <1>1. rg.top \in Nat /\ Capacity(rg) \in Nat /\ rg.top <= Capacity(rg) /\ Nil \in Contents
    BY DEF IsRegistry, Contents
  <1>2. Keeps(rg, r, ret) /\ r.top = ret + 1 /\ Capacity(r) = Capacity(rg)
    <2>1. MayCopy(rg, ret, base, 1)
      BY <1>1 DEF MayCopy
    <2>2. IsCopied(rg, ret, base, 1, r)
      BY <2>1, CopyRangeKeeps
    <2> QED
      BY <2>2 DEF IsCopied
  <1> HIDE DEF r
  <1>3. IsRegistry(r) /\ Fits(r, ret + 1)
    BY <1>1, <1>2 DEF Keeps, Fits
  <1>4. Keeps(r, Set(r, ret, Nil), ret) /\ Set(r, ret, Nil).top = ret + 1
    <2>1. ret <= r.top /\ ret >= ret /\ ~(ret >= r.top)
      BY <1>2
    <2> QED
      BY <1>1, <1>2, <1>3, <2>1, SetKeeps
  <1>5. Keeps(rg, Set(r, ret, Nil), ret)
    BY <1>2, <1>4, KeepsTrans
  <1> QED
    BY <1>4, <1>5 DEF Answer, r

\* Two results of pcall at n, below the top.
LEMMA TwoKeep ==
    ASSUME NEW rg, IsRegistry(rg), NEW n \in Nat, n + 2 <= rg.top
    PROVE  /\ Keeps(rg, Set(Set(rg, n, Nil), n + 1, Nil), n)
           /\ Set(Set(rg, n, Nil), n + 1, Nil).top = rg.top
  <1> DEFINE r == Set(rg, n, Nil)
             r2 == Set(r, n + 1, Nil)
  <1>1. rg.top \in Nat /\ Capacity(rg) \in Nat /\ rg.top <= Capacity(rg) /\ Nil \in Contents
    BY DEF IsRegistry, Contents
  <1>2. Fits(rg, n + 1) /\ n <= rg.top /\ ~(n >= rg.top) /\ n >= n
    BY <1>1 DEF Fits
  <1>3. Keeps(rg, r, n) /\ r.top = rg.top
    BY <1>1, <1>2, SetKeeps
  <1> HIDE DEF r
  <1>4. IsRegistry(r) /\ Fits(r, (n + 1) + 1) /\ n <= r.top /\ ~(n + 1 >= r.top) /\ n + 1 >= n
        /\ n + 1 \in Nat
    BY <1>1, <1>3 DEF Fits, Keeps, IsRegistry
  <1>5. Keeps(r, r2, n) /\ r2.top = r.top
    BY <1>1, <1>4, SetKeeps
  <1>6. Keeps(rg, r2, n)
    BY <1>3, <1>5, KeepsTrans
  <1> QED
    BY <1>3, <1>5, <1>6 DEF r

\* A return through pcall.
LEMMA PcallAnswerKeeps ==
    ASSUME NEW rg, IsRegistry(rg), NEW ret \in Nat, NEW base \in Nat, ret < base, base <= rg.top,
           NEW gret \in Nat, gret + 1 = ret
    PROVE  /\ Keeps(rg, PcallAnswer(rg, ret, base, gret), gret)
           /\ PcallAnswer(rg, ret, base, gret).top = ret + 1
  <1> DEFINE r == Answer(rg, ret, base)
  <1>1. Keeps(rg, r, ret) /\ r.top = ret + 1
    BY AnswerKeeps
  <1> HIDE DEF r
  <1>2. IsRegistry(r) /\ gret + 2 <= r.top
    BY <1>1 DEF Keeps
  <1>3. Keeps(r, Set(Set(r, gret, Nil), gret + 1, Nil), gret)
        /\ Set(Set(r, gret, Nil), gret + 1, Nil).top = r.top
    BY <1>2, TwoKeep
  <1>4. Keeps(rg, Set(Set(r, gret, Nil), gret + 1, Nil), gret)
    <2>1. gret <= ret /\ gret <= gret
      OBVIOUS
    <2> QED
      BY <1>1, <1>3, <2>1, KeepsTrans
  <1> QED
    BY <1>1, <1>3, <1>4 DEF PcallAnswer, r

\* pcallFailed keeps what is below the frame of pcall,
LEMMA PcallFailedKeeps ==
    ASSUME NEW rg, IsRegistry(rg), NEW g, g.base \in Nat, g.ret \in Nat, g.ret + 1 = g.base,
           g.base + 2 <= rg.top
    PROVE  /\ Keeps(rg, pcallFailed(rg, g), g.ret)
           /\ pcallFailed(rg, g).top = g.ret + 2
  <1> DEFINE b == g.base
             r1 == SetTop(rg, b)
             r2 == Set(r1, b, Nil)
             r3 == Set(r2, b + 1, Nil)
             r4 == CopyRange(r3, g.ret, b, 2)
  <1>1. rg.top \in Nat /\ Capacity(rg) \in Nat /\ rg.top <= Capacity(rg) /\ Nil \in Contents
    BY DEF IsRegistry, Contents
  <1>2. Fits(rg, b) /\ Fits(rg, b + 2) /\ b + 2 \in Nat /\ b <= b /\ b <= rg.top /\ b + 1 <= b + 2
    BY <1>1 DEF Fits
  <1>3. Keeps(rg, r1, b) /\ r1.top = b
    BY <1>2, SetTopKeeps
  <1> HIDE DEF r1
  <1>4. IsRegistry(r1) /\ Fits(r1, b + 1) /\ b >= b /\ b <= r1.top
    <2>1. IsRegistry(r1) /\ Capacity(r1) >= Capacity(rg)
      BY <1>3 DEF Keeps
    <2>2. Capacity(r1) \in Nat
      BY <2>1 DEF IsRegistry
    <2> QED
      BY <1>1, <1>3, <2>1, <2>2 DEF Fits
  <1>5. Keeps(r1, r2, b) /\ r2.top = b + 1
    BY <1>1, <1>3, <1>4, SetKeeps
  <1> HIDE DEF r2
  <1>6. IsRegistry(r2) /\ Fits(r2, (b + 1) + 1) /\ b + 1 >= b /\ b <= r2.top /\ b + 1 \in Nat
    <2>1. IsRegistry(r2) /\ Capacity(r2) >= Capacity(r1) /\ Capacity(r1) >= Capacity(rg)
      BY <1>3, <1>5 DEF Keeps
    <2>2. Capacity(r1) \in Nat /\ Capacity(r2) \in Nat
      BY <1>4, <2>1 DEF IsRegistry
    <2> QED
      BY <1>1, <1>5, <2>1, <2>2 DEF Fits
  <1>7. Keeps(r2, r3, b) /\ r3.top = b + 2
    <2>1. Keeps(r2, r3, b) /\ r3.top = IF b + 1 >= r2.top THEN b + 1 + 1 ELSE r2.top
      BY <1>1, <1>6, SetKeeps
    <2> QED
      BY <1>5, <2>1
  <1> HIDE DEF r3
  <1>8. IsRegistry(r3) /\ g.ret + 2 <= Capacity(r3) /\ g.ret <= r3.top /\ 2 \in Nat
    <2>1. IsRegistry(r3)
      BY <1>7 DEF Keeps
    <2>2. Capacity(r3) \in Nat /\ r3.top <= Capacity(r3)
      BY <2>1 DEF IsRegistry
    <2> QED
      BY <1>7, <2>1, <2>2
  <1>9. Keeps(r3, r4, g.ret) /\ r4.top = g.ret + 2
    <2>1. MayCopy(r3, g.ret, b, 2)
      BY <1>1, <1>8 DEF MayCopy
    <2>2. IsCopied(r3, g.ret, b, 2, r4)
      BY <2>1, CopyRangeKeeps
    <2> QED
      BY <2>2 DEF IsCopied
  <1> HIDE DEF r4
  <1>10. Keeps(rg, r2, b)
    BY <1>2, <1>3, <1>5, KeepsTrans
  <1>11. Keeps(rg, r3, b)
    BY <1>2, <1>7, <1>10, KeepsTrans
  <1>12. Keeps(rg, r4, g.ret)
    BY <1>9, <1>11, KeepsTrans
  <1>13. pcallFailed(rg, g) = r4
    BY DEF pcallFailed, r1, r2, r3, r4
  <1> QED
    BY <1>9, <1>12, <1>13

\* and so does handleProtectedError.
LEMMA HandleProtectedErrorKeeps ==
    ASSUME NEW rg, IsRegistry(rg), NEW g, g.ret \in Nat, g.ret + 2 <= rg.top
    PROVE  /\ Keeps(rg, handleProtectedError(rg, g), g.ret)
           /\ handleProtectedError(rg, g).top = rg.top
  <1> DEFINE r == Set(Set(rg, g.ret, Nil), g.ret + 1, Nil)
  <1>1. Keeps(rg, r, g.ret) /\ r.top = rg.top
    BY TwoKeep
  <1> HIDE DEF r
  <1>2. IsRegistry(r) /\ g.ret <= r.top
    BY <1>1 DEF Keeps, IsRegistry
  <1>3. Keeps(r, Temporary(r, g.ret), g.ret) /\ Temporary(r, g.ret).top = r.top
    BY <1>2, TemporaryKeeps
  <1>4. Keeps(rg, Temporary(r, g.ret), g.ret)
    BY <1>1, <1>3, KeepsTrans
  <1> QED
    BY <1>1, <1>3, <1>4 DEF handleProtectedError, r

\* A new registry is one.
LEMMA NewRegistryOk ==
    ASSUME NEW o \in Options
    PROVE  IsRegistry(newRegistry(o)) /\ newRegistry(o).top = 0
  <1>1. o.RegistrySize \in Nat /\ o.RegistryGrowStep \in Nat /\ o.RegistryMaxSize \in Nat
    BY RegistersAssumption
  <1>2. newRegistry(o) \in [array : [0 .. o.RegistrySize - 1 -> Contents],
                            top : 0 .. o.RegistrySize, growBy : Nat, maxSize : Nat]
    BY <1>1 DEF newRegistry, Contents
  <1>3. IsRegistry(newRegistry(o))
    BY <1>1, <1>2, RegistryMade
  <1> QED
    BY <1>3 DEF newRegistry

-----------------------------------------------------------------------------
(* What each kind of step does to the variables.                           *)

\* w is a variable in a register or in a closure.
IsUsed(w, H, C) ==
    \/ \E c \in Closures : C[c] # None /\ C[c].var = w
    \/ \E t \in Threads : \E p \in H[t] : p[2] = w

\* Registers without variables do not matter, nor do forgotten variables.
LEMMA BoundAgree ==
    ASSUME NEW H, NEW A, NEW Q, NEW U, NEW C, NEW S, Bound(H, A, Q, U, C, S), NEW A2, NEW S2,
           \A t \in Threads : \A p \in H[t] : A2[t][p[1]] = A[t][p[1]],
           \A w : IsUsed(w, H, C) => S2[w] = S[w]
    PROVE  Bound(H, A2, Q, U, C, S2)
  BY DEF Bound, Kept, IsUsed

\* A variable in a register is assigned.
LEMMA BoundAssign ==
    ASSUME NEW H, NEW A, NEW Q, NEW U, NEW C, NEW S, Bound(H, A, Q, U, C, S), NEW A2, NEW S2,
           NEW t \in Threads, NEW p \in H[t], NEW x,
           \A s \in Threads : \A q \in H[s] :
               A2[s][q[1]] = IF s = t /\ q[1] = p[1] THEN x ELSE A[s][q[1]],
           \A w : IsUsed(w, H, C) => S2[w] = IF w = p[2] THEN x ELSE S[w]
    PROVE  Bound(H, A2, Q, U, C, S2)
  <1>1. ASSUME NEW s \in Threads, NEW q \in H[s] PROVE A2[s][q[1]] = S2[q[2]]
    <2>1. IsUsed(q[2], H, C)
      BY DEF IsUsed
    <2>2. s = t /\ q[1] = p[1] <=> q[2] = p[2]
      BY DEF Bound, Once
    <2>3. A[s][q[1]] = S[q[2]]
      BY DEF Bound, Kept
    <2> QED
      BY <2>1, <2>2, <2>3
  <1>2. ASSUME NEW c \in Closures, C[c] # None, U[C[c].uv].closed
        PROVE  U[C[c].uv].value = S2[C[c].var]
    <2>1. IsUsed(C[c].var, H, C)
      BY <1>2 DEF IsUsed
    <2>2. C[c].uv \in Upvals /\ U[C[c].uv] # None
      BY <1>2 DEF Bound, Holding
    <2>3. U[C[c].uv].reg = None
      BY <1>2, <2>2 DEF Bound, Objects
    <2>4. C[c].var # p[2]
      BY <1>2, <2>3, RegistersAssumption DEF Bound, Attached
    <2>5. U[C[c].uv].value = S[C[c].var]
      BY <1>2 DEF Bound, Kept
    <2> QED
      BY <2>1, <2>4, <2>5
  <1>3. Kept(H, A2, U, C, S2)
    BY <1>1, <1>2 DEF Kept
  <1> QED
    BY <1>3 DEF Bound

\* Upvalue u gets value x:
SetValue(U, u, x, U2) == U2 = [U EXCEPT ![u].value = x]

\* it is closed, and its variable is assigned.
LEMMA BoundSetClosed ==
    ASSUME NEW H, NEW A, NEW Q, NEW U, NEW C, NEW S, Bound(H, A, Q, U, C, S), NEW U2, NEW S2,
           NEW c \in Closures, C[c] # None, U[C[c].uv].closed, NEW x \in Contents,
           SetValue(U, C[c].uv, x, U2),
           \A w : IsUsed(w, H, C) => S2[w] = IF w = C[c].var THEN x ELSE S[w]
    PROVE  Bound(H, A, Q, U2, C, S2)
  <1> DEFINE u == C[c].uv
             v == C[c].var
             UR == [reg : Threads \cup {None}, index : Nat, closed : BOOLEAN, value : Contents]
  <1>1. u \in Upvals /\ U[u] # None /\ U[u] \in UR /\ U[u].reg = None
    BY DEF Bound, Holding, Objects
  <1>2. U2[u] = [U[u] EXCEPT !.value = x] /\ \A w \in Upvals : w # u => U2[w] = U[w]
    BY <1>1 DEF Bound, Objects, SetValue
  <1>3. U2[u] \in UR /\ U2[u].reg = U[u].reg /\ U2[u].index = U[u].index /\ U2[u].closed = U[u].closed
        /\ U2[u].value = x
    <2>1. [U[u] EXCEPT !.value = x] \in UR
          /\ [U[u] EXCEPT !.value = x].reg = U[u].reg
          /\ [U[u] EXCEPT !.value = x].index = U[u].index
          /\ [U[u] EXCEPT !.value = x].closed = U[u].closed
          /\ [U[u] EXCEPT !.value = x].value = x
      <3> HIDE DEF u
      <3> QED
        BY <1>1
    <2> QED
      BY <1>2, <2>1
  <1>4. U2[u] # None
    BY <1>3, RegistersAssumption
  <1>5. \A w \in Upvals : /\ U2[w] # None <=> U[w] # None
                          /\ U[w] # None => U2[w].reg = U[w].reg /\ U2[w].index = U[w].index
                                            /\ U2[w].closed = U[w].closed
    BY <1>1, <1>2, <1>3, <1>4
  <1>6. Objects(U2)
    <2>1. U2 \in [Upvals -> UR \cup {None}]
      <3>1. \A w \in Upvals : U2[w] \in UR \cup {None}
        BY <1>2, <1>3 DEF Bound, Objects
      <3>2. U2 = [w \in Upvals |-> U2[w]]
        BY DEF Bound, Objects, SetValue
      <3> QED
        BY <3>1, <3>2
    <2> QED
      BY <2>1, <1>5 DEF Bound, Objects
  <1> HIDE DEF u, v, UR
  <1>7. Holding(U2, C)
    <2>1. ASSUME NEW d \in Closures, C[d] # None PROVE U2[C[d].uv] # None
      <3>1. C[d].uv \in Upvals /\ U[C[d].uv] # None
        BY <2>1 DEF Bound, Holding
      <3> QED
        BY <1>5, <3>1
    <2> QED
      BY <2>1 DEF Bound, Holding
  <1>8. Attached(H, U2, C)
    <2>1. ASSUME NEW t \in Threads, NEW p \in H[t], NEW d \in Closures, C[d] # None, C[d].var = p[2]
          PROVE  U2[C[d].uv].reg = t /\ U2[C[d].uv].index = p[1]
      <3>1. C[d].uv \in Upvals /\ U[C[d].uv] # None
        BY <2>1 DEF Bound, Holding
      <3>2. U[C[d].uv].reg = t /\ U[C[d].uv].index = p[1]
        BY <2>1 DEF Bound, Attached
      <3> QED
        BY <1>5, <3>1, <3>2
    <2> QED
      BY <2>1 DEF Attached
  <1>9. \A t \in Threads : \A i \in DOMAIN Q[t] : Q[t][i] \in Upvals /\ U[Q[t][i]] # None
    <2>1. \A t \in Threads : Q[t] \in Seq(Upvals)
      BY DEF Bound, Listed
    <2>2. \A t \in Threads : \A i \in DOMAIN Q[t] : Q[t][i] \in Upvals
      BY <2>1
    <2> QED
      BY <2>2 DEF Bound, Placed, OnVariable
  <1>10. Listed(Q, U2)
    <2> SUFFICES ASSUME NEW t \in Threads
                 PROVE  /\ Q[t] \in Seq(Upvals)
                        /\ \A i, j \in DOMAIN Q[t] : i < j => U2[Q[t][i]].index < U2[Q[t][j]].index
                        /\ \A w \in Upvals : U2[w] # None /\ U2[w].reg = t => Contains(Q[t], w)
      BY DEF Listed
    <2>1. \A i \in DOMAIN Q[t] : U2[Q[t][i]].index = U[Q[t][i]].index
      BY <1>5, <1>9
    <2>2. Q[t] \in Seq(Upvals) /\ \A i, j \in DOMAIN Q[t] : i < j => U[Q[t][i]].index < U[Q[t][j]].index
      BY DEF Bound, Listed
    <2>3. \A w \in Upvals : U[w] # None /\ U[w].reg = t => Contains(Q[t], w)
      BY DEF Bound, Listed
    <2> QED
      BY <1>5, <2>1, <2>2, <2>3
  <1>11. Placed(H, Q, U2, C)
    <2> SUFFICES ASSUME NEW t \in Threads, NEW i \in DOMAIN Q[t]
                 PROVE  OnVariable(t, Q[t][i], H, U2, C)
      BY DEF Placed
    <2>1. OnVariable(t, Q[t][i], H, U, C)
      BY DEF Bound, Placed
    <2> QED
      BY <1>5, <1>9, <2>1 DEF OnVariable
  <1>12. Kept(H, A, U2, C, S2)
    <2>1. ASSUME NEW t \in Threads, NEW p \in H[t] PROVE A[t][p[1]] = S2[p[2]]
      <3>1. IsUsed(p[2], H, C)
        BY DEF IsUsed
      <3>2. p[2] # C[c].var
        BY <1>1, RegistersAssumption DEF Bound, Attached, u
      <3>3. A[t][p[1]] = S[p[2]]
        BY DEF Bound, Kept
      <3> QED
        BY <3>1, <3>2, <3>3
    <2>2. ASSUME NEW d \in Closures, C[d] # None, U2[C[d].uv].closed
          PROVE  U2[C[d].uv].value = S2[C[d].var]
      <3>1. IsUsed(C[d].var, H, C)
        BY <2>2 DEF IsUsed
      <3>2. C[d].uv = u <=> C[d].var = C[c].var
        BY <2>2 DEF Bound, Holding, u
      <3>3. C[d].uv \in Upvals /\ U[C[d].uv] # None
        BY <2>2 DEF Bound, Holding
      <3>4. CASE C[d].uv = u
        BY <1>3, <3>1, <3>2, <3>4
      <3>5. CASE C[d].uv # u
        <4>1. U2[C[d].uv] = U[C[d].uv]
          BY <1>2, <3>3, <3>5
        <4>2. U[C[d].uv].value = S[C[d].var]
          BY <2>2, <4>1 DEF Bound, Kept
        <4> QED
          BY <3>1, <3>2, <3>5, <4>1, <4>2
      <3> QED
        BY <3>4, <3>5
    <2> QED
      BY <2>1, <2>2 DEF Kept
  <1> QED
    BY <1>6, <1>7, <1>8, <1>10, <1>11, <1>12 DEF Bound

\* A new variable takes a register.
LEMMA BoundAdd ==
    ASSUME NEW H, NEW A, NEW Q, NEW U, NEW C, NEW S, Bound(H, A, Q, U, C, S), NEW H2, NEW A2, NEW S2,
           NEW t \in Threads, NEW r, NEW v, NEW x,
           H2[t] = H[t] \cup {<<r, v>>}, \A s \in Threads : s # t => H2[s] = H[s],
           \A p \in H[t] : p[1] # r,
           ~IsUsed(v, H, C),
           A2[t][r] = x, \A s \in Threads : \A p \in H[s] : A2[s][p[1]] = A[s][p[1]],
           \A w : IsUsed(w, H2, C) => S2[w] = IF w = v THEN x ELSE S[w]
    PROVE  Bound(H2, A2, Q, U, C, S2)
  <1> DEFINE new == <<r, v>>
  <1>1. new[1] = r /\ new[2] = v
    OBVIOUS
  <1>2. \A s \in Threads : \A p \in H2[s] : p \in H[s] \/ (s = t /\ p = new)
    OBVIOUS
  <1>3. \A s \in Threads : \A p \in H[s] : p \in H2[s]
    OBVIOUS
  <1>4. \A s \in Threads : \A p \in H[s] : p[2] # v
    BY DEF IsUsed
  <1>5. \A c \in Closures : C[c] # None => C[c].var # v
    BY DEF IsUsed
  <1> HIDE DEF new
  <1>6. Once(H2)
    <2>1. ASSUME NEW s \in Threads, NEW p \in H2[s], NEW q \in H2[s]
          PROVE  p[1] = q[1] <=> p[2] = q[2]
      BY <1>1, <1>2, <1>4 DEF Bound, Once
    <2>2. ASSUME NEW s \in Threads, NEW z \in Threads, NEW p \in H2[s], NEW q \in H2[z], p[2] = q[2]
          PROVE  s = z
      BY <1>1, <1>2, <1>4, <2>2 DEF Bound, Once
    <2> QED
      BY <2>1, <2>2 DEF Once
  <1>7. Attached(H2, U, C)
    <2>1. ASSUME NEW s \in Threads, NEW p \in H2[s], NEW c \in Closures, C[c] # None, C[c].var = p[2]
          PROVE  U[C[c].uv].reg = s /\ U[C[c].uv].index = p[1]
      BY <1>1, <1>2, <1>5, <2>1 DEF Bound, Attached
    <2> QED
      BY <2>1 DEF Attached
  <1>8. Placed(H2, Q, U, C)
    <2> SUFFICES ASSUME NEW s \in Threads, NEW i \in DOMAIN Q[s]
                 PROVE  OnVariable(s, Q[s][i], H2, U, C)
      BY DEF Placed
    <2>1. OnVariable(s, Q[s][i], H, U, C)
      BY DEF Bound, Placed
    <2> QED
      BY <1>3, <2>1 DEF OnVariable
  <1>9. Kept(H2, A2, U, C, S2)
    <2>1. ASSUME NEW s \in Threads, NEW p \in H2[s] PROVE A2[s][p[1]] = S2[p[2]]
      <3>1. IsUsed(p[2], H2, C)
        BY DEF IsUsed
      <3>2. CASE p \in H[s]
        <4>1. A[s][p[1]] = S[p[2]]
          BY <3>2 DEF Bound, Kept
        <4> QED
          BY <1>4, <3>1, <3>2, <4>1
      <3>3. CASE s = t /\ p = new
        BY <1>1, <3>1, <3>3
      <3> QED
        BY <1>2, <3>2, <3>3
    <2>2. ASSUME NEW c \in Closures, C[c] # None, U[C[c].uv].closed
          PROVE  U[C[c].uv].value = S2[C[c].var]
      <3>1. IsUsed(C[c].var, H2, C)
        BY <2>2 DEF IsUsed
      <3>2. U[C[c].uv].value = S[C[c].var]
        BY <2>2 DEF Bound, Kept
      <3> QED
        BY <1>5, <2>2, <3>1, <3>2
    <2> QED
      BY <2>1, <2>2 DEF Kept
  <1> QED
    BY <1>6, <1>7, <1>8, <1>9 DEF Bound

\* A closure takes the upvalue of another.
LEMMA BoundInherit ==
    ASSUME NEW H, NEW A, NEW Q, NEW U, NEW C, NEW S, Bound(H, A, Q, U, C, S), NEW C2,
           NEW c \in Closures, NEW d \in Closures, C[c] # None, C[d] = None,
           C2 = [C EXCEPT ![d] = C[c]]
    PROVE  Bound(H, A, Q, U, C2, S)
  <1>1. C2[d] = C[c] /\ \A e \in Closures : e # d => C2[e] = C[e]
    BY DEF Bound, Holding
  <1>2. \A e \in Closures : C2[e] # None => \E f \in Closures : C[f] # None /\ C2[e] = C[f]
    BY <1>1
  <1>3. C2 \in [Closures -> [uv : Upvals, var : Names] \cup {None}]
    BY DEF Bound, Holding
  <1>4. Holding(U, C2)
    <2>1. \A e \in Closures : C2[e] # None => U[C2[e].uv] # None
      BY <1>2 DEF Bound, Holding
    <2>2. ASSUME NEW e \in Closures, NEW f \in Closures, C2[e] # None, C2[f] # None
          PROVE  C2[e].uv = C2[f].uv <=> C2[e].var = C2[f].var
      <3>1. PICK e2 \in Closures : C[e2] # None /\ C2[e] = C[e2]
        BY <1>2, <2>2
      <3>2. PICK f2 \in Closures : C[f2] # None /\ C2[f] = C[f2]
        BY <1>2, <2>2
      <3>3. C[e2].uv = C[f2].uv <=> C[e2].var = C[f2].var
        BY <3>1, <3>2 DEF Bound, Holding
      <3> QED
        BY <3>1, <3>2, <3>3
    <2> QED
      BY <1>3, <2>1, <2>2 DEF Holding
  <1>5. Attached(H, U, C2)
    <2>1. ASSUME NEW t \in Threads, NEW p \in H[t], NEW e \in Closures, C2[e] # None, C2[e].var = p[2]
          PROVE  U[C2[e].uv].reg = t /\ U[C2[e].uv].index = p[1]
      BY <1>2, <2>1 DEF Bound, Attached
    <2> QED
      BY <2>1 DEF Attached
  <1>6. Placed(H, Q, U, C2)
    <2> SUFFICES ASSUME NEW t \in Threads, NEW i \in DOMAIN Q[t]
                 PROVE  OnVariable(t, Q[t][i], H, U, C2)
      BY DEF Placed
    <2>1. OnVariable(t, Q[t][i], H, U, C)
      BY DEF Bound, Placed
    <2>2. PICK p \in H[t] : /\ p[1] = U[Q[t][i]].index
                            /\ \A e \in Closures : C[e] # None /\ C[e].uv = Q[t][i] => C[e].var = p[2]
      BY <2>1 DEF OnVariable
    <2>3. \A e \in Closures : C2[e] # None /\ C2[e].uv = Q[t][i] => C2[e].var = p[2]
      BY <1>2, <2>2
    <2> QED
      BY <2>1, <2>2, <2>3 DEF OnVariable
  <1>7. Kept(H, A, U, C2, S)
    <2>1. ASSUME NEW e \in Closures, C2[e] # None, U[C2[e].uv].closed
          PROVE  U[C2[e].uv].value = S[C2[e].var]
      BY <1>2, <2>1 DEF Bound, Kept
    <2> QED
      BY <2>1 DEF Bound, Kept
  <1> QED
    BY <1>4, <1>5, <1>6, <1>7 DEF Bound

\* The variables of thread t from register idx on go, and their upvalues close.
Closes(t, idx, H, A, Q, U, H2, Q2, U2) ==
    /\ \A s \in Threads : s # t => H2[s] = H[s] /\ Q2[s] = Q[s]
    /\ H2[t] = {p \in H[t] : p[1] < idx}
    /\ \A p \in H[t] : A[t][p[1]] \in Contents
    /\ U2 = [u \in Upvals |->
                IF Contains(Q[t], u) /\ U[u].index >= idx
                THEN [reg |-> None, index |-> 0, closed |-> TRUE, value |-> A[t][U[u].index]]
                ELSE U[u]]
    /\ Q2[t] \in Seq(Upvals)
    /\ \A i \in DOMAIN Q2[t] : \E j \in DOMAIN Q[t] : Q2[t][i] = Q[t][j] /\ U[Q[t][j]].index < idx
    /\ \A i, j \in DOMAIN Q2[t] : i < j => U[Q2[t][i]].index < U[Q2[t][j]].index
    /\ \A j \in DOMAIN Q[t] : U[Q[t][j]].index < idx => Contains(Q2[t], Q[t][j])

\* Closed upvalues have taken the values along.
LEMMA BoundCut ==
    ASSUME NEW H, NEW A, NEW Q, NEW U, NEW C, NEW S, Bound(H, A, Q, U, C, S), NEW H2, NEW Q2, NEW U2,
           NEW t \in Threads, NEW idx \in Nat,
           Closes(t, idx, H, A, Q, U, H2, Q2, U2)
    PROVE  Bound(H2, A, Q2, U2, C, S)
  <1> USE DEF Closes
  <1> DEFINE UR == [reg : Threads \cup {None}, index : Nat, closed : BOOLEAN, value : Contents]
             Shut(u) == Contains(Q[t], u) /\ U[u].index >= idx
  <1>1. \A u \in Upvals : Shut(u) => U2[u] = [reg |-> None, index |-> 0, closed |-> TRUE,
                                              value |-> A[t][U[u].index]]
    OBVIOUS
  <1>2. \A u \in Upvals : ~Shut(u) => U2[u] = U[u]
    OBVIOUS
  <1>3. \A s \in Threads : Q[s] \in Seq(Upvals) /\ DOMAIN Q[s] = 1 .. Len(Q[s])
                           /\ \A i \in DOMAIN Q[s] : Q[s][i] \in Upvals
    <2>1. \A s \in Threads : Q[s] \in Seq(Upvals)
      BY DEF Bound, Listed
    <2> QED
      BY <2>1
  <1>4. \A s \in Threads : \A i \in DOMAIN Q[s] : OnVariable(s, Q[s][i], H, U, C)
    BY DEF Bound, Placed
  <1>5. \A u \in Upvals : Contains(Q[t], u) => OnVariable(t, u, H, U, C)
    BY <1>3, <1>4 DEF Contains
  <1>6. \A u \in Upvals : U[u] # None => U[u] \in UR
    BY DEF Bound, Objects
  <1>7. \A u \in Upvals : Shut(u) => U2[u] \in UR
    <2> SUFFICES ASSUME NEW u \in Upvals, Shut(u) PROVE U2[u] \in UR
      OBVIOUS
    <2>1. PICK p \in H[t] : p[1] = U[u].index
      BY <1>5 DEF OnVariable
    <2>2. A[t][U[u].index] \in Contents
      BY <2>1
    <2> QED
      BY <1>1, <2>2
  <1>8. \A u \in Upvals : U[u] # None => U2[u] # None
    BY <1>2, <1>7, RegistersAssumption
  <1>9. Objects(U2)
    <2>1. U2 \in [Upvals -> UR \cup {None}]
      <3>1. \A w \in Upvals : U2[w] \in UR \cup {None}
        BY <1>2, <1>6, <1>7
      <3>2. U2 = [w \in Upvals |-> U2[w]]
        OBVIOUS
      <3> QED
        BY <3>1, <3>2
    <2>2. ASSUME NEW u \in Upvals, U2[u] # None PROVE U2[u].closed <=> U2[u].reg = None
      BY <1>1, <1>2, <2>2 DEF Bound, Objects
    <2> QED
      BY <2>1, <2>2 DEF Objects
  <1> HIDE DEF UR
  <1>10. \A s \in Threads : \A p \in H2[s] : p \in H[s]
    OBVIOUS
  <1>11. Once(H2)
    BY <1>10 DEF Bound, Once
  <1>12. Holding(U2, C)
    <2>1. ASSUME NEW d \in Closures, C[d] # None PROVE U2[C[d].uv] # None
      <3>1. C[d].uv \in Upvals /\ U[C[d].uv] # None
        BY <2>1 DEF Bound, Holding
      <3> QED
        BY <1>8, <3>1
    <2> QED
      BY <2>1 DEF Bound, Holding
  <1>13. Attached(H2, U2, C)
    <2>1. ASSUME NEW s \in Threads, NEW p \in H2[s], NEW c \in Closures, C[c] # None, C[c].var = p[2]
          PROVE  U2[C[c].uv].reg = s /\ U2[C[c].uv].index = p[1]
      <3>1. C[c].uv \in Upvals /\ U[C[c].uv] # None
        BY <2>1 DEF Bound, Holding
      <3>2. U[C[c].uv].reg = s /\ U[C[c].uv].index = p[1]
        BY <1>10, <2>1 DEF Bound, Attached
      <3>3. U[C[c].uv].index \in Nat
        BY <1>6, <3>1 DEF UR
      <3>4. ~Shut(C[c].uv)
        <4>1. CASE s = t
          <5>1. p[1] < idx
            BY <4>1
          <5> QED
            BY <3>2, <3>3, <5>1
        <4>2. CASE s # t
          BY <1>5, <3>1, <3>2, <4>2 DEF OnVariable
        <4> QED
          BY <4>1, <4>2
      <3> QED
        BY <1>2, <3>1, <3>2, <3>4
    <2> QED
      BY <2>1 DEF Attached
  <1>14. \A s \in Threads : s # t => \A i \in DOMAIN Q[s] : ~Shut(Q[s][i])
    BY <1>3, <1>4, <1>5 DEF OnVariable
  <1>15. \A i \in DOMAIN Q2[t] : Q2[t][i] \in Upvals /\ U[Q2[t][i]].index \in Nat /\ ~Shut(Q2[t][i])
    <2> SUFFICES ASSUME NEW i \in DOMAIN Q2[t]
                 PROVE  Q2[t][i] \in Upvals /\ U[Q2[t][i]].index \in Nat /\ ~Shut(Q2[t][i])
      OBVIOUS
    <2>1. PICK j \in DOMAIN Q[t] : Q2[t][i] = Q[t][j] /\ U[Q[t][j]].index < idx
      OBVIOUS
    <2>2. Q[t][j] \in Upvals /\ U[Q[t][j]] # None
      BY <1>3, <1>4 DEF OnVariable
    <2>3. U[Q[t][j]].index \in Nat
      BY <1>6, <2>2 DEF UR
    <2> QED
      BY <2>1, <2>2, <2>3
  <1>16. Listed(Q2, U2)
    <2> SUFFICES ASSUME NEW s \in Threads
                 PROVE  /\ Q2[s] \in Seq(Upvals)
                        /\ \A i, j \in DOMAIN Q2[s] : i < j => U2[Q2[s][i]].index < U2[Q2[s][j]].index
                        /\ \A w \in Upvals : U2[w] # None /\ U2[w].reg = s => Contains(Q2[s], w)
      BY DEF Listed
    <2>1. \A w \in Upvals : U2[w] # None /\ U2[w].reg = s =>
              ~Shut(w) /\ U[w] # None /\ U[w].reg = s /\ Contains(Q[s], w)
      <3> SUFFICES ASSUME NEW w \in Upvals, U2[w] # None, U2[w].reg = s
                   PROVE  ~Shut(w) /\ U[w] # None /\ U[w].reg = s /\ Contains(Q[s], w)
        OBVIOUS
      <3>1. ~Shut(w)
        BY <1>1, RegistersAssumption
      <3>2. U[w] # None /\ U[w].reg = s
        BY <1>2, <3>1
      <3> QED
        BY <3>1, <3>2 DEF Bound, Listed
    <2>2. CASE s # t
      <3>1. \A i \in DOMAIN Q[s] : U2[Q[s][i]] = U[Q[s][i]]
        BY <1>2, <1>3, <1>14, <2>2
      <3> HIDE DEF Shut
      <3>2. /\ Q[s] \in Seq(Upvals)
            /\ \A i, j \in DOMAIN Q[s] : i < j => U[Q[s][i]].index < U[Q[s][j]].index
        BY DEF Bound, Listed
      <3>3. Q2[s] = Q[s]
        BY <2>2
      <3>4. ASSUME NEW i \in DOMAIN Q[s], NEW j \in DOMAIN Q[s], i < j
            PROVE  U2[Q[s][i]].index < U2[Q[s][j]].index
        BY <3>1, <3>2, <3>4
      <3> QED
        BY <2>1, <3>2, <3>3, <3>4
    <2>3. CASE s = t
      <3>1. \A i \in DOMAIN Q2[t] : U2[Q2[t][i]] = U[Q2[t][i]]
        BY <1>2, <1>15
      <3>2. ASSUME NEW w \in Upvals, U2[w] # None, U2[w].reg = t
            PROVE  Contains(Q2[t], w)
        <4>1. ~Shut(w) /\ U[w] # None /\ Contains(Q[t], w)
          BY <2>1, <2>3, <3>2
        <4>2. U[w].index \in Nat
          BY <1>6, <4>1 DEF UR
        <4>3. U[w].index < idx
          BY <4>1, <4>2
        <4>4. PICK j \in DOMAIN Q[t] : Q[t][j] = w
          BY <1>3, <4>1 DEF Contains
        <4> QED
          BY <4>3, <4>4
      <3> QED
        BY <2>3, <3>1, <3>2
    <2> QED
      BY <2>2, <2>3
  <1>17. Placed(H2, Q2, U2, C)
    <2> SUFFICES ASSUME NEW s \in Threads, NEW i \in DOMAIN Q2[s]
                 PROVE  OnVariable(s, Q2[s][i], H2, U2, C)
      BY DEF Placed
    <2>1. CASE s # t
      <3>1. Q2[s] = Q[s] /\ H2[s] = H[s]
        BY <2>1
      <3>2. U2[Q[s][i]] = U[Q[s][i]]
        BY <1>2, <1>3, <1>14, <2>1, <3>1
      <3>3. OnVariable(s, Q[s][i], H, U, C)
        BY <1>4, <3>1
      <3> QED
        BY <3>1, <3>2, <3>3 DEF OnVariable
    <2>2. CASE s = t
      <3>1. PICK j \in DOMAIN Q[t] : Q2[t][i] = Q[t][j] /\ U[Q[t][j]].index < idx
        BY <2>2
      <3>2. OnVariable(t, Q[t][j], H, U, C)
        BY <1>4
      <3>3. U2[Q[t][j]] = U[Q[t][j]]
        BY <1>2, <1>15, <2>2, <3>1
      <3>4. PICK p \in H[t] : /\ p[1] = U[Q[t][j]].index
                              /\ \A c \in Closures : C[c] # None /\ C[c].uv = Q[t][j] => C[c].var = p[2]
        BY <3>2 DEF OnVariable
      <3>5. p \in H2[t]
        BY <3>1, <3>4
      <3> QED
        BY <2>2, <3>1, <3>2, <3>3, <3>4, <3>5 DEF OnVariable
    <2> QED
      BY <2>1, <2>2
  <1>18. Kept(H2, A, U2, C, S)
    <2>1. \A s \in Threads : \A p \in H2[s] : A[s][p[1]] = S[p[2]]
      BY <1>10 DEF Bound, Kept
    <2>2. ASSUME NEW c \in Closures, C[c] # None, U2[C[c].uv].closed
          PROVE  U2[C[c].uv].value = S[C[c].var]
      <3>1. C[c].uv \in Upvals
        BY <2>2 DEF Bound, Holding
      <3>2. CASE Shut(C[c].uv)
        <4>1. PICK p \in H[t] : p[1] = U[C[c].uv].index /\ C[c].var = p[2]
          BY <1>5, <2>2, <3>1, <3>2 DEF OnVariable
        <4>2. A[t][p[1]] = S[p[2]]
          BY DEF Bound, Kept
        <4>3. U2[C[c].uv].value = A[t][U[C[c].uv].index]
          BY <1>1, <3>1, <3>2
        <4> QED
          BY <4>1, <4>2, <4>3
      <3>3. CASE ~Shut(C[c].uv)
        BY <1>2, <2>2, <3>1, <3>3 DEF Bound, Kept
      <3> QED
        BY <3>2, <3>3
    <2> QED
      BY <2>1, <2>2 DEF Kept
  <1> QED
    BY <1>9, <1>11, <1>12, <1>13, <1>16, <1>17, <1>18 DEF Bound

\* Closure c holds upvalue u, for variable v:
Shares(C, c, u, v, C2) == C2 = [C EXCEPT ![c] = [uv |-> u, var |-> v]]
\* it takes the open upvalue of the variable.
LEMMA BoundShare ==
    ASSUME NEW H, NEW A, NEW Q, NEW U, NEW C, NEW S, Bound(H, A, Q, U, C, S), NEW C2,
           NEW t \in Threads, NEW p \in H[t], p[2] \in Names, NEW c \in Closures, C[c] = None,
           NEW u \in Upvals, Contains(Q[t], u), U[u].index = p[1], Shares(C, c, u, p[2], C2)
    PROVE  Bound(H, A, Q, U, C2, S)
  <1> USE DEF Shares
  <1>1. C2[c].uv = u /\ C2[c].var = p[2] /\ \A e \in Closures : e # c => C2[e] = C[e]
    BY DEF Bound, Holding
  <1>2. C2 \in [Closures -> [uv : Upvals, var : Names] \cup {None}]
    BY DEF Bound, Holding
  <1>3. PICK k \in DOMAIN Q[t] : Q[t][k] = u
    <2>1. Q[t] \in Seq(Upvals)
      BY DEF Bound, Listed
    <2> QED
      BY <2>1 DEF Contains
  <1>4. OnVariable(t, u, H, U, C)
    BY <1>3 DEF Bound, Placed
  <1>5. \A e \in Closures : C[e] # None /\ C[e].uv = u => C[e].var = p[2]
    <2>1. PICK q \in H[t] : /\ q[1] = U[u].index
                            /\ \A e \in Closures : C[e] # None /\ C[e].uv = u => C[e].var = q[2]
      BY <1>4 DEF OnVariable
    <2>2. q[2] = p[2]
      BY <2>1 DEF Bound, Once
    <2> QED
      BY <2>1, <2>2
  <1>6. \A e \in Closures : C[e] # None /\ C[e].var = p[2] => C[e].uv = u
    <2> SUFFICES ASSUME NEW e \in Closures, C[e] # None, C[e].var = p[2] PROVE C[e].uv = u
      OBVIOUS
    <2>1. C[e].uv \in Upvals /\ U[C[e].uv] # None
      BY DEF Bound, Holding
    <2>2. U[C[e].uv].reg = t /\ U[C[e].uv].index = p[1]
      BY DEF Bound, Attached
    <2>3. Q[t] \in Seq(Upvals) /\ Contains(Q[t], C[e].uv)
      BY <2>1, <2>2 DEF Bound, Listed
    <2>4. PICK j \in DOMAIN Q[t] : Q[t][j] = C[e].uv
      BY <2>3 DEF Contains
    <2>5. \A i, l \in DOMAIN Q[t] : i < l => U[Q[t][i]].index < U[Q[t][l]].index
      BY DEF Bound, Listed
    <2>6. p[1] \in Nat
      BY <2>1, <2>2 DEF Bound, Objects
    <2>7. j \in Nat /\ k \in Nat
      BY <1>3, <2>3, <2>4
    <2>8. ~(j < k) /\ ~(k < j)
      BY <1>3, <2>2, <2>4, <2>5, <2>6
    <2> QED
      BY <1>3, <2>4, <2>7, <2>8
  <1>7. U[u] # None /\ U[u].reg = t /\ ~U[u].closed
    BY <1>4, RegistersAssumption DEF OnVariable, Bound, Objects
  <1>8. Holding(U, C2)
    <2>1. \A e \in Closures : C2[e] # None => U[C2[e].uv] # None
      BY <1>1, <1>7 DEF Bound, Holding
    <2>2. ASSUME NEW e \in Closures, NEW f \in Closures, C2[e] # None, C2[f] # None
          PROVE  C2[e].uv = C2[f].uv <=> C2[e].var = C2[f].var
      BY <1>1, <1>5, <1>6, <2>2 DEF Bound, Holding
    <2> QED
      BY <1>2, <2>1, <2>2 DEF Holding
  <1>9. Attached(H, U, C2)
    <2>1. ASSUME NEW s \in Threads, NEW q \in H[s], NEW e \in Closures, C2[e] # None, C2[e].var = q[2]
          PROVE  U[C2[e].uv].reg = s /\ U[C2[e].uv].index = q[1]
      <3>1. CASE e = c
        <4>1. q[2] = p[2]
          BY <1>1, <2>1, <3>1
        <4>2. s = t /\ q[1] = p[1]
          BY <4>1 DEF Bound, Once
        <4> QED
          BY <1>1, <1>7, <3>1, <4>2
      <3>2. CASE e # c
        BY <1>1, <2>1, <3>2 DEF Bound, Attached
      <3> QED
        BY <3>1, <3>2
    <2> QED
      BY <2>1 DEF Attached
  <1>10. Placed(H, Q, U, C2)
    <2> SUFFICES ASSUME NEW s \in Threads, NEW i \in DOMAIN Q[s]
                 PROVE  OnVariable(s, Q[s][i], H, U, C2)
      BY DEF Placed
    <2>1. OnVariable(s, Q[s][i], H, U, C)
      BY DEF Bound, Placed
    <2>2. PICK q \in H[s] : /\ q[1] = U[Q[s][i]].index
                            /\ \A e \in Closures : C[e] # None /\ C[e].uv = Q[s][i] => C[e].var = q[2]
      BY <2>1 DEF OnVariable
    <2>3. \A e \in Closures : C2[e] # None /\ C2[e].uv = Q[s][i] => C2[e].var = q[2]
      <3> SUFFICES ASSUME NEW e \in Closures, C2[e] # None, C2[e].uv = Q[s][i]
                   PROVE  C2[e].var = q[2]
        OBVIOUS
      <3>1. CASE e = c
        <4>1. Q[s][i] = u
          BY <1>1, <3>1
        <4>2. s = t /\ q[1] = p[1]
          BY <1>7, <2>1, <2>2, <4>1 DEF OnVariable
        <4>3. q[2] = p[2]
          BY <4>2 DEF Bound, Once
        <4> QED
          BY <1>1, <3>1, <4>3
      <3>2. CASE e # c
        BY <1>1, <2>2, <3>2
      <3> QED
        BY <3>1, <3>2
    <2> QED
      BY <2>1, <2>2, <2>3 DEF OnVariable
  <1>11. Kept(H, A, U, C2, S)
    <2>1. ASSUME NEW e \in Closures, C2[e] # None, U[C2[e].uv].closed
          PROVE  U[C2[e].uv].value = S[C2[e].var]
      BY <1>1, <1>7, <2>1 DEF Bound, Kept
    <2> QED
      BY <2>1 DEF Bound, Kept
  <1> QED
    BY <1>8, <1>9, <1>10, <1>11 DEF Bound

\* Upvalue u is open on register r, and takes its place in the list.
Opens(t, r, u, U, Q, U2, Q2) ==
    /\ \A s \in Threads : s # t => Q2[s] = Q[s]
    /\ \A j \in DOMAIN Q[t] : U[Q[t][j]].index # r
    /\ U2 = [U EXCEPT ![u] = [reg |-> t, index |-> r, closed |-> FALSE, value |-> Nil]]
    /\ Q2[t] \in Seq(Upvals)
    /\ \A i \in DOMAIN Q2[t] : Q2[t][i] = u \/ \E j \in DOMAIN Q[t] : Q2[t][i] = Q[t][j]
    /\ \A i, j \in DOMAIN Q2[t] : i < j => U2[Q2[t][i]].index < U2[Q2[t][j]].index
    /\ Contains(Q2[t], u)
    /\ \A j \in DOMAIN Q[t] : Contains(Q2[t], Q[t][j])
\* The variable of the register had no upvalue.
LEMMA BoundOpen ==
    ASSUME NEW H, NEW A, NEW Q, NEW U, NEW C, NEW S, Bound(H, A, Q, U, C, S), NEW Q2, NEW U2,
           NEW t \in Threads, NEW p \in H[t], p[1] \in Nat,
           NEW u \in Upvals, U[u] = None, Opens(t, p[1], u, U, Q, U2, Q2)
    PROVE  Bound(H, A, Q2, U2, C, S)
  <1> USE DEF Opens
  <1> DEFINE UR == [reg : Threads \cup {None}, index : Nat, closed : BOOLEAN, value : Contents]
  <1>1. U2[u] = [reg |-> t, index |-> p[1], closed |-> FALSE, value |-> Nil]
        /\ \A w \in Upvals : w # u => U2[w] = U[w]
    BY DEF Bound, Objects
  <1>2. U2[u] \in UR /\ U2[u].reg = t /\ U2[u].index = p[1] /\ ~U2[u].closed
    <2> DEFINE w == [reg |-> t, index |-> p[1], closed |-> FALSE, value |-> Nil]
    <2>1. w \in UR
      BY DEF Contents
    <2>2. w.reg = t /\ w.index = p[1] /\ ~w.closed
      OBVIOUS
    <2> HIDE DEF w, UR
    <2>3. U2[u] = w
      BY <1>1 DEF w
    <2> QED
      BY <2>1, <2>2, <2>3
  <1>3. U2[u] # None /\ t # None
    BY <1>2, RegistersAssumption
  <1>4. Objects(U2)
    <2>1. U2 \in [Upvals -> UR \cup {None}]
      <3>1. \A w \in Upvals : U2[w] \in UR \cup {None}
        BY <1>1, <1>2 DEF Bound, Objects
      <3>2. U2 = [w \in Upvals |-> U2[w]]
        BY DEF Bound, Objects
      <3> QED
        BY <3>1, <3>2
    <2>2. ASSUME NEW w \in Upvals, U2[w] # None PROVE U2[w].closed <=> U2[w].reg = None
      BY <1>1, <1>2, <1>3, <2>2 DEF Bound, Objects
    <2> QED
      BY <2>1, <2>2 DEF Objects
  <1> HIDE DEF UR
  <1>5. \A e \in Closures : C[e] # None => C[e].uv \in Upvals /\ C[e].uv # u /\ U2[C[e].uv] = U[C[e].uv]
    BY <1>1 DEF Bound, Holding
  <1>6. Holding(U2, C)
    BY <1>5 DEF Bound, Holding
  <1>7. Attached(H, U2, C)
    BY <1>5 DEF Bound, Attached
  <1>8. \A s \in Threads : Q[s] \in Seq(Upvals) /\ DOMAIN Q[s] = 1 .. Len(Q[s])
                           /\ \A i \in DOMAIN Q[s] : Q[s][i] \in Upvals
    <2>1. \A s \in Threads : Q[s] \in Seq(Upvals)
      BY DEF Bound, Listed
    <2> QED
      BY <2>1
  <1>9. \A s \in Threads : \A i \in DOMAIN Q[s] : Q[s][i] # u /\ U2[Q[s][i]] = U[Q[s][i]]
    BY <1>1, <1>8 DEF Bound, Placed, OnVariable
  <1>10. Listed(Q2, U2)
    <2> SUFFICES ASSUME NEW s \in Threads
                 PROVE  /\ Q2[s] \in Seq(Upvals)
                        /\ \A i, j \in DOMAIN Q2[s] : i < j => U2[Q2[s][i]].index < U2[Q2[s][j]].index
                        /\ \A w \in Upvals : U2[w] # None /\ U2[w].reg = s => Contains(Q2[s], w)
      BY DEF Listed
    <2>1. \A w \in Upvals : w # u /\ U2[w] # None /\ U2[w].reg = s => Contains(Q[s], w)
      BY <1>1 DEF Bound, Listed
    <2>2. CASE s = t
      <3>1. ASSUME NEW w \in Upvals, U2[w] # None, U2[w].reg = t PROVE Contains(Q2[t], w)
        <4>1. CASE w = u
          BY <4>1
        <4>2. CASE w # u
          <5>1. Contains(Q[t], w)
            BY <2>1, <2>2, <3>1, <4>2
          <5>2. PICK j \in DOMAIN Q[t] : Q[t][j] = w
            BY <1>8, <5>1 DEF Contains
          <5> QED
            BY <5>2
        <4> QED
          BY <4>1, <4>2
      <3> QED
        BY <2>2, <3>1
    <2>3. CASE s # t
      <3>1. Q2[s] = Q[s]
        BY <2>3
      <3>2. \A i, j \in DOMAIN Q[s] : i < j => U[Q[s][i]].index < U[Q[s][j]].index
        BY DEF Bound, Listed
      <3>3. \A i, j \in DOMAIN Q[s] : i < j => U2[Q[s][i]].index < U2[Q[s][j]].index
        BY <1>9, <3>2
      <3>4. \A w \in Upvals : U2[w] # None /\ U2[w].reg = s => Contains(Q[s], w)
        BY <1>2, <2>1, <2>3
      <3> QED
        BY <1>8, <3>1, <3>3, <3>4
    <2> QED
      BY <2>2, <2>3
  <1>11. \A s \in Threads : \A j \in DOMAIN Q[s] : OnVariable(s, Q[s][j], H, U2, C)
    <2> SUFFICES ASSUME NEW s \in Threads, NEW j \in DOMAIN Q[s]
                 PROVE  OnVariable(s, Q[s][j], H, U2, C)
      OBVIOUS
    <2>1. OnVariable(s, Q[s][j], H, U, C)
      BY DEF Bound, Placed
    <2>2. U2[Q[s][j]] = U[Q[s][j]]
      BY <1>9
    <2> QED
      BY <2>1, <2>2 DEF OnVariable
  <1>12. OnVariable(t, u, H, U2, C)
    BY <1>2, <1>3, <1>5 DEF OnVariable
  <1>13. Placed(H, Q2, U2, C)
    <2> SUFFICES ASSUME NEW s \in Threads, NEW i \in DOMAIN Q2[s]
                 PROVE  OnVariable(s, Q2[s][i], H, U2, C)
      BY DEF Placed
    <2>1. CASE s = t
      BY <1>11, <1>12, <2>1
    <2>2. CASE s # t
      BY <1>11, <2>2
    <2> QED
      BY <2>1, <2>2
  <1>14. Kept(H, A, U2, C, S)
    BY <1>5 DEF Bound, Kept
  <1> QED
    BY <1>4, <1>6, <1>7, <1>10, <1>13, <1>14 DEF Bound

-----------------------------------------------------------------------------
(* The list of open upvalues.                                              *)

\* u is inserted in q, at place n:
IsInserted(q, n, u, q2) == q2 = InsertAt(q, n, u)
\* the elements from there on move up.
LEMMA InsertAtIs ==
    ASSUME NEW T, NEW q \in Seq(T), NEW u \in T, NEW n \in 1 .. Len(q) + 1, NEW q2,
           IsInserted(q, n, u, q2)
    PROVE  /\ q2 \in Seq(T) /\ Len(q2) = Len(q) + 1
           /\ \A i \in 1 .. Len(q) + 1 :
                 q2[i] = IF i < n THEN q[i] ELSE IF i = n THEN u ELSE q[i - 1]
  <1> DEFINE a == SubSeq(q, 1, n - 1)
             b == SubSeq(q, n, Len(q))
  <1>1. Len(q) \in Nat /\ n \in Nat
    OBVIOUS
  <1>2. a \in Seq(T) /\ Len(a) = n - 1 /\ \A i \in 1 .. n - 1 : a[i] = q[i]
    <2>1. \A i \in 1 .. n - 1 : q[i] \in T
      BY <1>1
    <2> QED
      BY <1>1, <2>1
  <1>3. b \in Seq(T) /\ Len(b) = Len(q) - n + 1 /\ \A i \in 1 .. Len(q) - n + 1 : b[i] = q[n + i - 1]
    <2>1. \A i \in n .. Len(q) : q[i] \in T
      BY <1>1
    <2> QED
      BY <1>1, <2>1
  <1>4. q2 = (a \o <<u>>) \o b
    BY DEF InsertAt, IsInserted
  <1> HIDE DEF a, b
  <1> DEFINE c == a \o <<u>>
  <1>5. c \in Seq(T) /\ Len(c) = n /\ \A i \in 1 .. n : c[i] = IF i < n THEN q[i] ELSE u
    BY <1>1, <1>2
  <1> HIDE DEF c
  <1>6. q2 = c \o b
    BY <1>4 DEF c
  <1>7. q2 \in Seq(T) /\ Len(q2) = n + (Len(q) - n + 1)
    <2> DEFINE d == c \o b
    <2>1. d \in Seq(T) /\ Len(d) = Len(c) + Len(b)
      BY <1>3, <1>5, ConcatProperties
    <2>2. q2 = d
      BY <1>6
    <2> HIDE DEF d
    <2> QED
      BY <1>3, <1>5, <2>1, <2>2
  <1>8. \A i \in 1 .. Len(q2) : q2[i] = IF i <= Len(c) THEN c[i] ELSE b[i - Len(c)]
    BY <1>3, <1>5, <1>6, <1>7
  <1>9. Len(q2) = Len(q) + 1
    BY <1>1, <1>7
  <1>10. ASSUME NEW i \in 1 .. Len(q) + 1
         PROVE  q2[i] = IF i < n THEN q[i] ELSE IF i = n THEN u ELSE q[i - 1]
    <2>1. CASE i <= n
      BY <1>1, <1>5, <1>8, <1>9, <2>1
    <2>2. CASE i > n
      <3>1. i - n \in 1 .. Len(q) - n + 1 /\ n + (i - n) - 1 = i - 1
        BY <1>1, <2>2
      <3>2. q2[i] = b[i - n]
        BY <1>1, <1>5, <1>8, <1>9, <2>2
      <3> QED
        BY <1>1, <1>3, <2>2, <3>1, <3>2
    <2> QED
      BY <1>1, <2>1, <2>2
  <1> QED
    BY <1>7, <1>9, <1>10

\* The first place whose upvalue is at register idx or above, or 0.
FirstFrom(q, U, idx) == SelectInSeq(q, LAMBDA w : U[w].index >= idx)

\* It splits a sorted list.
LEMMA FirstFromIs ==
    ASSUME NEW q \in Seq(Upvals), NEW U, NEW idx \in Nat, \A i \in DOMAIN q : U[q[i]].index \in Nat,
           \A i, j \in DOMAIN q : i < j => U[q[i]].index < U[q[j]].index, NEW n,
           n = FirstFrom(q, U, idx)
    PROVE  \/ n = 0 /\ \A i \in DOMAIN q : U[q[i]].index < idx
           \/ /\ n \in DOMAIN q
              /\ \A i \in DOMAIN q : i < n => U[q[i]].index < idx
              /\ \A i \in DOMAIN q : i >= n => U[q[i]].index >= idx
  <1> DEFINE I == {i \in 1 .. Len(q) : U[q[i]].index >= idx}
  <1>1. n = IF I # {} THEN Min(I) ELSE 0
    BY DEF FirstFrom, SelectInSeq
  <1>2. DOMAIN q = 1 .. Len(q) /\ Len(q) \in Nat
    OBVIOUS
  <1>3. CASE I = {}
    BY <1>1, <1>2, <1>3
  <1>4. CASE I # {}
    <2>1. PICK m \in I : \A j \in I : m <= j
      <3>1. I \in SUBSET Nat
        OBVIOUS
      <3> HIDE DEF I
      <3> QED
        BY <1>4, <3>1, SmallestExists
    <2>2. n \in I /\ \A j \in I : n <= j
      <3> HIDE DEF I
      <3>1. n = Min(I)
        BY <1>1, <1>4
      <3> QED
        BY <2>1, <3>1 DEF Min
    <2>3. n \in DOMAIN q /\ U[q[n]].index >= idx
      BY <2>2
    <2>4. \A i \in DOMAIN q : i < n => U[q[i]].index < idx
      <3> SUFFICES ASSUME NEW i \in DOMAIN q, i < n PROVE U[q[i]].index < idx
        OBVIOUS
      <3>1. i \notin I
        BY <1>2, <2>2
      <3> QED
        BY <1>2, <3>1
    <2>5. \A i \in DOMAIN q : i >= n => U[q[i]].index >= idx
      <3> SUFFICES ASSUME NEW i \in DOMAIN q, i >= n PROVE U[q[i]].index >= idx
        OBVIOUS
      <3>1. CASE i = n
        BY <2>3, <3>1
      <3>2. CASE i # n
        <4>1. n < i
          BY <1>2, <2>3, <3>2
        <4>2. U[q[n]].index < U[q[i]].index
          BY <2>3, <4>1
        <4>3. U[q[n]].index \in Nat /\ U[q[i]].index \in Nat
          BY <2>3
        <4> QED
          BY <2>3, <4>2, <4>3
      <3> QED
        BY <3>1, <3>2
    <2> QED
      BY <2>3, <2>4, <2>5
  <1> QED
    BY <1>3, <1>4

\* The open upvalues of a thread: q is their list.
OpenList(t, q) ==
    /\ q \in Seq(Upvals) /\ DOMAIN q = 1 .. Len(q) /\ Len(q) \in Nat
    /\ \A i, j \in DOMAIN q : i < j => uv[q[i]].index < uv[q[j]].index
    /\ \A i \in DOMAIN q : /\ q[i] \in Upvals /\ uv[q[i]] # None /\ uv[q[i]].reg = t
                           /\ uv[q[i]].index \in Nat /\ ~uv[q[i]].closed
                           /\ \E p \in Live(ls[t].frames) : p[1] = uv[q[i]].index

\* q2 is the part of list q with the upvalues below idx.
IsBelow(q, idx, q2) ==
    /\ q2 \in Seq(Upvals)
    /\ \A i \in DOMAIN q2 : \E j \in DOMAIN q : q2[i] = q[j] /\ uv[q[j]].index < idx
    /\ \A i, j \in DOMAIN q2 : i < j => uv[q2[i]].index < uv[q2[j]].index
    /\ \A j \in DOMAIN q : uv[q[j]].index < idx => Contains(q2, q[j])

\* cacheBelow takes the open upvalues below idx.
LEMMA CacheBelowIs ==
    ASSUME NEW t, NEW idx \in Nat, OpenList(t, ls[t].uvcache)
    PROVE  IsBelow(ls[t].uvcache, idx, cacheBelow(t, idx))
  <1> DEFINE q == ls[t].uvcache
             q2 == cacheBelow(t, idx)
             n == FirstFrom(q, uv, idx)
  <1>1. \/ n = 0 /\ \A i \in DOMAIN q : uv[q[i]].index < idx
        \/ /\ n \in DOMAIN q
           /\ \A i \in DOMAIN q : i < n => uv[q[i]].index < idx
           /\ \A i \in DOMAIN q : i >= n => uv[q[i]].index >= idx
    BY FirstFromIs DEF OpenList
  <1>2. q2 = IF n = 0 THEN q ELSE SubSeq(q, 1, n - 1)
    BY DEF cacheBelow, FirstFrom
  <1>3. q \in Seq(Upvals) /\ \A i, j \in DOMAIN q : i < j => uv[q[i]].index < uv[q[j]].index
    BY DEF OpenList
  <1>4. \A i \in DOMAIN q : uv[q[i]].index \in Nat
    BY DEF OpenList
  <1> SUFFICES IsBelow(q, idx, q2)
    OBVIOUS
  <1> HIDE DEF n, q, q2
  <1>5. DOMAIN q = 1 .. Len(q) /\ Len(q) \in Nat /\ \A i \in DOMAIN q : q[i] \in Upvals
    BY <1>3
  <1>6. CASE n = 0
    <2>1. q2 = q /\ \A i \in DOMAIN q : uv[q[i]].index < idx
      BY <1>1, <1>2, <1>5, <1>6
    <2> QED
      BY <1>5, <1>3, <2>1 DEF Contains, IsBelow
  <1>7. CASE n # 0
    <2>1. n \in DOMAIN q /\ n - 1 \in Nat /\ n - 1 <= Len(q)
      BY <1>1, <1>5, <1>7
    <2>2. q2 \in Seq(Upvals) /\ Len(q2) = n - 1 /\ \A i \in 1 .. n - 1 : q2[i] = q[i]
      BY <1>2, <1>5, <1>7, <1>3, <2>1
    <2>3. DOMAIN q2 = 1 .. n - 1 /\ \A i \in 1 .. n - 1 : i \in DOMAIN q /\ i < n
      BY <1>5, <2>1, <2>2
    <2>4. \A i \in 1 .. n - 1 : uv[q[i]].index < idx
      BY <1>1, <1>7, <2>3
    <2>5. \A j \in DOMAIN q : uv[q[j]].index < idx => j \in 1 .. n - 1
      <3> SUFFICES ASSUME NEW j \in DOMAIN q, uv[q[j]].index < idx PROVE j \in 1 .. n - 1
        OBVIOUS
      <3>1. ~(j >= n)
        BY <1>1, <1>7, <1>4
      <3> QED
        BY <1>5, <2>1, <3>1
    <2> QED
      BY <1>3, <2>2, <2>3, <2>4, <2>5 DEF Contains, IsBelow
  <1> QED
    BY <1>6, <1>7

-----------------------------------------------------------------------------
(* Calls.                                                                  *)

\* The variables of one call.
LiveOne(f) == {<<f.base + k - 1, f.vars[k]>> : k \in DOMAIN f.vars}

\* What is live is live in one of the calls.
LEMMA LiveIs ==
    ASSUME NEW fs, NEW p
    PROVE  /\ p \in Live(fs) <=> \E i \in DOMAIN fs : p \in LiveOne(fs[i])
           /\ \A f : p \in LiveOne(f) <=> \E k \in DOMAIN f.vars : p = <<f.base + k - 1, f.vars[k]>>
  BY DEF Live, LiveOne

\* What a sequence contains is at a place in it.
LEMMA ContainsIs ==
    ASSUME NEW S, NEW q, q \in Seq(S), NEW u, Contains(q, u)
    PROVE  \E i \in DOMAIN q : q[i] = u
  BY DEF Contains

\* The variables of a call are between its base and its end.
LEMMA LiveOneFacts ==
    ASSUME NEW t, NEW i, NEW f, FrameOk(t, i, f), NEW p \in LiveOne(f)
    PROVE  /\ p[1] \in Nat /\ f.base <= p[1] /\ p[1] < End(f)
           /\ p[2] \in Names /\ p[2][1] = t /\ p[2][2] = i
           /\ p[2][3] = p[1] - f.base + 1
  <1>1. PICK k \in DOMAIN f.vars : p = <<f.base + k - 1, f.vars[k]>>
    BY DEF LiveOne
  <1>2. f.base \in Nat /\ f.vars \in Seq(Names)
    BY DEF FrameOk, FrameRecords
  <1>3. k \in 1 .. Len(f.vars) /\ f.vars[k] \in Names /\ Len(f.vars) \in Nat
    BY <1>2
  <1>4. f.vars[k][1] = t /\ f.vars[k][2] = i /\ f.vars[k][3] = k
    BY DEF FrameOk
  <1>5. p[1] = f.base + k - 1 /\ p[2] = f.vars[k]
    BY <1>1
  <1>6. f.base + k - 1 \in Nat /\ f.base <= f.base + k - 1 /\ f.base + k - 1 < End(f)
        /\ k = (f.base + k - 1) - f.base + 1
    BY <1>2, <1>3 DEF End
  <1> QED
    BY <1>3, <1>4, <1>5, <1>6

\* Live variables are below the top and have names of their thread.
LEMMA LiveFacts ==
    ASSUME NEW t, NEW fs, NEW top \in Nat, Stacked(t, fs, top), NEW p \in Live(fs)
    PROVE  p[1] \in Nat /\ p[1] < top /\ p[2] \in Names /\ p[2][1] = t
  <1>1. PICK i \in DOMAIN fs : p \in LiveOne(fs[i])
    BY LiveIs
  <1>2. FrameOk(t, i, fs[i]) /\ End(fs[i]) <= top
    BY DEF Stacked
  <1>3. End(fs[i]) \in Nat
    BY <1>2 DEF FrameOk, FrameRecords, End
  <1> QED
    BY <1>1, <1>2, <1>3, LiveOneFacts

\* What a call is made of.
LEMMA FrameFacts ==
    ASSUME NEW t, NEW i, NEW f, FrameOk(t, i, f)
    PROVE  /\ f.fn \in Nat /\ f.base \in Nat /\ Len(f.vars) \in Nat /\ Len(f.vars) >= 1
           /\ f.vars \in Seq(Names) /\ DOMAIN f.vars = 1 .. Len(f.vars)
           /\ End(f) \in Nat /\ Begin(f) \in Nat /\ Begin(f) <= f.fn /\ f.fn < f.base /\ f.base < End(f)
           /\ f.guard.on \in BOOLEAN /\ f.guard.base \in Nat /\ f.guard.ret \in Nat
  <1>1. f.fn \in Nat /\ f.base \in Nat /\ f.vars \in Seq(Names) /\ f.guard.ret \in Nat
        /\ f.guard.on \in BOOLEAN /\ f.guard.base \in Nat
    BY DEF FrameOk, FrameRecords
  <1>2. Len(f.vars) \in Nat /\ Len(f.vars) >= 1 /\ DOMAIN f.vars = 1 .. Len(f.vars)
    BY <1>1 DEF FrameOk
  <1>3. Begin(f) \in Nat /\ Begin(f) <= f.fn
    BY <1>1 DEF FrameOk, Begin
  <1> QED
    BY <1>1, <1>2, <1>3 DEF FrameOk, End

\* The first m calls are stacked below a top that is above them;
LEMMA StackedCut ==
    ASSUME NEW t, NEW fs \in Seq(FrameRecords), NEW top, Stacked(t, fs, top), NEW m \in 0 .. Len(fs),
           NEW top2, \A i \in 1 .. m : End(fs[i]) <= top2
    PROVE  /\ SubSeq(fs, 1, m) \in Seq(FrameRecords) /\ Len(SubSeq(fs, 1, m)) = m
           /\ Stacked(t, SubSeq(fs, 1, m), top2)
           /\ \A i \in 1 .. m : SubSeq(fs, 1, m)[i] = fs[i]
  <1> DEFINE gs == SubSeq(fs, 1, m)
  <1>1. DOMAIN fs = 1 .. Len(fs) /\ Len(fs) \in Nat
    OBVIOUS
  <1>2. gs \in Seq(FrameRecords) /\ Len(gs) = m /\ DOMAIN gs = 1 .. m
        /\ \A i \in 1 .. m : gs[i] = fs[i]
    <2>1. \A i \in 1 .. m : fs[i] \in FrameRecords
      BY <1>1
    <2> QED
      BY <1>1, <2>1
  <1>3. \A i \in 1 .. m : i \in DOMAIN fs
    BY <1>1
  <1> QED
    BY <1>2, <1>3 DEF Stacked

\* their variables are those below idx, if that is where the others begin.
LEMMA LiveCut ==
    ASSUME NEW t, NEW fs \in Seq(FrameRecords), NEW top, Stacked(t, fs, top), NEW m \in 0 .. Len(fs),
           NEW idx \in Nat, \A i \in 1 .. m : End(fs[i]) <= idx,
           \A i \in DOMAIN fs : i > m => idx <= fs[i].base
    PROVE  Live(SubSeq(fs, 1, m)) = {p \in Live(fs) : p[1] < idx}
  <1> DEFINE gs == SubSeq(fs, 1, m)
  <1>1. DOMAIN fs = 1 .. Len(fs) /\ Len(fs) \in Nat
    OBVIOUS
  <1>2. Len(gs) = m /\ DOMAIN gs = 1 .. m /\ \A i \in 1 .. m : gs[i] = fs[i]
    <2>1. \A i \in 1 .. m : End(fs[i]) <= idx
      OBVIOUS
    <2> QED
      BY <2>1, StackedCut
  <1> HIDE DEF gs
  <1>3. \A i \in DOMAIN fs : FrameOk(t, i, fs[i])
    BY DEF Stacked
  <1>4. ASSUME NEW p \in Live(gs) PROVE p \in Live(fs) /\ p[1] < idx
    <2>1. PICK i \in DOMAIN gs : p \in LiveOne(gs[i])
      BY LiveIs
    <2>2. i \in DOMAIN fs /\ p \in LiveOne(fs[i]) /\ End(fs[i]) <= idx
      BY <1>1, <1>2, <2>1
    <2>3. p[1] \in Nat /\ p[1] < End(fs[i]) /\ End(fs[i]) \in Nat
      BY <1>3, <2>2, LiveOneFacts, FrameFacts
    <2> QED
      BY <2>2, <2>3, LiveIs
  <1>5. ASSUME NEW p \in Live(fs), p[1] < idx PROVE p \in Live(gs)
    <2>1. PICK i \in DOMAIN fs : p \in LiveOne(fs[i])
      BY LiveIs
    <2>2. p[1] \in Nat /\ fs[i].base <= p[1] /\ fs[i].base \in Nat
      BY <1>3, <2>1, LiveOneFacts, FrameFacts
    <2>3. ~(i > m)
      BY <1>5, <2>2
    <2>4. i \in DOMAIN gs /\ gs[i] = fs[i]
      BY <1>1, <1>2, <2>3
    <2> QED
      BY <2>1, <2>4, LiveIs
  <1> QED
    BY <1>4, <1>5 DEF gs

\* All calls end at idx or below.
EndBy(fs, idx) == \A i \in DOMAIN fs : End(fs[i]) <= idx

\* gs has the m first calls of fs, which end at idx or below; the others have
\* their variables above.
IsCut(fs, m, idx, gs) ==
    /\ fs \in Seq(FrameRecords) /\ m \in 0 .. Len(fs) /\ gs = SubSeq(fs, 1, m)
    /\ \A i \in 1 .. m : End(fs[i]) <= idx
    /\ \A i \in DOMAIN fs : i > m => idx <= fs[i].base

\* It has the variables below idx,
LEMMA CutLive ==
    ASSUME NEW t, NEW fs, NEW top, Stacked(t, fs, top), NEW m, NEW idx \in Nat, NEW gs,
           IsCut(fs, m, idx, gs)
    PROVE  Live(gs) = {p \in Live(fs) : p[1] < idx}
  <1>1. fs \in Seq(FrameRecords) /\ m \in 0 .. Len(fs) /\ gs = SubSeq(fs, 1, m)
    BY DEF IsCut
  <1>2. \A i \in 1 .. m : End(fs[i]) <= idx
    BY DEF IsCut
  <1>3. \A i \in DOMAIN fs : i > m => idx <= fs[i].base
    BY DEF IsCut
  <1> QED
    BY <1>1, <1>2, <1>3, LiveCut

\* and its calls are stacked.
LEMMA CutIs ==
    ASSUME NEW t, NEW fs, NEW top, Stacked(t, fs, top), NEW m, NEW idx \in Nat, NEW gs,
           IsCut(fs, m, idx, gs), NEW top2 \in Nat, idx <= top2
    PROVE  gs \in Seq(FrameRecords) /\ Len(gs) = m /\ Stacked(t, gs, top2) /\ EndBy(gs, idx)
  <1>1. /\ fs \in Seq(FrameRecords) /\ m \in 0 .. Len(fs) /\ gs = SubSeq(fs, 1, m)
        /\ DOMAIN fs = 1 .. Len(fs) /\ Len(fs) \in Nat /\ m \in Nat
    BY DEF IsCut
  <1>2. \A i \in 1 .. m : End(fs[i]) <= idx
    BY DEF IsCut
  <1>3. \A i \in 1 .. m : i \in DOMAIN fs
    BY <1>1
  <1>4. \A i \in 1 .. m : End(fs[i]) <= top2
    <2> SUFFICES ASSUME NEW i \in 1 .. m PROVE End(fs[i]) <= top2
      OBVIOUS
    <2>1. FrameOk(t, i, fs[i])
      BY <1>3 DEF Stacked
    <2>2. End(fs[i]) \in Nat /\ End(fs[i]) <= idx
      BY <1>2, <2>1, FrameFacts
    <2> QED
      BY <2>2
  <1>5. gs \in Seq(FrameRecords) /\ Len(gs) = m /\ Stacked(t, gs, top2) /\ \A i \in 1 .. m : gs[i] = fs[i]
    BY <1>1, <1>4, StackedCut
  <1>6. EndBy(gs, idx)
    <2>1. DOMAIN gs = 1 .. m
      BY <1>5
    <2> QED
      BY <1>2, <1>5, <2>1 DEF EndBy
  <1> QED
    BY <1>5, <1>6

\* gs has call f after those of fs:
IsPush(fs, f, gs) == gs = Append(fs, f)

\* they are stacked.
LEMMA StackedPush ==
    ASSUME NEW t, NEW fs \in Seq(FrameRecords), NEW top, Stacked(t, fs, top), NEW f,
           FrameOk(t, Len(fs) + 1, f), End(f) <= top, EndBy(fs, Begin(f)),
           NEW gs, IsPush(fs, f, gs)
    PROVE  /\ gs \in Seq(FrameRecords) /\ Stacked(t, gs, top) /\ Live(gs) = Live(fs) \cup LiveOne(f)
           /\ Len(gs) = Len(fs) + 1
  <1>1. DOMAIN fs = 1 .. Len(fs) /\ Len(fs) \in Nat /\ f \in FrameRecords
    BY DEF FrameOk
  <1>2. gs \in Seq(FrameRecords) /\ DOMAIN gs = 1 .. Len(fs) + 1 /\ gs[Len(fs) + 1] = f
        /\ \A i \in DOMAIN fs : gs[i] = fs[i]
    BY <1>1 DEF IsPush
  <1>3. \A i \in DOMAIN gs : i \in DOMAIN fs \/ i = Len(fs) + 1
    BY <1>1, <1>2
  <1>4. Stacked(t, gs, top)
    <2>1. ASSUME NEW i \in DOMAIN gs PROVE FrameOk(t, i, gs[i]) /\ End(gs[i]) <= top
      BY <1>2, <1>3 DEF Stacked
    <2>2. ASSUME NEW i \in DOMAIN gs, NEW j \in DOMAIN gs, i < j PROVE End(gs[i]) <= Begin(gs[j])
      <3>1. i \in DOMAIN fs
        BY <1>1, <1>2, <2>2
      <3>2. End(fs[i]) <= Begin(f)
        BY <3>1 DEF EndBy
      <3> QED
        BY <1>2, <1>3, <2>2, <3>1, <3>2 DEF Stacked
    <2> QED
      BY <2>1, <2>2 DEF Stacked
  <1>5. ASSUME NEW p PROVE p \in Live(gs) <=> p \in Live(fs) \cup LiveOne(f)
    <2>1. p \in Live(gs) <=> \E i \in DOMAIN gs : p \in LiveOne(gs[i])
      BY LiveIs
    <2>2. p \in Live(fs) <=> \E i \in DOMAIN fs : p \in LiveOne(fs[i])
      BY LiveIs
    <2>3. Len(fs) + 1 \in DOMAIN gs /\ \A i \in DOMAIN fs : i \in DOMAIN gs
      BY <1>1, <1>2
    <2> QED
      BY <1>2, <1>3, <2>1, <2>2, <2>3
  <1>6. Len(gs) = Len(fs) + 1
    BY <1>1 DEF IsPush
  <1> QED
    BY <1>2, <1>4, <1>5, <1>6

\* The last call is replaced.
LEMMA ReplaceLast ==
    ASSUME NEW fs \in Seq(FrameRecords), fs # <<>>, NEW f \in FrameRecords
    PROVE  [fs EXCEPT ![Len(fs)] = f] = Append(SubSeq(fs, 1, Len(fs) - 1), f)
  <1>1. Len(fs) \in Nat /\ Len(fs) >= 1 /\ DOMAIN fs = 1 .. Len(fs)
    OBVIOUS
  <1> DEFINE n == Len(fs)
             gs == SubSeq(fs, 1, n - 1)
             hs == [fs EXCEPT ![n] = f]
             ks == Append(gs, f)
  <1>2. gs \in Seq(FrameRecords) /\ Len(gs) = n - 1 /\ \A i \in 1 .. n - 1 : gs[i] = fs[i]
    <2>1. \A i \in 1 .. n - 1 : fs[i] \in FrameRecords
      BY <1>1
    <2> QED
      BY <1>1, <2>1
  <1>3. hs \in Seq(FrameRecords) /\ Len(hs) = n /\ \A i \in 1 .. n : hs[i] = IF i = n THEN f ELSE fs[i]
    BY <1>1
  <1>4. n \in Nat /\ n >= 1
    BY <1>1
  <1> HIDE DEF gs, hs, n
  <1>5. ks \in Seq(FrameRecords) /\ Len(ks) = n /\ ks[n] = f /\ \A i \in 1 .. n - 1 : ks[i] = gs[i]
    <2>1. /\ ks \in Seq(FrameRecords) /\ Len(ks) = Len(gs) + 1
          /\ \A i \in 1 .. Len(gs) : ks[i] = gs[i]
          /\ ks[Len(gs) + 1] = f
      BY <1>2, AppendProperties
    <2> QED
      BY <1>2, <1>4, <2>1
  <1> HIDE DEF ks
  <1>6. \A i \in 1 .. n : hs[i] = ks[i]
    <2> SUFFICES ASSUME NEW i \in 1 .. n PROVE hs[i] = ks[i]
      OBVIOUS
    <2>1. CASE i = n
      BY <1>3, <1>5, <2>1
    <2>2. CASE i # n
      <3>1. i \in 1 .. n - 1
        BY <1>4, <2>2
      <3> QED
        BY <1>2, <1>3, <1>5, <2>2, <3>1
    <2> QED
      BY <2>1, <2>2
  <1>7. hs = ks
    BY <1>3, <1>5, <1>6, SeqEqual
  <1> QED
    BY <1>7 DEF hs, ks, gs, n

\* There is a new name.
LEMMA NewVarIs ==
    ASSUME NEW t, NEW i, NEW k
    PROVE  NewVar(t, i, k) \notin Captured /\ \E n \in Nat : NewVar(t, i, k) = <<t, i, k, n>>
  <1> DEFINE N == Cardinality(Closures)
             M == {n \in 0 .. N : <<t, i, k, n>> \notin Captured}
  <1>1. N \in Nat /\ IsFiniteSet(Closures)
    BY RegistersAssumption, FS_CardinalityType
  <1>2. M # {}
    <2> SUFFICES ASSUME M = {} PROVE FALSE
      OBVIOUS
    <2> DEFINE Of(c, n) == c \in Closures /\ closure[c].var = <<t, i, k, n>>
               f == [n \in 0 .. N |-> CHOOSE c : Of(c, n)]
    <2>1. \A n \in 0 .. N : \E c : Of(c, n)
      BY DEF Captured
    <2>2. \A n \in 0 .. N : Of(f[n], n)
      <3> HIDE DEF Of
      <3> QED
        BY <2>1
    <2>3. f \in [0 .. N -> Closures]
      BY <2>2
    <2>4. IsFiniteSet(0 .. N) /\ Cardinality(0 .. N) = N + 1
      BY <1>1, FS_Interval
    <2>5. \E x, y \in 0 .. N : x # y /\ f[x] = f[y]
      <3> HIDE DEF f
      <3>1. Cardinality(Closures) < Cardinality(0 .. N)
        BY <1>1, <2>4
      <3> QED
        BY <1>1, <2>3, <2>4, <3>1, FS_PigeonHole
    <2>6. PICK x \in 0 .. N, y \in 0 .. N : x # y /\ f[x] = f[y]
      BY <2>5
    <2>7. <<t, i, k, x>> = <<t, i, k, y>>
      <3> HIDE DEF f
      <3> QED
        BY <2>2, <2>6
    <2> QED
      BY <2>6, <2>7
  <1>3. PICK m \in M : \A n \in M : m <= n
    <2>1. M \in SUBSET Nat
      BY <1>1
    <2> HIDE DEF M
    <2> QED
      BY <1>2, <2>1, SmallestExists
  <1> DEFINE V == {<<t, i, k, n>> : n \in 0 .. Cardinality(Closures)}
             Least(v) == /\ v \notin Captured
                         /\ \A n \in 0 .. v[4] - 1 : <<t, i, k, n>> \in Captured
  <1>4. <<t, i, k, m>> \in V /\ Least(<<t, i, k, m>>)
    <2>1. m \in 0 .. N /\ <<t, i, k, m>> \notin Captured
      OBVIOUS
    <2>2. \A n \in 0 .. m - 1 : <<t, i, k, n>> \in Captured
      <3> SUFFICES ASSUME NEW n \in 0 .. m - 1 PROVE <<t, i, k, n>> \in Captured
        OBVIOUS
      <3>1. n \in 0 .. N /\ ~(m <= n)
        BY <1>1, <2>1
      <3> QED
        BY <1>3, <3>1
    <2> QED
      BY <2>1, <2>2
  <1>5. NewVar(t, i, k) = CHOOSE v \in V : Least(v)
    BY DEF NewVar
  <1>6. NewVar(t, i, k) \in V /\ Least(NewVar(t, i, k))
    <2> HIDE DEF V, Least
    <2> QED
      BY <1>4, <1>5
  <1> QED
    BY <1>1, <1>6

-----------------------------------------------------------------------------
(* Steps.                                                                  *)

\* The variables in use after a step,
LEMMA UsedInUse ==
    ASSUME NEW w, IsUsed(w, LiveOf(ls'), closure')
    PROVE  w \in InUse'
  <1>1. CASE \E c \in Closures : closure'[c] # None /\ closure'[c].var = w
    BY <1>1 DEF InUse, Captured
  <1>2. CASE \E t \in Threads : \E p \in LiveOf(ls')[t] : p[2] = w
    <2>1. PICK t \in Threads : \E p \in LiveOf(ls')[t] : p[2] = w
      BY <1>2
    <2>2. PICK p \in Live(ls'[t].frames) : p[2] = w
      BY <2>1 DEF LiveOf
    <2>3. PICK i \in DOMAIN ls'[t].frames : p \in LiveOne(ls'[t].frames[i])
      BY LiveIs
    <2>4. PICK k \in DOMAIN ls'[t].frames[i].vars : w = ls'[t].frames[i].vars[k]
      BY <2>2, <2>3 DEF LiveOne
    <2>5. w \in Range(ls'[t].frames[i].vars)
      BY <2>4 DEF Range
    <2>6. w \in InScope(t)'
      BY <2>5 DEF InScope, Frames
    <2> QED
      BY <2>6 DEF InUse
  <1> QED
    BY <1>1, <1>2 DEF IsUsed

\* and their values.
LEMMA WriteIs ==
    ASSUME NEW v, NEW x, Write(v, x)
    PROVE  \A w : IsUsed(w, LiveOf(ls'), closure') => store'[w] = IF w = v THEN x ELSE store[w]
  <1> SUFFICES ASSUME NEW w, IsUsed(w, LiveOf(ls'), closure')
               PROVE  store'[w] = IF w = v THEN x ELSE store[w]
    OBVIOUS
  <1>1. w \in InUse'
    BY UsedInUse
  <1> QED
    BY <1>1 DEF Write

\* A step that writes no variable keeps the values of those in use.
LEMMA ForgetIs ==
    ASSUME Forget
    PROVE  \A w : IsUsed(w, LiveOf(ls'), closure') => store'[w] = store[w]
  <1> SUFFICES ASSUME NEW w, IsUsed(w, LiveOf(ls'), closure')
               PROVE  store'[w] = store[w]
    OBVIOUS
  <1>1. w \in InUse'
    BY UsedInUse
  <1> QED
    BY <1>1 DEF Forget

\* What is left to show of a step.
LEMMA StepKeeps ==
    ASSUME IInv, NEW t \in Threads, NEW L, ls' = [ls EXCEPT ![t] = L], ThreadOk(t, L),
           Bound(LiveOf(ls'), ArrayOf(ls'), ListOf(ls'), uv', closure', store')
    PROVE  IInv'
  <1>1. ls'[t] = L /\ (\A s \in Threads : s # t => ls'[s] = ls[s]) /\ DOMAIN ls' = Threads
    BY DEF IInv
  <1>2. \A s \in Threads : ThreadOk(s, ls'[s])
    BY <1>1 DEF IInv
  <1> QED
    BY <1>1, <1>2 DEF IInv

\* Thread L with another registry, other calls and another list.
With(L, rg, fs, q) ==
    [status |-> L.status, thread |-> L.thread, options |-> L.options,
     reg |-> rg, frames |-> fs, uvcache |-> q]

-----------------------------------------------------------------------------
(* Threads.                                                                *)

\* What the invariant says of a thread,
LEMMA ThreadFacts ==
    ASSUME IInv, NEW t \in Threads
    PROVE  /\ DOMAIN ls = Threads /\ ThreadOk(t, ls[t])
           /\ ls[t] = With(ls[t], ls[t].reg, ls[t].frames, ls[t].uvcache)
           /\ ls[t].frames \in Seq(FrameRecords) /\ ls[t].uvcache \in Seq(Upvals)
           /\ IsRegistry(ls[t].reg) /\ Stacked(t, ls[t].frames, ls[t].reg.top)
           /\ ls[t].reg.top \in Nat /\ Capacity(ls[t].reg) \in Nat
           /\ ls[t].reg.top <= Capacity(ls[t].reg)
           /\ ls[t].status \in {"none", "live", "dead", "pooled"} /\ ls[t].thread \in BOOLEAN
           /\ ls[t].options \in Options
           /\ ls[t].status # "live" => ls[t].frames = <<>>
           /\ LiveOf(ls)[t] = Live(ls[t].frames) /\ ArrayOf(ls)[t] = ls[t].reg.array
           /\ ListOf(ls)[t] = ls[t].uvcache
  <1>1. DOMAIN ls = Threads /\ ThreadOk(t, ls[t])
    BY DEF IInv
  <1>2. ls[t] \in [status : {"none", "live", "dead", "pooled"}, thread : BOOLEAN, options : Options,
                   reg : {ls[t].reg}, frames : Seq(FrameRecords), uvcache : Seq(Upvals)]
        /\ IsRegistry(ls[t].reg) /\ Stacked(t, ls[t].frames, ls[t].reg.top)
        /\ (ls[t].status # "live" => ls[t].frames = <<>>)
    BY <1>1 DEF ThreadOk
  <1>3. ls[t].reg.top \in Nat /\ Capacity(ls[t].reg) \in Nat /\ ls[t].reg.top <= Capacity(ls[t].reg)
    BY <1>2 DEF IsRegistry
  <1>4. ls[t] = With(ls[t], ls[t].reg, ls[t].frames, ls[t].uvcache)
    BY <1>2 DEF With
  <1> QED
    BY <1>1, <1>2, <1>3, <1>4 DEF LiveOf, ArrayOf, ListOf

\* and what makes it one.
LEMMA WithOk ==
    ASSUME NEW t, NEW L, ThreadOk(t, L), NEW rg, IsRegistry(rg), NEW fs \in Seq(FrameRecords),
           NEW q \in Seq(Upvals), Stacked(t, fs, rg.top), L.status # "live" => fs = <<>>
    PROVE  /\ ThreadOk(t, With(L, rg, fs, q))
           /\ With(L, rg, fs, q).reg = rg /\ With(L, rg, fs, q).frames = fs
           /\ With(L, rg, fs, q).uvcache = q
  <1>1. With(L, rg, fs, q).reg = rg /\ With(L, rg, fs, q).frames = fs
        /\ With(L, rg, fs, q).uvcache = q /\ With(L, rg, fs, q).status = L.status
    BY DEF With
  <1>2. L.status \in {"none", "live", "dead", "pooled"} /\ L.thread \in BOOLEAN /\ L.options \in Options
    BY DEF ThreadOk
  <1>3. With(L, rg, fs, q) \in [status : {"none", "live", "dead", "pooled"}, thread : BOOLEAN,
                                options : Options, reg : {rg}, frames : Seq(FrameRecords),
                                uvcache : Seq(Upvals)]
    BY <1>2 DEF With
  <1> QED
    BY <1>1, <1>3 DEF ThreadOk

\* No calls are stacked.
LEMMA StackedNone ==
    ASSUME NEW t, NEW top
    PROVE  Stacked(t, <<>>, top) /\ Live(<<>>) = {} /\ <<>> \in Seq(FrameRecords) /\ <<>> \in Seq(Upvals)
  <1>1. Stacked(t, <<>>, top)
    BY DEF Stacked
  <1>2. Live(<<>>) = {}
    BY LiveIs
  <1> QED
    BY <1>1, <1>2

\* The running call.
LEMMA RunningFacts ==
    ASSUME IInv, NEW t \in Threads, Running(t)
    PROVE  /\ ls[t].status = "live" /\ Frames(t) = ls[t].frames
           /\ Len(ls[t].frames) \in Nat /\ Len(ls[t].frames) >= 1
           /\ DOMAIN ls[t].frames = 1 .. Len(ls[t].frames)
           /\ Top(t) = ls[t].frames[Len(ls[t].frames)]
           /\ FrameOk(t, Len(ls[t].frames), Top(t)) /\ Top(t) \in FrameRecords
           /\ Free(t) = End(Top(t)) /\ Free(t) \in Nat /\ Free(t) <= ls[t].reg.top
           /\ \A i \in DOMAIN ls[t].frames : End(ls[t].frames[i]) <= Free(t)
           /\ \A p \in Live(ls[t].frames) : p[1] < Free(t)
  <1> DEFINE fs == ls[t].frames
             n == Len(fs)
  <1>1. ls[t].status = "live" /\ Frames(t) = fs /\ fs # <<>> /\ fs \in Seq(FrameRecords)
    BY ThreadFacts DEF Running, Frames
  <1>2. n \in Nat /\ n >= 1 /\ DOMAIN fs = 1 .. n /\ n \in DOMAIN fs
    BY <1>1
  <1>3. Top(t) = fs[n]
    BY <1>1 DEF Top, Last
  <1>4. Stacked(t, fs, ls[t].reg.top) /\ ls[t].reg.top \in Nat
    BY ThreadFacts
  <1> HIDE DEF fs, n
  <1>5. FrameOk(t, n, Top(t)) /\ End(Top(t)) <= ls[t].reg.top
    BY <1>2, <1>3, <1>4 DEF Stacked
  <1>6. Top(t) \in FrameRecords
    BY <1>5 DEF FrameOk
  <1>7. Free(t) = End(Top(t)) /\ Free(t) \in Nat
    BY <1>5, FrameFacts DEF Free, End
  <1>8. ASSUME NEW i \in DOMAIN fs PROVE End(fs[i]) <= Free(t)
    <2>1. FrameOk(t, i, fs[i])
      BY <1>4 DEF Stacked
    <2>2. End(fs[i]) \in Nat /\ Begin(Top(t)) \in Nat /\ Begin(Top(t)) <= Free(t)
      BY <1>5, <1>7, <2>1, FrameFacts
    <2>3. CASE i = n
      BY <1>3, <1>7, <2>3
    <2>4. CASE i # n
      <3>1. i < n
        BY <1>2, <2>4
      <3>2. End(fs[i]) <= Begin(Top(t))
        BY <1>2, <1>3, <1>4, <3>1 DEF Stacked
      <3> QED
        BY <1>7, <2>2, <3>2
    <2> QED
      BY <2>3, <2>4
  <1>9. ASSUME NEW p \in Live(fs) PROVE p[1] < Free(t)
    <2>1. PICK i \in DOMAIN fs : p \in LiveOne(fs[i])
      BY LiveIs
    <2>2. FrameOk(t, i, fs[i])
      BY <1>4 DEF Stacked
    <2>3. p[1] \in Nat /\ p[1] < End(fs[i]) /\ End(fs[i]) \in Nat
      BY <2>1, <2>2, LiveOneFacts, FrameFacts
    <2> QED
      BY <1>7, <1>8, <2>3
  <1>10. n \in Nat /\ n >= 1 /\ DOMAIN fs = 1 .. n
    BY <1>2
  <1>11. Free(t) <= ls[t].reg.top
    BY <1>5, <1>7
  <1> QED
    BY <1>1, <1>3, <1>5, <1>6, <1>7, <1>8, <1>9, <1>10, <1>11 DEF fs, n

\* The list of a thread, as the invariant says.
LEMMA ListFacts ==
    ASSUME IInv, NEW t \in Threads
    PROVE  OpenList(t, ls[t].uvcache)
  <1> DEFINE q == ls[t].uvcache
  <1>1. Bound(LiveOf(ls), ArrayOf(ls), ListOf(ls), uv, closure, store)
    BY DEF IInv
  <1>2. ListOf(ls)[t] = q /\ LiveOf(ls)[t] = Live(ls[t].frames)
    BY DEF ListOf, LiveOf
  <1>3. q \in Seq(Upvals) /\ \A i, j \in DOMAIN q : i < j => uv[q[i]].index < uv[q[j]].index
    BY <1>1, <1>2 DEF Bound, Listed
  <1>4. DOMAIN q = 1 .. Len(q) /\ Len(q) \in Nat /\ \A i \in DOMAIN q : q[i] \in Upvals
    BY <1>3
  <1>5. \A i \in DOMAIN q : OnVariable(t, q[i], LiveOf(ls), uv, closure)
    BY <1>1, <1>2 DEF Bound, Placed
  <1>6. ASSUME NEW i \in DOMAIN q
        PROVE  /\ uv[q[i]] # None /\ uv[q[i]].reg = t /\ uv[q[i]].index \in Nat /\ ~uv[q[i]].closed
               /\ \E p \in Live(ls[t].frames) : p[1] = uv[q[i]].index
    <2>1. uv[q[i]] # None /\ uv[q[i]].reg = t /\ \E p \in Live(ls[t].frames) : p[1] = uv[q[i]].index
      BY <1>2, <1>5 DEF OnVariable
    <2>2. q[i] \in Upvals
      BY <1>4
    <2>3. uv[q[i]].index \in Nat /\ ~uv[q[i]].closed
      BY <1>1, <2>1, <2>2, RegistersAssumption DEF Bound, Objects
    <2> QED
      BY <2>1, <2>3
  <1> QED
    BY <1>3, <1>4, <1>6 DEF OpenList

\* closeUpvalues.
LEMMA ClosingBound ==
    ASSUME IInv, NEW t \in Threads, NEW idx \in Nat, closeUpvalues(t, idx), NEW q2,
           q2 = cacheBelow(t, idx) \/ (q2 = <<>> /\ \A p \in Live(ls[t].frames) : p[1] >= idx)
    PROVE  /\ q2 \in Seq(Upvals)
           /\ Bound([LiveOf(ls) EXCEPT ![t] = {p \in Live(ls[t].frames) : p[1] < idx}], ArrayOf(ls),
                    [ListOf(ls) EXCEPT ![t] = q2], uv', closure, store)
  <1> DEFINE q == ls[t].uvcache
             H == LiveOf(ls)
             A == ArrayOf(ls)
             Q == ListOf(ls)
             H2 == [LiveOf(ls) EXCEPT ![t] = {p \in Live(ls[t].frames) : p[1] < idx}]
             Q2 == [ListOf(ls) EXCEPT ![t] = q2]
  <1>1. Bound(H, A, Q, uv, closure, store)
    BY DEF IInv
  <1>2. Q[t] = q /\ H[t] = Live(ls[t].frames) /\ A[t] = ls[t].reg.array
    BY ThreadFacts
  <1>3. OpenList(t, q)
    BY ListFacts
  <1>4. Q2[t] = q2 /\ H2[t] = {p \in H[t] : p[1] < idx}
        /\ \A s \in Threads : s # t => H2[s] = H[s] /\ Q2[s] = Q[s]
    BY <1>2 DEF LiveOf, ListOf
  <1>5. \A p \in H[t] : A[t][p[1]] \in Contents
    <2> SUFFICES ASSUME NEW p \in Live(ls[t].frames) PROVE ls[t].reg.array[p[1]] \in Contents
      BY <1>2
    <2>1. p[1] \in Nat /\ p[1] < ls[t].reg.top
      BY ThreadFacts, LiveFacts
    <2>2. IsRegistry(ls[t].reg) /\ p[1] \in 0 .. Capacity(ls[t].reg) - 1
      BY <2>1, ThreadFacts
    <2> QED
      BY <2>2 DEF IsRegistry
  <1>6. uv' = [u \in Upvals |->
                  IF Contains(Q[t], u) /\ uv[u].index >= idx
                  THEN [reg |-> None, index |-> 0, closed |-> TRUE, value |-> A[t][uv[u].index]]
                  ELSE uv[u]]
    <2>1. uv' = [u \in Upvals |->
                    IF Contains(q, u) /\ uv[u].index >= idx
                    THEN [reg |-> None, index |-> 0, closed |-> TRUE, value |-> Value(u)]
                    ELSE uv[u]]
      BY DEF closeUpvalues
    <2>2. ASSUME NEW u \in Upvals, Contains(q, u) PROVE Value(u) = A[t][uv[u].index]
      <3>1. PICK i \in DOMAIN q : q[i] = u
        BY <1>3, <2>2 DEF Contains, OpenList
      <3>2. uv[u].reg = t /\ ~uv[u].closed
        BY <1>3, <3>1 DEF OpenList
      <3> QED
        BY <1>2, <3>2 DEF Value
    <2> HIDE DEF q, A, Q
    <2> QED
      BY <1>2, <2>1, <2>2
  <1>7. IsBelow(q, idx, q2)
    <2>1. CASE q2 = cacheBelow(t, idx)
      BY <1>3, <2>1, CacheBelowIs
    <2>2. CASE q2 = <<>> /\ \A p \in Live(ls[t].frames) : p[1] >= idx
      <3>1. \A j \in DOMAIN q : ~(uv[q[j]].index < idx)
        BY <1>3, <2>2 DEF OpenList
      <3>2. q2 \in Seq(Upvals) /\ DOMAIN q2 = {}
        BY <2>2
      <3> HIDE DEF q
      <3> QED
        BY <3>1, <3>2 DEF IsBelow
    <2> QED
      BY <2>1, <2>2
  <1> HIDE DEF H, A, Q, H2, Q2, q
  <1>8. /\ Q2[t] \in Seq(Upvals)
        /\ \A i \in DOMAIN Q2[t] : \E j \in DOMAIN Q[t] : Q2[t][i] = Q[t][j] /\ uv[Q[t][j]].index < idx
        /\ \A i, j \in DOMAIN Q2[t] : i < j => uv[Q2[t][i]].index < uv[Q2[t][j]].index
        /\ \A j \in DOMAIN Q[t] : uv[Q[t][j]].index < idx => Contains(Q2[t], Q[t][j])
    BY <1>2, <1>4, <1>7 DEF IsBelow
  <1>9. Closes(t, idx, H, A, Q, uv, H2, Q2, uv')
    BY <1>4, <1>5, <1>6, <1>8 DEF Closes
  <1>10. Bound(H2, A, Q2, uv', closure, store)
    BY <1>1, <1>9, BoundCut
  <1> QED
    BY <1>7, <1>10 DEF H2, A, Q2, IsBelow

-----------------------------------------------------------------------------
(* How actions write a thread.                                             *)

\* A field of a thread is replaced: the registry,
LEMMA WithReg ==
    ASSUME NEW L, NEW a, NEW b, NEW c, NEW x
    PROVE  [With(L, a, b, c) EXCEPT !.reg = x] = With(L, x, b, c)
  BY SMTT(30) DEF With

\* the calls,
LEMMA WithFrames ==
    ASSUME NEW L, NEW a, NEW b, NEW c, NEW x
    PROVE  [With(L, a, b, c) EXCEPT !.frames = x] = With(L, a, x, c)
  BY SMTT(30) DEF With

\* the list.
LEMMA WithList ==
    ASSUME NEW L, NEW a, NEW b, NEW c, NEW x
    PROVE  [With(L, a, b, c) EXCEPT !.uvcache = x] = With(L, a, b, x)
  BY SMTT(30) DEF With

\* The ways in which the actions write a thread: its registry,
PutReg(t, rg) == ls' = [ls EXCEPT ![t].reg = rg]

\* its calls,
PutFrames(t, fs) == ls' = [ls EXCEPT ![t].frames = fs]

\* its registry and its list (a closure captures a variable),
PutList(t, rg, q) == ls' = [ls EXCEPT ![t].reg = rg, ![t].uvcache = q]

\* all three after upvalues were closed,
PutCut(t, q, rg, fs) == ls' = [ls EXCEPT ![t].uvcache = q, ![t].reg = rg, ![t].frames = fs]

\* and after a return.
PutBack(t, rg, fs, q) == ls' = [ls EXCEPT ![t].reg = rg, ![t].frames = fs, ![t].uvcache = q]

\* Each changes that thread only.
LEMMA PutIs ==
    ASSUME IInv, NEW t \in Threads, NEW rg, NEW fs, Put(t, rg, fs)
    PROVE  ls' = [ls EXCEPT ![t] = With(ls[t], rg, fs, ls[t].uvcache)]
  <1> DEFINE W == ls[t]
             W1 == With(W, rg, W.frames, W.uvcache)
             W2 == With(W, rg, fs, W.uvcache)
  <1>1. /\ W1 = With(W, rg, W.frames, W.uvcache)
        /\ W2 = With(W, rg, fs, W.uvcache)
    OBVIOUS
  <1>2. W = With(W, W.reg, W.frames, W.uvcache) /\ W = ls[t] /\ DOMAIN ls = Threads
    BY ThreadFacts
  <1> HIDE DEF W, W1, W2
  <1>3. W1 = [W EXCEPT !.reg = rg]
    BY <1>1, <1>2, WithReg, SMT
  <1>4. W2 = [W1 EXCEPT !.frames = fs]
    BY <1>1, <1>2, WithFrames, SMT
  <1>5. W2 = [W EXCEPT !.reg = rg, !.frames = fs]
    BY <1>3, <1>4
  <1>6. ls' = [ls EXCEPT ![t] = [ls[t] EXCEPT !.reg = rg, !.frames = fs]]
    BY <1>2 DEF Put
  <1>7. ls' = [ls EXCEPT ![t] = [W EXCEPT !.reg = rg, !.frames = fs]]
    BY <1>2, <1>6
  <1>8. ls' = [ls EXCEPT ![t] = W2]
    BY <1>5, <1>7
  <1> QED
    BY <1>1, <1>2, <1>8

\* The same with the list.
LEMMA PutListIs ==
    ASSUME IInv, NEW t \in Threads, NEW rg, NEW q, PutList(t, rg, q)
    PROVE  ls' = [ls EXCEPT ![t] = With(ls[t], rg, ls[t].frames, q)]
  <1> DEFINE W == ls[t]
             W1 == With(W, rg, W.frames, W.uvcache)
             W2 == With(W, rg, W.frames, q)
  <1>1. /\ W1 = With(W, rg, W.frames, W.uvcache)
        /\ W2 = With(W, rg, W.frames, q)
    OBVIOUS
  <1>2. W = With(W, W.reg, W.frames, W.uvcache) /\ W = ls[t] /\ DOMAIN ls = Threads
    BY ThreadFacts
  <1> HIDE DEF W, W1, W2
  <1>3. W1 = [W EXCEPT !.reg = rg]
    BY <1>1, <1>2, WithReg, SMT
  <1>4. W2 = [W1 EXCEPT !.uvcache = q]
    BY <1>1, <1>2, WithList, SMT
  <1>5. W2 = [W EXCEPT !.reg = rg, !.uvcache = q]
    BY <1>3, <1>4
  <1>6. ls' = [ls EXCEPT ![t] = [ls[t] EXCEPT !.reg = rg, !.uvcache = q]]
    BY <1>2 DEF PutList
  <1>7. ls' = [ls EXCEPT ![t] = [W EXCEPT !.reg = rg, !.uvcache = q]]
    BY <1>2, <1>6
  <1>8. ls' = [ls EXCEPT ![t] = W2]
    BY <1>5, <1>7
  <1> QED
    BY <1>1, <1>2, <1>8

\* The same with all three.
LEMMA PutCutIs ==
    ASSUME IInv, NEW t \in Threads, NEW q, NEW rg, NEW fs, PutCut(t, q, rg, fs)
    PROVE  ls' = [ls EXCEPT ![t] = With(ls[t], rg, fs, q)]
  <1> DEFINE W == ls[t]
             W1 == With(W, W.reg, W.frames, q)
             W2 == With(W, rg, W.frames, q)
             W3 == With(W, rg, fs, q)
  <1>1. /\ W1 = With(W, W.reg, W.frames, q)
        /\ W2 = With(W, rg, W.frames, q)
        /\ W3 = With(W, rg, fs, q)
    OBVIOUS
  <1>2. W = With(W, W.reg, W.frames, W.uvcache) /\ W = ls[t] /\ DOMAIN ls = Threads
    BY ThreadFacts
  <1> HIDE DEF W, W1, W2, W3
  <1>3. W1 = [W EXCEPT !.uvcache = q]
    BY <1>1, <1>2, WithList, SMT
  <1>4. W2 = [W1 EXCEPT !.reg = rg]
    BY <1>1, <1>2, WithReg, SMT
  <1>5. W3 = [W2 EXCEPT !.frames = fs]
    BY <1>1, <1>2, WithFrames, SMT
  <1>6. W3 = [W EXCEPT !.uvcache = q, !.reg = rg, !.frames = fs]
    BY <1>3, <1>4, <1>5
  <1>7. ls' = [ls EXCEPT ![t] = [ls[t] EXCEPT !.uvcache = q, !.reg = rg, !.frames = fs]]
    BY <1>2 DEF PutCut
  <1>8. ls' = [ls EXCEPT ![t] = [W EXCEPT !.uvcache = q, !.reg = rg, !.frames = fs]]
    BY <1>2, <1>7
  <1>9. ls' = [ls EXCEPT ![t] = W3]
    BY <1>6, <1>8
  <1> QED
    BY <1>1, <1>2, <1>9

\* All three fields of a thread are replaced,
IsPut(t, rg, fs, q, L) == L = [ls[t] EXCEPT !.reg = rg, !.frames = fs, !.uvcache = q]
\* in one formula.
LEMMA ThreadPut ==
    ASSUME IInv, NEW t \in Threads, NEW rg, NEW fs, NEW q, NEW L, IsPut(t, rg, fs, q, L)
    PROVE  L = With(ls[t], rg, fs, q)
  <1> DEFINE W == ls[t]
             W1 == With(W, rg, W.frames, W.uvcache)
             W2 == With(W, rg, fs, W.uvcache)
             W3 == With(W, rg, fs, q)
  <1>1. /\ W1 = With(W, rg, W.frames, W.uvcache)
        /\ W2 = With(W, rg, fs, W.uvcache)
        /\ W3 = With(W, rg, fs, q)
    OBVIOUS
  <1>2. W = With(W, W.reg, W.frames, W.uvcache) /\ W = ls[t]
    BY ThreadFacts
  <1> HIDE DEF W, W1, W2, W3
  <1>3. W1 = [W EXCEPT !.reg = rg]
    BY <1>1, <1>2, WithReg, SMT
  <1>4. W2 = [W1 EXCEPT !.frames = fs]
    BY <1>1, <1>2, WithFrames, SMT
  <1>5. W3 = [W2 EXCEPT !.uvcache = q]
    BY <1>1, <1>2, WithList, SMT
  <1>6. W3 = [W EXCEPT !.reg = rg, !.frames = fs, !.uvcache = q]
    BY <1>3, <1>4, <1>5
  <1>7. L = [W EXCEPT !.reg = rg, !.frames = fs, !.uvcache = q]
    BY <1>2 DEF IsPut
  <1>8. L = W3
    BY <1>6, <1>7
  <1> QED
    BY <1>1, <1>2, <1>8

\* The same in another order.
LEMMA PutBackIs ==
    ASSUME IInv, NEW t \in Threads, NEW rg, NEW fs, NEW q, PutBack(t, rg, fs, q)
    PROVE  ls' = [ls EXCEPT ![t] = With(ls[t], rg, fs, q)]
  <1>1. DOMAIN ls = Threads
    BY ThreadFacts
  <1>2. ls' = [ls EXCEPT ![t] = [ls[t] EXCEPT !.reg = rg, !.frames = fs, !.uvcache = q]]
    BY <1>1 DEF PutBack
  <1> DEFINE X == [ls[t] EXCEPT !.reg = rg, !.frames = fs, !.uvcache = q]
             Y == With(ls[t], rg, fs, q)
  <1>3. IsPut(t, rg, fs, q, X)
    BY DEF IsPut
  <1> HIDE DEF X
  <1>4. X = Y
    BY <1>3, ThreadPut
  <1> HIDE DEF Y
  <1>5. ls' = [ls EXCEPT ![t] = X]
    BY <1>2 DEF X
  <1> QED
    BY <1>4, <1>5 DEF Y

\* The same with one field.
LEMMA PutRegIs ==
    ASSUME IInv, NEW t \in Threads, NEW rg, PutReg(t, rg)
    PROVE  ls' = [ls EXCEPT ![t] = With(ls[t], rg, ls[t].frames, ls[t].uvcache)]
  <1> DEFINE W == ls[t]
             W1 == With(W, rg, W.frames, W.uvcache)
  <1>1. /\ W1 = With(W, rg, W.frames, W.uvcache)
    OBVIOUS
  <1>2. W = With(W, W.reg, W.frames, W.uvcache) /\ W = ls[t] /\ DOMAIN ls = Threads
    BY ThreadFacts
  <1> HIDE DEF W, W1
  <1>3. W1 = [W EXCEPT !.reg = rg]
    BY <1>1, <1>2, WithReg, SMT
  <1>4. W1 = [W EXCEPT !.reg = rg]
    BY <1>3
  <1>5. ls' = [ls EXCEPT ![t] = [ls[t] EXCEPT !.reg = rg]]
    BY <1>2 DEF PutReg
  <1>6. ls' = [ls EXCEPT ![t] = [W EXCEPT !.reg = rg]]
    BY <1>2, <1>5
  <1>7. ls' = [ls EXCEPT ![t] = W1]
    BY <1>4, <1>6
  <1> QED
    BY <1>1, <1>2, <1>7

\* The same with the frames.
LEMMA PutFramesIs ==
    ASSUME IInv, NEW t \in Threads, NEW fs, PutFrames(t, fs)
    PROVE  ls' = [ls EXCEPT ![t] = With(ls[t], ls[t].reg, fs, ls[t].uvcache)]
  <1> DEFINE W == ls[t]
             W1 == With(W, W.reg, fs, W.uvcache)
  <1>1. /\ W1 = With(W, W.reg, fs, W.uvcache)
    OBVIOUS
  <1>2. W = With(W, W.reg, W.frames, W.uvcache) /\ W = ls[t] /\ DOMAIN ls = Threads
    BY ThreadFacts
  <1> HIDE DEF W, W1
  <1>3. W1 = [W EXCEPT !.frames = fs]
    BY <1>1, <1>2, WithFrames, SMT
  <1>4. W1 = [W EXCEPT !.frames = fs]
    BY <1>3
  <1>5. ls' = [ls EXCEPT ![t] = [ls[t] EXCEPT !.frames = fs]]
    BY <1>2 DEF PutFrames
  <1>6. ls' = [ls EXCEPT ![t] = [W EXCEPT !.frames = fs]]
    BY <1>2, <1>5
  <1>7. ls' = [ls EXCEPT ![t] = W1]
    BY <1>4, <1>6
  <1> QED
    BY <1>1, <1>2, <1>7

-----------------------------------------------------------------------------
(* Variables are assigned, declared and forgotten.                         *)

\* A variable in a register is assigned.
LEMMA AssignStep ==
    ASSUME IInv, NEW t \in Threads, NEW p \in LiveOf(ls)[t], NEW x \in Contents,
           ls' = [ls EXCEPT ![t] = With(ls[t], Set(ls[t].reg, p[1], x), ls[t].frames, ls[t].uvcache)],
           uv' = uv, closure' = closure, Write(p[2], x)
    PROVE  IInv'
  <1> DEFINE r == p[1]
             rg == ls[t].reg
             rg2 == Set(ls[t].reg, p[1], x)
             L == With(ls[t], rg2, ls[t].frames, ls[t].uvcache)
  <1>1. r \in Nat /\ r < rg.top
    BY ThreadFacts, LiveFacts
  <1>2. IsRegistry(rg) /\ rg.top \in Nat /\ rg.top <= Capacity(rg) /\ Capacity(rg) \in Nat
    BY ThreadFacts
  <1>3. ls' = [ls EXCEPT ![t] = L]
    OBVIOUS
  <1>4. rg2 = Set(rg, r, x)
    OBVIOUS
  <1> HIDE DEF r, rg, rg2
  <1>5. /\ IsRegistry(rg2) /\ rg2.top = rg.top /\ rg2.array[r] = x
        /\ \A j \in Nat : j < rg.top /\ j # r => rg2.array[j] = rg.array[j]
    <2>1. Fits(rg, r + 1) /\ rg.top <= rg.top /\ ~(r >= rg.top)
      BY <1>1, <1>2 DEF Fits
    <2> QED
      BY <1>4, <1>1, <1>2, <2>1, SetKeeps
  <1>6. ThreadOk(t, L) /\ L.reg = rg2 /\ L.frames = ls[t].frames /\ L.uvcache = ls[t].uvcache
    BY <1>5, ThreadFacts, WithOk DEF rg
  <1> HIDE DEF L
  <1>7. /\ LiveOf(ls') = LiveOf(ls) /\ ListOf(ls') = ListOf(ls)
        /\ ArrayOf(ls')[t] = rg2.array
        /\ \A s \in Threads : s # t => ArrayOf(ls')[s] = ArrayOf(ls)[s]
    <2>1. ls'[t] = L /\ \A s \in Threads : s # t => ls'[s] = ls[s]
      BY <1>3, ThreadFacts
    <2> QED
      BY <1>6, <2>1 DEF LiveOf, ListOf, ArrayOf
  <1>8. ASSUME NEW s \in Threads, NEW q \in LiveOf(ls)[s]
        PROVE  ArrayOf(ls')[s][q[1]] = IF s = t /\ q[1] = p[1] THEN x ELSE ArrayOf(ls)[s][q[1]]
    <2>1. CASE s # t
      BY <1>7, <2>1
    <2>2. CASE s = t
      <3>1. q[1] \in Nat /\ q[1] < rg.top
        BY <2>2, ThreadFacts, LiveFacts DEF rg
      <3>2. ArrayOf(ls)[t] = rg.array /\ p[1] = r
        BY ThreadFacts DEF rg, r
      <3> QED
        BY <1>5, <1>7, <2>2, <3>1, <3>2
    <2> QED
      BY <2>1, <2>2
  <1>9. \A w : IsUsed(w, LiveOf(ls), closure) => store'[w] = IF w = p[2] THEN x ELSE store[w]
    <2>1. \A w : IsUsed(w, LiveOf(ls'), closure') => store'[w] = IF w = p[2] THEN x ELSE store[w]
      BY WriteIs
    <2> QED
      BY <1>7, <2>1
  <1>10. Bound(LiveOf(ls), ArrayOf(ls), ListOf(ls), uv, closure, store)
    BY DEF IInv
  <1> DEFINE H == LiveOf(ls)
             A == ArrayOf(ls)
             A2 == ArrayOf(ls')
             Q == ListOf(ls)
  <1>11. p \in H[t] /\ Bound(H, A, Q, uv, closure, store)
    BY <1>10
  <1>12. \A s \in Threads : \A q \in H[s] :
            A2[s][q[1]] = IF s = t /\ q[1] = p[1] THEN x ELSE A[s][q[1]]
    BY <1>8
  <1>13. \A w : IsUsed(w, H, closure) => store'[w] = IF w = p[2] THEN x ELSE store[w]
    BY <1>9
  <1> HIDE DEF H, A, A2, Q
  <1>14. Bound(H, A2, Q, uv, closure, store')
    BY <1>11, <1>12, <1>13, BoundAssign
  <1>15. Bound(LiveOf(ls), ArrayOf(ls'), ListOf(ls), uv, closure, store')
    BY <1>14 DEF H, A2, Q
  <1> QED
    BY <1>3, <1>6, <1>7, <1>15, StepKeeps

\* An assignment.
LEMMA AssignLocalKeeps ==
    ASSUME IInv, NEW t \in Threads, NEW i, NEW x \in Contents, AssignLocal(t, i, x)
    PROVE  IInv'
  <1> DEFINE f == Top(t)
             p == <<f.base + i - 1, f.vars[i]>>
             rg2 == Set(ls[t].reg, f.base + i - 1, x)
  <1>1. Running(t) /\ i \in DOMAIN f.vars /\ Put(t, rg2, Frames(t)) /\ uv' = uv /\ closure' = closure
        /\ Write(f.vars[i], x)
    BY DEF AssignLocal
  <1>2. /\ Frames(t) = ls[t].frames /\ Len(ls[t].frames) \in DOMAIN ls[t].frames
        /\ f = ls[t].frames[Len(ls[t].frames)]
    BY <1>1, RunningFacts
  <1>3. p \in LiveOf(ls)[t]
    <2>1. p \in LiveOne(f)
      BY <1>1 DEF LiveOne
    <2> HIDE DEF p, f
    <2>2. p \in Live(ls[t].frames)
      BY <1>2, <2>1, LiveIs
    <2> QED
      BY <2>2, ThreadFacts
  <1>4. p[1] = f.base + i - 1 /\ p[2] = f.vars[i]
    OBVIOUS
  <1> HIDE DEF p
  <1>5. ls' = [ls EXCEPT ![t] = With(ls[t], Set(ls[t].reg, p[1], x), ls[t].frames, ls[t].uvcache)]
    BY <1>1, <1>2, <1>4, PutIs
  <1>6. Write(p[2], x)
    BY <1>1, <1>4
  <1> QED
    BY <1>1, <1>3, <1>5, <1>6, AssignStep

\* Bound depends on what the arguments are for each thread.
LEMMA SameBound ==
    ASSUME NEW H, NEW A, NEW Q, NEW U, NEW C, NEW S, Bound(H, A, Q, U, C, S), NEW H2, NEW Q2,
           \A s \in Threads : H2[s] = H[s] /\ Q2[s] = Q[s]
    PROVE  Bound(H2, A, Q2, U, C, S)
  <1>1. Once(H2)
    BY DEF Bound, Once
  <1>2. Objects(U) /\ Holding(U, C)
    BY DEF Bound
  <1>3. Attached(H2, U, C)
    BY DEF Bound, Attached
  <1>4. Listed(Q2, U)
    BY DEF Bound, Listed
  <1>5. Placed(H2, Q2, U, C)
    <2> SUFFICES ASSUME NEW t \in Threads, NEW i \in DOMAIN Q[t] PROVE OnVariable(t, Q[t][i], H2, U, C)
      BY DEF Placed
    <2>1. OnVariable(t, Q[t][i], H, U, C)
      BY DEF Bound, Placed
    <2>2. H2[t] = H[t]
      OBVIOUS
    <2> QED
      BY <2>1, <2>2, Zenon DEF OnVariable
  <1>6. Kept(H2, A, U, C, S)
    BY DEF Bound, Kept
  <1> QED
    BY <1>1, <1>2, <1>3, <1>4, <1>5, <1>6 DEF Bound

\* What is left in thread t, when its variables H and its list Q are, and the
\* upvalues U, before another variable is made.
Remains(t, H, Q, U) ==
    /\ Bound(H, ArrayOf(ls), Q, U, closure, store)
    /\ \A s \in Threads : s # t => H[s] = LiveOf(ls)[s] /\ Q[s] = ListOf(ls)[s]
    /\ \A s \in Threads : \A p \in H[s] : p \in LiveOf(ls)[s]

\* Nothing is given up,
LEMMA AllRemains ==
    ASSUME IInv, NEW t \in Threads
    PROVE  Remains(t, LiveOf(ls), ListOf(ls), uv)
  BY DEF IInv, Remains

\* or the variables from idx on: q2 is what the list becomes.
IsCutList(t, idx, q2) ==
    q2 = cacheBelow(t, idx) \/ (q2 = <<>> /\ \A p \in Live(ls[t].frames) : p[1] >= idx)
\* The others remain.
LEMMA BelowRemains ==
    ASSUME IInv, NEW t \in Threads, NEW idx \in Nat, closeUpvalues(t, idx), NEW q2,
           IsCutList(t, idx, q2)
    PROVE  /\ q2 \in Seq(Upvals)
           /\ \E H, Q : /\ Remains(t, H, Q, uv') /\ Q[t] = q2
                        /\ H[t] = {p \in Live(ls[t].frames) : p[1] < idx}
  <1> DEFINE H == [LiveOf(ls) EXCEPT ![t] = {p \in Live(ls[t].frames) : p[1] < idx}]
             Q == [ListOf(ls) EXCEPT ![t] = q2]
  <1>1. q2 \in Seq(Upvals) /\ Bound(H, ArrayOf(ls), Q, uv', closure, store)
    BY ClosingBound DEF IsCutList
  <1>2. Q[t] = q2 /\ H[t] = {p \in Live(ls[t].frames) : p[1] < idx}
        /\ \A s \in Threads : s # t => H[s] = LiveOf(ls)[s] /\ Q[s] = ListOf(ls)[s]
    BY DEF LiveOf, ListOf
  <1>3. ASSUME NEW s \in Threads, NEW p \in H[s] PROVE p \in LiveOf(ls)[s]
    <2>1. LiveOf(ls)[t] = Live(ls[t].frames)
      BY DEF LiveOf
    <2> HIDE DEF H
    <2> QED
      BY <1>2, <1>3, <2>1
  <1> HIDE DEF H, Q
  <1>4. Remains(t, H, Q, uv')
    BY <1>1, <1>2, <1>3 DEF Remains
  <1> QED
    BY <1>1, <1>2, <1>4

\* The registers of what remains are kept.
LEMMA RemainingAgrees ==
    ASSUME IInv, NEW t \in Threads, NEW H, NEW Q, NEW U, Remains(t, H, Q, U), NEW L,
           ls' = [ls EXCEPT ![t] = L], NEW m \in Nat, \A p \in H[t] : p[1] < m,
           Keeps(ls[t].reg, L.reg, m)
    PROVE  \A s \in Threads : \A p \in H[s] : ArrayOf(ls')[s][p[1]] = ArrayOf(ls)[s][p[1]]
  <1> SUFFICES ASSUME NEW s \in Threads, NEW p \in H[s]
               PROVE  ArrayOf(ls')[s][p[1]] = ArrayOf(ls)[s][p[1]]
    OBVIOUS
  <1>1. DOMAIN ls = Threads
    BY ThreadFacts
  <1>2. ls'[t] = L /\ (s # t => ls'[s] = ls[s])
    BY <1>1
  <1>3. CASE s # t
    BY <1>2, <1>3 DEF ArrayOf
  <1>4. CASE s = t
    <2>1. p \in Live(ls[t].frames)
      BY <1>4, ThreadFacts DEF Remains
    <2>2. p[1] \in Nat /\ p[1] < m
      BY <1>4, <2>1, ThreadFacts, LiveFacts
    <2>3. L.reg.array[p[1]] = ls[t].reg.array[p[1]]
      BY <2>2 DEF Keeps
    <2>4. ArrayOf(ls')[t] = L.reg.array /\ ArrayOf(ls)[t] = ls[t].reg.array
      BY <1>2 DEF ArrayOf
    <2> QED
      BY <1>4, <2>3, <2>4
  <1> QED
    BY <1>3, <1>4

\* A step that gives variables up.
LEMMA CutStep ==
    ASSUME IInv, NEW t \in Threads, NEW H, NEW Q, Remains(t, H, Q, uv'), NEW L,
           ls' = [ls EXCEPT ![t] = L], ThreadOk(t, L), Live(L.frames) = H[t], L.uvcache = Q[t],
           NEW m \in Nat, \A p \in H[t] : p[1] < m, Keeps(ls[t].reg, L.reg, m) \/ H[t] = {},
           closure' = closure, Forget \/ store' = store
    PROVE  IInv'
  <1>1. DOMAIN ls = Threads
    BY ThreadFacts
  <1>2. ls'[t] = L /\ \A s \in Threads : s # t => ls'[s] = ls[s]
    BY <1>1
  <1>3. \A s \in Threads : LiveOf(ls')[s] = H[s] /\ ListOf(ls')[s] = Q[s]
    BY <1>2 DEF Remains, LiveOf, ListOf
  <1>4. \A s \in Threads : \A p \in H[s] : ArrayOf(ls')[s][p[1]] = ArrayOf(ls)[s][p[1]]
    <2>1. CASE Keeps(ls[t].reg, L.reg, m)
      BY <2>1, RemainingAgrees
    <2>2. CASE H[t] = {}
      BY <1>2, <2>2 DEF ArrayOf
    <2> QED
      BY <2>1, <2>2
  <1>5. \A w : IsUsed(w, H, closure) => store'[w] = store[w]
    <2>1. \A w : IsUsed(w, LiveOf(ls'), closure') => store'[w] = store[w]
      <3>1. CASE Forget
        BY <3>1, ForgetIs
      <3>2. CASE store' = store
        BY <3>2
      <3> QED
        BY <3>1, <3>2
    <2>2. ASSUME NEW w, IsUsed(w, H, closure) PROVE IsUsed(w, LiveOf(ls'), closure')
      BY <1>3, <2>2 DEF IsUsed
    <2> QED
      BY <2>1, <2>2
  <1> DEFINE A == ArrayOf(ls)
             A2 == ArrayOf(ls')
             H2 == LiveOf(ls')
             Q2 == ListOf(ls')
  <1>6. Bound(H, A, Q, uv', closure, store)
    BY DEF Remains
  <1>7. /\ \A s \in Threads : H2[s] = H[s] /\ Q2[s] = Q[s]
        /\ \A s \in Threads : \A p \in H[s] : A2[s][p[1]] = A[s][p[1]]
    BY <1>3, <1>4
  <1> HIDE DEF A, A2, H2, Q2
  <1>8. Bound(H, A2, Q, uv', closure, store')
    BY <1>5, <1>6, <1>7, BoundAgree
  <1>9. Bound(H2, A2, Q2, uv', closure, store')
    BY <1>8, <1>7, SameBound
  <1>10. Bound(LiveOf(ls'), ArrayOf(ls'), ListOf(ls'), uv', closure', store')
    BY <1>9 DEF A2, H2, Q2
  <1> QED
    BY <1>10, StepKeeps

\* A new variable takes a register, all of it in one formula.
Adds(t, r, v, x, H, A, Q, U, C, S, H2, A2, S2) ==
    /\ Bound(H, A, Q, U, C, S)
    /\ H2[t] = H[t] \cup {<<r, v>>} /\ \A s \in Threads : s # t => H2[s] = H[s]
    /\ \A p \in H[t] : p[1] # r
    /\ ~IsUsed(v, H, C)
    /\ A2[t][r] = x /\ \A s \in Threads : \A p \in H[s] : A2[s][p[1]] = A[s][p[1]]
    /\ \A w : IsUsed(w, H2, C) => S2[w] = IF w = v THEN x ELSE S[w]

\* It is added.
LEMMA BoundAdds ==
    ASSUME NEW t \in Threads, NEW r, NEW v, NEW x, NEW H, NEW A, NEW Q, NEW U, NEW C, NEW S,
           NEW H2, NEW A2, NEW S2, Adds(t, r, v, x, H, A, Q, U, C, S, H2, A2, S2)
    PROVE  Bound(H2, A2, Q, U, C, S2)
  <1>1. Bound(H, A, Q, U, C, S)
    BY DEF Adds
  <1>2. H2[t] = H[t] \cup {<<r, v>>} /\ \A s \in Threads : s # t => H2[s] = H[s]
    BY DEF Adds
  <1>3. \A p \in H[t] : p[1] # r
    BY DEF Adds
  <1>4. ~IsUsed(v, H, C)
    BY DEF Adds
  <1>5. A2[t][r] = x
    BY DEF Adds
  <1>6. \A s \in Threads : \A p \in H[s] : A2[s][p[1]] = A[s][p[1]]
    BY DEF Adds
  <1>7. \A w : IsUsed(w, H2, C) => S2[w] = IF w = v THEN x ELSE S[w]
    BY DEF Adds
  <1> QED
    BY <1>1, <1>2, <1>3, <1>4, <1>5, <1>6, <1>7, BoundAdd

\* A step that makes a variable, in register r.
LEMMA AddStep ==
    ASSUME IInv, NEW t \in Threads, NEW H, NEW Q, Remains(t, H, Q, uv'), NEW L,
           ls' = [ls EXCEPT ![t] = L], ThreadOk(t, L), L.uvcache = Q[t],
           NEW m \in Nat, \A p \in H[t] : p[1] < m, Keeps(ls[t].reg, L.reg, m),
           NEW r \in Nat, r >= m, NEW v, NEW x, ~IsUsed(v, H, closure),
           Live(L.frames) = H[t] \cup {<<r, v>>}, L.reg.array[r] = x,
           closure' = closure, Write(v, x)
    PROVE  IInv'
  <1>1. DOMAIN ls = Threads
    BY ThreadFacts
  <1>2. ls'[t] = L /\ \A s \in Threads : s # t => ls'[s] = ls[s]
    BY <1>1
  <1>3. \A s \in Threads : ListOf(ls')[s] = Q[s] /\ (s # t => LiveOf(ls')[s] = H[s])
    BY <1>2 DEF Remains, LiveOf, ListOf
  <1>4. LiveOf(ls')[t] = H[t] \cup {<<r, v>>} /\ ArrayOf(ls')[t][r] = x
    BY <1>2 DEF LiveOf, ArrayOf
  <1>5. \A s \in Threads : \A p \in H[s] : ArrayOf(ls')[s][p[1]] = ArrayOf(ls)[s][p[1]]
    BY RemainingAgrees
  <1>6. \A w : IsUsed(w, LiveOf(ls'), closure) => store'[w] = IF w = v THEN x ELSE store[w]
    BY WriteIs
  <1>7. \A p \in H[t] : p[1] # r
    <2> SUFFICES ASSUME NEW p \in H[t] PROVE p[1] # r
      OBVIOUS
    <2>1. p \in Live(ls[t].frames)
      BY ThreadFacts DEF Remains
    <2>2. p[1] \in Nat /\ p[1] < m
      BY <2>1, ThreadFacts, LiveFacts
    <2> QED
      BY <2>2
  <1>8. Bound(H, ArrayOf(ls), Q, uv', closure, store)
    BY DEF Remains
  <1> DEFINE A == ArrayOf(ls)
             A2 == ArrayOf(ls')
             H2 == LiveOf(ls')
             Q2 == ListOf(ls')
  <1>9. Bound(H, A, Q, uv', closure, store)
    BY <1>8
  <1>10. /\ \A s \in Threads : Q2[s] = Q[s] /\ (s # t => H2[s] = H[s])
         /\ H2[t] = H[t] \cup {<<r, v>>} /\ A2[t][r] = x
         /\ \A s \in Threads : \A p \in H[s] : A2[s][p[1]] = A[s][p[1]]
         /\ \A w : IsUsed(w, H2, closure) => store'[w] = IF w = v THEN x ELSE store[w]
    BY <1>3, <1>4, <1>5, <1>6
  <1> HIDE DEF A, A2, H2, Q2
  <1>11. \A s \in Threads : s # t => H2[s] = H[s]
    BY <1>10
  <1>12. \A s \in Threads : \A p \in H[s] : A2[s][p[1]] = A[s][p[1]]
    BY <1>10
  <1>13. H2[t] = H[t] \cup {<<r, v>>} /\ A2[t][r] = x
    BY <1>10
  <1>14. \A w : IsUsed(w, H2, closure) => store'[w] = IF w = v THEN x ELSE store[w]
    BY <1>10
  <1>15. Adds(t, r, v, x, H, A, Q, uv', closure, store, H2, A2, store')
    BY <1>7, <1>9, <1>11, <1>12, <1>13, <1>14, Zenon DEF Adds
  <1>16. Bound(H2, A2, Q, uv', closure, store')
    BY <1>15, BoundAdds
  <1>17. Bound(H2, A2, Q2, uv', closure, store')
    BY <1>16, <1>10, SameBound
  <1>18. Bound(LiveOf(ls'), ArrayOf(ls'), ListOf(ls'), uv', closure', store')
    BY <1>17 DEF A2, H2, Q2
  <1> QED
    BY <1>18, StepKeeps

\* A new name is nobody's, of what remains.
LEMMA NewVarUnused ==
    ASSUME IInv, NEW t \in Threads, NEW i, NEW k, NEW H, NEW Q, NEW U, Remains(t, H, Q, U),
           \A p \in H[t] : ~(p[2][2] = i /\ p[2][3] = k)
    PROVE  ~IsUsed(NewVar(t, i, k), H, closure)
  <1> DEFINE v == NewVar(t, i, k)
  <1>1. v \notin Captured /\ \E n \in Nat : v = <<t, i, k, n>>
    BY NewVarIs
  <1>2. v[1] = t /\ v[2] = i /\ v[3] = k
    BY <1>1
  <1> HIDE DEF v
  <1>3. ASSUME NEW c \in Closures, closure[c] # None PROVE closure[c].var # v
    BY <1>1, <1>3 DEF Captured
  <1>4. ASSUME NEW s \in Threads, NEW p \in H[s] PROVE p[2] # v
    <2>1. CASE s = t
      BY <1>2, <2>1
    <2>2. CASE s # t
      <3>1. p \in Live(ls[s].frames)
        BY ThreadFacts DEF Remains
      <3>2. p[2][1] = s
        BY <3>1, ThreadFacts, LiveFacts
      <3> QED
        BY <1>2, <2>2, <3>2
    <2> QED
      BY <2>1, <2>2
  <1> QED
    BY <1>3, <1>4 DEF IsUsed, v

\* Call f gets another variable,
Grows(t, i, f, v, g) ==
    v = NewVar(t, i, Len(f.vars) + 1) /\ g = [f EXCEPT !.vars = Append(f.vars, v)]

\* and is one then.
LEMMA FrameGrows ==
    ASSUME NEW t \in Threads, NEW i \in Nat, NEW f, FrameOk(t, i, f), NEW v,
           NEW g, Grows(t, i, f, v, g)
    PROVE  /\ FrameOk(t, i, g) /\ End(g) = End(f) + 1 /\ Begin(g) = Begin(f)
           /\ LiveOne(g) = LiveOne(f) \cup {<<End(f), v>>}
  <1> DEFINE n == Len(f.vars)
             vs == Append(f.vars, v)
  <1>1. v = NewVar(t, i, n + 1) /\ g = [f EXCEPT !.vars = vs]
    BY DEF Grows
  <1>2. /\ n \in Nat /\ f.vars \in Seq(Names) /\ DOMAIN f.vars = 1 .. n /\ f \in FrameRecords
        /\ f.base \in Nat
    <2>1. f.vars \in Seq(Names) /\ DOMAIN f.vars = 1 .. Len(f.vars) /\ f.base \in Nat /\ Len(f.vars) \in Nat
      BY FrameFacts
    <2>2. f \in FrameRecords
      BY DEF FrameOk
    <2> QED
      BY <2>1, <2>2
  <1>3. v \in Names /\ v[1] = t /\ v[2] = i /\ v[3] = n + 1
    <2>1. PICK m \in Nat : v = <<t, i, n + 1, m>>
      BY <1>1, NewVarIs
    <2>2. n + 1 \in Nat
      BY <1>2
    <2> HIDE DEF n
    <2> QED
      BY <2>1, <2>2 DEF Names
  <1>4. /\ vs \in Seq(Names) /\ Len(vs) = n + 1 /\ DOMAIN vs = 1 .. n + 1 /\ vs # <<>>
        /\ vs[n + 1] = v /\ \A k \in 1 .. n : vs[k] = f.vars[k]
    <2>1. n = Len(f.vars) /\ f.vars \in Seq(Names) /\ v \in Names
      BY <1>2, <1>3
    <2> HIDE DEF n
    <2>2. vs \in Seq(Names) /\ Len(vs) = n + 1 /\ vs[n + 1] = v /\ \A k \in 1 .. n : vs[k] = f.vars[k]
      BY <2>1
    <2> HIDE DEF vs
    <2> QED
      BY <1>2, <2>2
  <1>5. /\ g.fn = f.fn /\ g.base = f.base /\ g.ret = f.ret /\ g.guard = f.guard /\ g.vars = vs
        /\ g \in FrameRecords
    BY <1>2, <1>4, <1>1 DEF FrameRecords
  <1> HIDE DEF vs, n
  <1>6. FrameOk(t, i, g)
    <2>1. \A k \in DOMAIN g.vars : g.vars[k][1] = t /\ g.vars[k][2] = i /\ g.vars[k][3] = k
      <3> SUFFICES ASSUME NEW k \in 1 .. n + 1
                   PROVE  vs[k][1] = t /\ vs[k][2] = i /\ vs[k][3] = k
        BY <1>4, <1>5
      <3>1. CASE k = n + 1
        BY <1>3, <1>4, <3>1
      <3>2. CASE k # n + 1
        <4>1. k \in 1 .. n
          BY <1>2, <3>2
        <4> QED
          BY <1>2, <1>4, <4>1 DEF FrameOk
      <3> QED
        BY <3>1, <3>2
    <2> QED
      BY <1>4, <1>5, <2>1 DEF FrameOk
  <1>7. End(g) = f.base + (n + 1) /\ End(f) = f.base + n
    BY <1>4, <1>5 DEF End, n
  <1>8. Begin(g) = Begin(f)
    BY <1>5 DEF Begin
  <1>9. ASSUME NEW p PROVE p \in LiveOne(g) <=> p \in LiveOne(f) \cup {<<End(f), v>>}
    <2>1. p \in LiveOne(g) <=> \E k \in DOMAIN g.vars : p = <<g.base + k - 1, g.vars[k]>>
      BY DEF LiveOne
    <2>2. p \in LiveOne(g) <=> \E k \in 1 .. n + 1 : p = <<f.base + k - 1, vs[k]>>
      BY <1>4, <1>5, <2>1
    <2>3. p \in LiveOne(f) <=> \E k \in 1 .. n : p = <<f.base + k - 1, f.vars[k]>>
      BY <1>2, LiveIs
    <2>4. \A k \in 1 .. n + 1 : k \in 1 .. n \/ k = n + 1
      BY <1>2
    <2>5. \A k \in 1 .. n : k \in 1 .. n + 1
      BY <1>2
    <2>6. f.base + (n + 1) - 1 = End(f) /\ n + 1 \in 1 .. n + 1
      BY <1>2, <1>7
    <2> QED
      BY <1>4, <2>2, <2>3, <2>4, <2>5, <2>6
  <1>10. LiveOne(g) = LiveOne(f) \cup {<<End(f), v>>}
    BY <1>9
  <1>11. End(g) = End(f) + 1
    BY <1>2, <1>7
  <1> QED
    BY <1>6, <1>8, <1>10, <1>11

\* The running call is replaced by g, whatever its registers are.
LEMMA TopReplaced ==
    ASSUME IInv, NEW t \in Threads, Running(t), NEW g, FrameOk(t, Len(ls[t].frames), g), NEW top \in Nat,
           End(g) <= top, Begin(g) = Begin(Top(t))
    PROVE  /\ ReplaceTop(t, g) \in Seq(FrameRecords) /\ Stacked(t, ReplaceTop(t, g), top)
           /\ Len(ReplaceTop(t, g)) = Len(ls[t].frames)
           /\ Live(ReplaceTop(t, g)) =
                 {p \in Live(ls[t].frames) : p[1] < Top(t).base} \cup LiveOne(g)
  <1> DEFINE fs == ls[t].frames
             n == Len(ls[t].frames)
             f == Top(t)
             fr == SubSeq(ls[t].frames, 1, Len(ls[t].frames) - 1)
             gs == Append(SubSeq(ls[t].frames, 1, Len(ls[t].frames) - 1), g)
  <1>1. /\ Frames(t) = fs /\ n \in Nat /\ n >= 1 /\ DOMAIN fs = 1 .. n /\ f = fs[n]
        /\ FrameOk(t, n, f)
    BY RunningFacts
  <1>2. fs \in Seq(FrameRecords) /\ Stacked(t, fs, ls[t].reg.top) /\ fs # <<>>
    BY <1>1, ThreadFacts
  <1>3. g \in FrameRecords
    BY DEF FrameOk
  <1>4. ReplaceTop(t, g) = gs
    BY <1>1, <1>2, <1>3, ReplaceLast DEF ReplaceTop
  <1>5. /\ f.base \in Nat /\ Begin(f) \in Nat /\ Begin(f) < f.base
        /\ Begin(g) = Begin(f) /\ Begin(g) < End(g) /\ End(g) \in Nat
    <2>1. Begin(f) \in Nat /\ Begin(f) <= f.fn /\ f.fn < f.base /\ f.base \in Nat /\ f.fn \in Nat
      BY <1>1, FrameFacts
    <2>2. /\ End(g) \in Nat /\ Begin(g) \in Nat /\ Begin(g) <= g.fn /\ g.fn < g.base /\ g.base < End(g)
          /\ g.fn \in Nat /\ g.base \in Nat
      BY <1>1, FrameFacts
    <2> QED
      BY <2>1, <2>2
  <1>6. \A i \in 1 .. n - 1 : End(fs[i]) <= Begin(f) /\ End(fs[i]) \in Nat
    <2> SUFFICES ASSUME NEW i \in 1 .. n - 1 PROVE End(fs[i]) <= Begin(f) /\ End(fs[i]) \in Nat
      OBVIOUS
    <2>1. i \in DOMAIN fs /\ n \in DOMAIN fs /\ i < n
      BY <1>1
    <2>2. End(fs[i]) <= Begin(fs[n]) /\ FrameOk(t, i, fs[i])
      BY <1>2, <2>1 DEF Stacked
    <2> QED
      BY <1>1, <2>2, FrameFacts
  <1>7. n - 1 \in 0 .. Len(fs) /\ Len(fs) = n
    BY <1>1
  <1> HIDE DEF f, n, fs
  <1>8. /\ fr \in Seq(FrameRecords) /\ Len(fr) = n - 1 /\ Stacked(t, fr, top) /\ EndBy(fr, Begin(f))
        /\ Live(fr) = {p \in Live(fs) : p[1] < f.base}
    <2>1. IsCut(fs, n - 1, f.base, fr) /\ IsCut(fs, n - 1, Begin(f), fr)
      <3>1. \A i \in 1 .. n - 1 : End(fs[i]) <= f.base /\ End(fs[i]) <= Begin(f)
        BY <1>5, <1>6
      <3>2. \A i \in DOMAIN fs : i > n - 1 => f.base <= fs[i].base /\ Begin(f) <= fs[i].base
        <4> SUFFICES ASSUME NEW i \in DOMAIN fs, i > n - 1
                     PROVE  f.base <= fs[i].base /\ Begin(f) <= fs[i].base
          OBVIOUS
        <4>1. i = n
          BY <1>1
        <4> QED
          BY <1>1, <1>5, <4>1
      <3>3. fr = SubSeq(fs, 1, n - 1)
        BY DEF fs, n
      <3> QED
        BY <1>2, <1>7, <3>1, <3>2, <3>3 DEF IsCut
    <2>2. Begin(f) <= top /\ Stacked(t, fs, ls[t].reg.top)
      BY <1>2, <1>5
    <2> DEFINE m == n - 1
               top1 == ls[t].reg.top
               b == Begin(f)
               d == f.base
    <2>3. /\ IsCut(fs, m, d, fr) /\ IsCut(fs, m, b, fr) /\ Stacked(t, fs, top1)
          /\ b \in Nat /\ d \in Nat /\ b <= top /\ d <= d
      BY <1>5, <2>1, <2>2
    <2> HIDE DEF fr, m, top1, b, d
    <2>4. fr \in Seq(FrameRecords) /\ Len(fr) = m /\ Stacked(t, fr, top) /\ EndBy(fr, b)
      BY <2>3, CutIs
    <2>5. Live(fr) = {p \in Live(fs) : p[1] < d}
      BY <2>3, CutLive
    <2> QED
      BY <2>4, <2>5 DEF m, b, d
  <1>9. IsPush(fr, g, gs)
    BY DEF IsPush
  <1> HIDE DEF fr, gs
  <1>10. gs \in Seq(FrameRecords) /\ Stacked(t, gs, top) /\ Live(gs) = Live(fr) \cup LiveOne(g)
    <2>1. FrameOk(t, Len(fr) + 1, g)
      <3>1. Len(fr) + 1 = n
        BY <1>1, <1>8
      <3> QED
        BY <3>1 DEF n
    <2>2. EndBy(fr, Begin(g))
      BY <1>5, <1>8
    <2> QED
      BY <1>8, <1>9, <2>1, <2>2, StackedPush
  <1>11. Len(gs) = n
    BY <1>1, <1>8, <1>9 DEF IsPush
  <1> QED
    BY <1>4, <1>8, <1>10, <1>11 DEF fs, f, n

\* A variable of thread t is below the running call's or is one of them,
LEMMA TopOrBelow ==
    ASSUME IInv, NEW t \in Threads, Running(t), NEW p \in Live(ls[t].frames)
    PROVE  p[1] < Top(t).base \/ p \in LiveOne(Top(t))
  <1> DEFINE fs == ls[t].frames
             n == Len(ls[t].frames)
  <1>1. n \in Nat /\ DOMAIN fs = 1 .. n /\ Top(t) = fs[n] /\ FrameOk(t, n, Top(t)) /\ n >= 1
    BY RunningFacts
  <1>2. Stacked(t, fs, ls[t].reg.top)
    BY ThreadFacts
  <1>3. PICK i \in DOMAIN fs : p \in LiveOne(fs[i])
    BY LiveIs
  <1> HIDE DEF fs, n
  <1>4. CASE i = n
    BY <1>1, <1>3, <1>4
  <1>5. CASE i # n
    <2>1. i < n /\ n \in DOMAIN fs
      BY <1>1, <1>5
    <2>2. End(fs[i]) <= Begin(fs[n]) /\ FrameOk(t, i, fs[i])
      BY <1>2, <2>1 DEF Stacked
    <2>3. p[1] \in Nat /\ p[1] < End(fs[i]) /\ End(fs[i]) \in Nat
      BY <1>3, <2>2, LiveOneFacts, FrameFacts
    <2>4. Begin(Top(t)) <= Top(t).fn /\ Top(t).fn < Top(t).base /\ Begin(Top(t)) \in Nat
          /\ Top(t).fn \in Nat /\ Top(t).base \in Nat
      BY <1>1, FrameFacts
    <2> QED
      BY <1>1, <2>2, <2>3, <2>4
  <1> QED
    BY <1>4, <1>5

\* and its name tells in which call it is.
LEMMA TopNamed ==
    ASSUME IInv, NEW t \in Threads, Running(t), NEW p \in Live(ls[t].frames)
    PROVE  /\ p[2][2] \in DOMAIN ls[t].frames
           /\ p[2][2] = Len(ls[t].frames) => p \in LiveOne(Top(t))
  <1>1. Top(t) = ls[t].frames[Len(ls[t].frames)]
    BY RunningFacts
  <1>2. Stacked(t, ls[t].frames, ls[t].reg.top)
    BY ThreadFacts
  <1>3. PICK i \in DOMAIN ls[t].frames : p \in LiveOne(ls[t].frames[i])
    BY LiveIs
  <1>4. FrameOk(t, i, ls[t].frames[i])
    BY <1>2 DEF Stacked
  <1>5. p[2][2] = i
    BY <1>3, <1>4, LiveOneFacts
  <1> QED
    BY <1>1, <1>3, <1>5

\* A declaration.
LEMMA DeclareLocalKeeps ==
    ASSUME IInv, NEW t \in Threads, NEW x \in Contents, DeclareLocal(t, x)
    PROVE  IInv'
  <1> DEFINE f == Top(t)
             n == Len(ls[t].frames)
             v == NewVar(t, n, Len(f.vars) + 1)
             g == [f EXCEPT !.vars = Append(f.vars, v)]
             rg == ls[t].reg
             r == Free(t)
             rg2 == Set(rg, r, x)
             fs2 == ReplaceTop(t, g)
             L == With(ls[t], rg2, fs2, ls[t].uvcache)
             H == LiveOf(ls)
             Q == ListOf(ls)
  <1>1. Running(t) /\ Fits(rg, r + 1) /\ Put(t, rg2, fs2) /\ uv' = uv /\ closure' = closure /\ Write(v, x)
    BY DEF DeclareLocal, Frames
  <1>2. /\ Frames(t) = ls[t].frames /\ n \in Nat /\ FrameOk(t, n, f) /\ r = End(f) /\ r \in Nat
        /\ r <= rg.top /\ \A p \in Live(ls[t].frames) : p[1] < r
        /\ n \in DOMAIN ls[t].frames /\ f = ls[t].frames[n] /\ ls[t].status = "live"
    BY <1>1, RunningFacts
  <1>3. IsRegistry(rg) /\ rg.top \in Nat
    BY ThreadFacts
  <1>4. IsRegistry(rg2) /\ Keeps(rg, rg2, r) /\ rg2.array[r] = x /\ rg2.top \in Nat /\ r + 1 <= rg2.top
    <2> HIDE DEF rg, r, f, n
    <2>1. IsRegistry(rg) /\ r \in Nat /\ Fits(rg, r + 1) /\ x \in Contents /\ r <= rg.top /\ r >= r
      <3>1. r \in Nat /\ r <= rg.top
        BY <1>2
      <3> QED
        BY <1>1, <1>3, <3>1
    <2>2. /\ IsRegistry(rg2) /\ Keeps(rg, rg2, r) /\ rg2.array[r] = x
          /\ rg2.top = IF r >= rg.top THEN r + 1 ELSE rg.top
      BY <2>1, SetKeeps
    <2> HIDE DEF rg2
    <2> QED
      BY <1>3, <2>1, <2>2
  <1>5. ls' = [ls EXCEPT ![t] = L]
    BY <1>1, PutIs
  <1> HIDE DEF rg2
  <1>6. Grows(t, n, f, v, g) /\ v = NewVar(t, n, Len(f.vars) + 1)
    BY DEF Grows
  <1> HIDE DEF g, f, r, v, n
  <1>7. /\ FrameOk(t, n, g) /\ End(g) = r + 1 /\ Begin(g) = Begin(f)
        /\ LiveOne(g) = LiveOne(f) \cup {<<r, v>>}
    BY <1>2, <1>6, FrameGrows
  <1>8. /\ fs2 \in Seq(FrameRecords) /\ Stacked(t, fs2, rg2.top)
        /\ Live(fs2) = {p \in Live(ls[t].frames) : p[1] < f.base} \cup LiveOne(g)
    BY <1>1, <1>4, <1>7, TopReplaced DEF f, n
  <1> HIDE DEF fs2
  <1>9. ThreadOk(t, L) /\ L.reg = rg2 /\ L.frames = fs2 /\ L.uvcache = ls[t].uvcache
    BY <1>2, <1>4, <1>8, ThreadFacts, WithOk
  <1> HIDE DEF L
  <1>10. H[t] = Live(ls[t].frames) /\ Q[t] = ls[t].uvcache
    BY ThreadFacts
  <1>11. Live(L.frames) = H[t] \cup {<<r, v>>}
    <2>1. ASSUME NEW p \in Live(ls[t].frames) PROVE p[1] < f.base \/ p \in LiveOne(f)
      BY <1>1, <2>1, TopOrBelow DEF f
    <2>2. ASSUME NEW p \in LiveOne(f) PROVE p \in Live(ls[t].frames)
      BY <1>2, <2>2, LiveIs
    <2> QED
      BY <1>7, <1>8, <1>9, <1>10, <2>1, <2>2
  <1>12. \A p \in H[t] : ~(p[2][2] = n /\ p[2][3] = Len(f.vars) + 1)
    <2> SUFFICES ASSUME NEW p \in Live(ls[t].frames), p[2][2] = n PROVE p[2][3] # Len(f.vars) + 1
      BY <1>10
    <2>1. p \in LiveOne(f)
      BY <1>1, TopNamed DEF f, n
    <2>2. p[1] < End(f) /\ p[1] \in Nat /\ p[2][3] = p[1] - f.base + 1
      BY <1>2, <2>1, LiveOneFacts
    <2>3. End(f) = f.base + Len(f.vars) /\ f.base \in Nat /\ Len(f.vars) \in Nat
      BY <1>2, FrameFacts DEF End
    <2> QED
      BY <2>2, <2>3
  <1> HIDE DEF H, Q
  <1>13. Remains(t, H, Q, uv)
    BY AllRemains DEF H, Q
  <1>14. ~IsUsed(v, H, closure)
    BY <1>12, <1>13, <1>6, NewVarUnused
  <1>15. Remains(t, H, Q, uv')
    BY <1>1, <1>13
  <1>16. \A p \in H[t] : p[1] < r
    BY <1>2, <1>10
  <1>17. Keeps(ls[t].reg, L.reg, r) /\ L.reg.array[r] = x /\ L.uvcache = Q[t]
    BY <1>4, <1>9, <1>10
  <1>18. r \in Nat /\ r >= r
    BY <1>2
  <1> HIDE DEF rg
  <1> QED
    BY <1>1, <1>5, <1>9, <1>11, <1>14, <1>15, <1>16, <1>17, <1>18, AddStep

-----------------------------------------------------------------------------
(* Upvalues are written, and what writes nothing.                          *)

\* A step of no thread.
LEMMA IdleStep ==
    ASSUME IInv, ls' = ls,
           Bound(LiveOf(ls), ArrayOf(ls), ListOf(ls), uv', closure', store')
    PROVE  IInv'
  <1>1. LiveOf(ls') = LiveOf(ls) /\ ArrayOf(ls') = ArrayOf(ls) /\ ListOf(ls') = ListOf(ls)
    OBVIOUS
  <1> QED
    BY <1>1 DEF IInv

\* A closure takes the upvalue of another.
LEMMA InheritUpvalueKeeps ==
    ASSUME IInv, NEW c \in Closures, NEW d \in Closures, InheritUpvalue(c, d)
    PROVE  IInv'
  <1>1. closure[c] # None /\ closure[d] = None /\ closure' = [closure EXCEPT ![d] = closure[c]]
        /\ ls' = ls /\ uv' = uv /\ store' = store
    BY DEF InheritUpvalue
  <1>2. Bound(LiveOf(ls), ArrayOf(ls), ListOf(ls), uv, closure, store)
    BY DEF IInv
  <1>3. Bound(LiveOf(ls), ArrayOf(ls), ListOf(ls), uv, closure', store)
    BY <1>1, <1>2, BoundInherit
  <1> QED
    BY <1>1, <1>3, IdleStep

\* A closure assigns its variable.
LEMMA SetUpvalueKeeps ==
    ASSUME IInv, NEW c \in Closures, NEW x \in Contents, SetUpvalue(c, x)
    PROVE  IInv'
  <1> DEFINE u == closure[c].uv
             v == closure[c].var
             t == uv[u].reg
             H == LiveOf(ls)
             A == ArrayOf(ls)
             Q == ListOf(ls)
  <1>1. closure[c] # None /\ closure' = closure /\ Write(v, x)
    BY DEF SetUpvalue
  <1>2. Bound(H, A, Q, uv, closure, store)
    BY DEF IInv
  <1>3. u \in Upvals /\ uv[u] # None
    BY <1>1, <1>2 DEF Bound, Holding
  <1>4. CASE uv[u].closed
    <2>1. uv' = [uv EXCEPT ![u].value = x] /\ ls' = ls
      BY <1>4 DEF SetUpvalue
    <2>2. \A w : IsUsed(w, H, closure) => store'[w] = IF w = v THEN x ELSE store[w]
      <3>1. \A w : IsUsed(w, LiveOf(ls'), closure') => store'[w] = IF w = v THEN x ELSE store[w]
        BY <1>1, WriteIs
      <3> QED
        BY <1>1, <2>1, <3>1
    <2>3. Bound(H, A, Q, uv', closure, store')
      <3>1. SetValue(uv, closure[c].uv, x, uv')
        BY <2>1 DEF SetValue
      <3> HIDE DEF H, A, Q
      <3> QED
        BY <1>1, <1>2, <1>4, <2>2, <3>1, BoundSetClosed
    <2> QED
      BY <1>1, <2>1, <2>3, IdleStep
  <1>5. CASE ~uv[u].closed
    <2>1. ls' = [ls EXCEPT ![t].reg = Set(ls[t].reg, uv[u].index, x)] /\ uv' = uv
      BY <1>5 DEF SetUpvalue
    <2>2. t \in Threads
      BY <1>2, <1>3, <1>5 DEF Bound, Objects
    <2>3. Contains(Q[t], u) /\ Q[t] \in Seq(Upvals)
      BY <1>2, <1>3, <2>2 DEF Bound, Listed
    <2>4. PICK i \in DOMAIN Q[t] : Q[t][i] = u
      BY <2>3, ContainsIs
    <2>5. OnVariable(t, u, H, uv, closure)
      BY <1>2, <2>2, <2>4 DEF Bound, Placed
    <2>6. PICK p \in H[t] : /\ p[1] = uv[u].index
                            /\ \A d \in Closures :
                                  closure[d] # None /\ closure[d].uv = u => closure[d].var = p[2]
      BY <2>5 DEF OnVariable
    <2>7. p[2] = v
      BY <1>1, <2>6
    <2>8. PutReg(t, Set(ls[t].reg, p[1], x))
      BY <2>1, <2>6 DEF PutReg
    <2> HIDE DEF t
    <2>9. ls' = [ls EXCEPT ![t] = With(ls[t], Set(ls[t].reg, p[1], x), ls[t].frames, ls[t].uvcache)]
      BY <2>2, <2>8, PutRegIs
    <2> HIDE DEF v
    <2>10. Write(p[2], x)
      BY <1>1, <2>7
    <2>11. p \in LiveOf(ls)[t]
      BY <2>6
    <2> QED
      BY <1>1, <2>1, <2>2, <2>9, <2>10, <2>11, AssignStep
  <1> QED
    BY <1>4, <1>5

\* Calls of which a coroutine has lost the Go activations are what they were.
LEMMA YieldKeeps ==
    ASSUME IInv, NEW t \in Threads, Yield(t)
    PROVE  IInv'
  <1> DEFINE fs == ls[t].frames
             fs2 == [i \in DOMAIN ls[t].frames |->
                        [ls[t].frames[i] EXCEPT !.guard.resumed =
                             ls[t].frames[i].guard.resumed \/ ls[t].frames[i].guard.on]]
             L == With(ls[t], ls[t].reg, fs2, ls[t].uvcache)
  <1>1. Running(t) /\ PutFrames(t, fs2) /\ uv' = uv /\ closure' = closure /\ store' = store
    <2>1. Running(t) /\ uv' = uv /\ closure' = closure /\ store' = store
      BY DEF Yield
    <2>2. ls' = [ls EXCEPT ![t].frames = fs2]
      BY DEF Yield, Frames
    <2> HIDE DEF fs2
    <2>3. PutFrames(t, fs2)
      BY <2>2 DEF PutFrames
    <2> QED
      BY <2>1, <2>3
  <1>2. fs \in Seq(FrameRecords) /\ Stacked(t, fs, ls[t].reg.top) /\ DOMAIN fs = 1 .. Len(fs)
        /\ Len(fs) \in Nat /\ IsRegistry(ls[t].reg) /\ ls[t].uvcache \in Seq(Upvals)
        /\ ls[t].status = "live"
    BY <1>1, ThreadFacts, RunningFacts
  <1>3. ls' = [ls EXCEPT ![t] = L]
    BY <1>1, PutFramesIs
  <1> HIDE DEF fs
  <1>4. ASSUME NEW i \in DOMAIN fs
        PROVE  /\ fs2[i] \in FrameRecords /\ FrameOk(t, i, fs2[i]) /\ LiveOne(fs2[i]) = LiveOne(fs[i])
               /\ End(fs2[i]) = End(fs[i]) /\ Begin(fs2[i]) = Begin(fs[i])
    <2> DEFINE f == fs[i]
               g == [fs[i] EXCEPT !.guard.resumed = fs[i].guard.resumed \/ fs[i].guard.on]
    <2>1. fs2[i] = g
      BY DEF fs
    <2>2. FrameOk(t, i, f) /\ f \in FrameRecords
      BY <1>2 DEF Stacked, FrameOk
    <2> HIDE DEF f
    <2>3. /\ g.fn = f.fn /\ g.base = f.base /\ g.ret = f.ret /\ g.vars = f.vars /\ g.guard.on = f.guard.on
          /\ g.guard.base = f.guard.base /\ g.guard.ret = f.guard.ret /\ g \in FrameRecords
      BY <2>2 DEF FrameRecords, f
    <2> HIDE DEF g
    <2>4. FrameOk(t, i, g)
      BY <2>2, <2>3 DEF FrameOk
    <2>5. LiveOne(g) = LiveOne(f) /\ End(g) = End(f) /\ Begin(g) = Begin(f)
      BY <2>3 DEF LiveOne, End, Begin
    <2> HIDE DEF fs2
    <2> QED
      BY <2>1, <2>3, <2>4, <2>5 DEF f
  <1>5. DOMAIN fs2 = DOMAIN fs
    BY DEF fs
  <1> HIDE DEF fs2
  <1>6. fs2 \in Seq(FrameRecords)
    <2>1. fs2 = [i \in 1 .. Len(fs) |-> fs2[i]]
      BY <1>2, <1>5 DEF fs2
    <2> QED
      BY <1>2, <1>4, <2>1
  <1>7. Stacked(t, fs2, ls[t].reg.top)
    BY <1>2, <1>4, <1>5 DEF Stacked
  <1>8. Live(fs2) = Live(fs)
    <2>1. ASSUME NEW p PROVE p \in Live(fs2) <=> p \in Live(fs)
      <3>1. p \in Live(fs2) <=> \E i \in DOMAIN fs2 : p \in LiveOne(fs2[i])
        BY LiveIs
      <3>2. p \in Live(fs) <=> \E i \in DOMAIN fs : p \in LiveOne(fs[i])
        BY LiveIs
      <3> QED
        BY <1>4, <1>5, <3>1, <3>2
    <2> QED
      BY <2>1
  <1>9. ThreadOk(t, L) /\ L.reg = ls[t].reg /\ L.frames = fs2 /\ L.uvcache = ls[t].uvcache
    BY <1>2, <1>6, <1>7, ThreadFacts, WithOk
  <1> HIDE DEF L
  <1>10. ls'[t] = L /\ \A s \in Threads : s # t => ls'[s] = ls[s]
    BY <1>3, ThreadFacts
  <1>11. LiveOf(ls') = LiveOf(ls) /\ ArrayOf(ls') = ArrayOf(ls) /\ ListOf(ls') = ListOf(ls)
    BY <1>8, <1>9, <1>10 DEF LiveOf, ArrayOf, ListOf, fs
  <1>12. Bound(LiveOf(ls), ArrayOf(ls), ListOf(ls), uv, closure, store)
    BY DEF IInv
  <1>13. Bound(LiveOf(ls'), ArrayOf(ls'), ListOf(ls'), uv', closure', store')
    BY <1>1, <1>11, <1>12
  <1> QED
    BY <1>3, <1>9, <1>13, StepKeeps

-----------------------------------------------------------------------------
(* Blocks end, and calls end by an error.                                  *)

\* Call f is left with its first k variables,
Shrinks(f, k, g) == g = [f EXCEPT !.vars = SubSeq(f.vars, 1, k)]

\* and is one then.
LEMMA FrameShrinks ==
    ASSUME NEW t, NEW i, NEW f, FrameOk(t, i, f), NEW k \in 1 .. Len(f.vars), NEW g, Shrinks(f, k, g)
    PROVE  /\ FrameOk(t, i, g) /\ End(g) = f.base + k /\ Begin(g) = Begin(f)
           /\ \A p : p \in LiveOne(g) <=> p \in LiveOne(f) /\ p[1] < f.base + k
  <1> DEFINE vs == SubSeq(f.vars, 1, k)
             n == Len(f.vars)
  <1>1. n \in Nat /\ f.vars \in Seq(Names) /\ DOMAIN f.vars = 1 .. n /\ f.base \in Nat /\ k \in Nat /\ k <= n
    BY FrameFacts
  <1>2. f \in FrameRecords
    BY DEF FrameOk
  <1>3. /\ vs \in Seq(Names) /\ Len(vs) = k /\ DOMAIN vs = 1 .. k /\ vs # <<>>
        /\ \A j \in 1 .. k : vs[j] = f.vars[j]
    <2>1. vs \in Seq(Names) /\ Len(vs) = k /\ \A j \in 1 .. k : vs[j] = f.vars[j]
      BY <1>1
    <2> HIDE DEF vs
    <2>2. DOMAIN vs = 1 .. k /\ k >= 1
      BY <2>1
    <2> QED
      BY <2>1, <2>2
  <1> HIDE DEF vs
  <1>4. /\ g.fn = f.fn /\ g.base = f.base /\ g.ret = f.ret /\ g.guard = f.guard /\ g.vars = vs
        /\ g \in FrameRecords
    BY <1>2, <1>3 DEF FrameRecords, Shrinks, vs
  <1>5. FrameOk(t, i, g)
    <2>1. \A j \in DOMAIN g.vars : g.vars[j][1] = t /\ g.vars[j][2] = i /\ g.vars[j][3] = j
      <3> SUFFICES ASSUME NEW j \in 1 .. k PROVE vs[j][1] = t /\ vs[j][2] = i /\ vs[j][3] = j
        BY <1>3, <1>4
      <3>1. j \in DOMAIN f.vars
        BY <1>1
      <3> QED
        BY <1>3, <3>1 DEF FrameOk
    <2> QED
      BY <1>3, <1>4, <2>1 DEF FrameOk
  <1>6. End(g) = f.base + k /\ Begin(g) = Begin(f)
    BY <1>3, <1>4 DEF End, Begin
  <1>7. ASSUME NEW p PROVE p \in LiveOne(g) <=> p \in LiveOne(f) /\ p[1] < f.base + k
    <2>1. p \in LiveOne(g) <=> \E j \in DOMAIN g.vars : p = <<g.base + j - 1, g.vars[j]>>
      BY DEF LiveOne
    <2>2. p \in LiveOne(g) <=> \E j \in 1 .. k : p = <<f.base + j - 1, vs[j]>>
      BY <1>3, <1>4, <2>1
    <2>3. p \in LiveOne(f) <=> \E j \in 1 .. n : p = <<f.base + j - 1, f.vars[j]>>
      BY <1>1 DEF LiveOne
    <2>4. ASSUME p \in LiveOne(g) PROVE p \in LiveOne(f) /\ p[1] < f.base + k
      <3>1. PICK j \in 1 .. k : p = <<f.base + j - 1, vs[j]>>
        BY <2>2, <2>4
      <3>2. p[1] = f.base + j - 1 /\ j \in 1 .. n /\ vs[j] = f.vars[j]
        BY <1>1, <1>3, <3>1
      <3>3. p[1] < f.base + k
        BY <1>1, <3>2
      <3> QED
        BY <2>3, <3>1, <3>2, <3>3
    <2>5. ASSUME p \in LiveOne(f), p[1] < f.base + k PROVE p \in LiveOne(g)
      <3>1. PICK j \in 1 .. n : p = <<f.base + j - 1, f.vars[j]>>
        BY <2>3, <2>5
      <3>2. p[1] = f.base + j - 1
        BY <3>1
      <3>3. j \in 1 .. k
        BY <1>1, <2>5, <3>2
      <3> QED
        BY <1>3, <2>2, <3>1, <3>3
    <2> QED
      BY <2>4, <2>5
  <1> QED
    BY <1>5, <1>6, <1>7

\* A block ends.
LEMMA LeaveBlockKeeps ==
    ASSUME IInv, NEW t \in Threads, NEW k, LeaveBlock(t, k)
    PROVE  IInv'
  <1> DEFINE f == Top(t)
             n == Len(ls[t].frames)
             idx == f.base + k
             g == [f EXCEPT !.vars = SubSeq(f.vars, 1, k)]
             rg == ls[t].reg
             rg2 == Temporary(rg, idx)
             fs2 == ReplaceTop(t, g)
             q2 == cacheBelow(t, idx)
             L == With(ls[t], rg2, fs2, q2)
  <1>1. Running(t) /\ k \in 1 .. Len(f.vars) - 1 /\ closeUpvalues(t, idx) /\ closure' = closure /\ Forget
    BY DEF LeaveBlock
  <1>2. PutCut(t, q2, rg2, fs2)
    BY DEF LeaveBlock, PutCut
  <1>3. ls' = [ls EXCEPT ![t] = L]
    BY <1>2, PutCutIs
  <1>4. FrameOk(t, n, f) /\ Free(t) = End(f) /\ Free(t) <= rg.top /\ ls[t].status = "live"
    BY <1>1, RunningFacts
  <1>5. f.base \in Nat /\ Len(f.vars) \in Nat /\ End(f) = f.base + Len(f.vars)
    BY <1>4, FrameFacts DEF End
  <1>6. idx \in Nat /\ f.base < idx /\ idx <= rg.top /\ k \in 1 .. Len(f.vars)
    BY <1>1, <1>4, <1>5, ThreadFacts
  <1>7. Shrinks(f, k, g)
    BY DEF Shrinks
  <1>8. IsRegistry(rg)
    BY ThreadFacts
  <1> HIDE DEF g, f, n, idx, rg
  <1>9. /\ FrameOk(t, n, g) /\ End(g) = idx /\ Begin(g) = Begin(f)
        /\ \A p : p \in LiveOne(g) <=> p \in LiveOne(f) /\ p[1] < idx
    BY <1>4, <1>6, <1>7, FrameShrinks DEF idx
  <1>10. Keeps(rg, rg2, idx) /\ rg2.top = rg.top /\ IsRegistry(rg2) /\ rg2.top \in Nat
    BY <1>6, <1>8, TemporaryKeeps DEF Keeps, IsRegistry
  <1> HIDE DEF rg2
  <1>11. /\ fs2 \in Seq(FrameRecords) /\ Stacked(t, fs2, rg2.top)
         /\ Live(fs2) = {p \in Live(ls[t].frames) : p[1] < f.base} \cup LiveOne(g)
    <2>1. End(g) <= rg2.top
      BY <1>6, <1>9, <1>10
    <2> QED
      BY <1>1, <1>9, <1>10, <2>1, TopReplaced DEF f, n
  <1>12. IsCutList(t, idx, q2)
    BY DEF IsCutList
  <1> HIDE DEF fs2, q2
  <1>13. PICK H, Q : Remains(t, H, Q, uv') /\ Q[t] = q2 /\ H[t] = {p \in Live(ls[t].frames) : p[1] < idx}
    BY <1>1, <1>6, <1>12, BelowRemains
  <1>14. q2 \in Seq(Upvals)
    BY <1>1, <1>6, <1>12, BelowRemains
  <1>15. ThreadOk(t, L) /\ L.reg = rg2 /\ L.frames = fs2 /\ L.uvcache = q2
    BY <1>4, <1>10, <1>11, <1>14, ThreadFacts, WithOk
  <1> HIDE DEF L
  <1>16. Live(fs2) = H[t]
    <2>1. ASSUME NEW p \in Live(ls[t].frames)
          PROVE  (p[1] < f.base \/ p \in LiveOne(f)) /\ p[1] \in Nat
      BY <1>1, <2>1, TopOrBelow, ThreadFacts, LiveFacts DEF f
    <2>2. ASSUME NEW p \in LiveOne(f) PROVE p \in Live(ls[t].frames)
      <3>1. n \in DOMAIN ls[t].frames /\ f = ls[t].frames[n]
        BY <1>1, RunningFacts DEF f, n
      <3> QED
        BY <2>2, <3>1, LiveIs
    <2>3. ASSUME NEW p PROVE p \in Live(fs2) <=> p \in H[t]
      <3>1. p \in Live(fs2) <=> (p \in Live(ls[t].frames) /\ p[1] < f.base) \/ p \in LiveOne(g)
        BY <1>11
      <3>2. p \in H[t] <=> p \in Live(ls[t].frames) /\ p[1] < idx
        BY <1>13
      <3>3. p \in LiveOne(g) <=> p \in LiveOne(f) /\ p[1] < idx
        BY <1>9
      <3> QED
        BY <1>5, <1>6, <2>1, <2>2, <3>1, <3>2, <3>3
    <2> QED
      BY <2>3
  <1>17. \A p \in H[t] : p[1] < idx
    BY <1>13
  <1>18. Keeps(ls[t].reg, L.reg, idx) /\ L.uvcache = Q[t] /\ Live(L.frames) = H[t]
    BY <1>10, <1>13, <1>15, <1>16 DEF rg
  <1> QED
    BY <1>1, <1>3, <1>6, <1>13, <1>15, <1>17, <1>18, CutStep

\* The calls of a thread below the k-th.
CallsBelow(t, k) == SubSeq(ls[t].frames, 1, k - 1)

\* They have the variables below its beginning, its function or its base.
LEMMA CallsBelowIs ==
    ASSUME IInv, NEW t \in Threads, NEW k \in DOMAIN ls[t].frames, NEW idx,
           idx \in {Begin(ls[t].frames[k]), ls[t].frames[k].fn, ls[t].frames[k].base}
    PROVE  /\ IsCut(ls[t].frames, k - 1, idx, CallsBelow(t, k))
           /\ Live(CallsBelow(t, k)) = {p \in Live(ls[t].frames) : p[1] < idx}
  <1> DEFINE fs == ls[t].frames
             f == ls[t].frames[k]
             gs == CallsBelow(t, k)
             m == k - 1
             top == ls[t].reg.top
  <1>1. fs \in Seq(FrameRecords) /\ Stacked(t, fs, top) /\ DOMAIN fs = 1 .. Len(fs) /\ Len(fs) \in Nat
    BY ThreadFacts
  <1>2. k \in 1 .. Len(fs) /\ m \in 0 .. Len(fs) /\ gs = SubSeq(fs, 1, m)
    BY <1>1 DEF CallsBelow
  <1>3. FrameOk(t, k, f)
    BY <1>1 DEF Stacked
  <1>4. /\ Begin(f) \in Nat /\ f.fn \in Nat /\ f.base \in Nat /\ End(f) \in Nat
        /\ Begin(f) <= f.fn /\ f.fn < f.base /\ f.base < End(f)
    BY <1>3, FrameFacts
  <1>5. idx \in Nat /\ Begin(f) <= idx /\ idx <= f.base
    BY <1>4
  <1>6. ASSUME NEW i \in 1 .. m PROVE End(fs[i]) <= idx
    <2>1. i \in DOMAIN fs /\ i < k
      BY <1>1, <1>2
    <2>2. End(fs[i]) <= Begin(f) /\ FrameOk(t, i, fs[i])
      BY <1>1, <2>1 DEF Stacked
    <2>3. End(fs[i]) \in Nat
      BY <2>2, FrameFacts
    <2> QED
      BY <1>4, <1>5, <2>2, <2>3
  <1>7. ASSUME NEW i \in DOMAIN fs, i > m PROVE idx <= fs[i].base
    <2>1. CASE i = k
      BY <1>5, <2>1
    <2>2. CASE i # k
      <3>1. k < i
        BY <1>1, <1>2, <1>7, <2>2
      <3>2. End(f) <= Begin(fs[i]) /\ FrameOk(t, i, fs[i])
        BY <1>1, <3>1 DEF Stacked
      <3>3. Begin(fs[i]) \in Nat /\ Begin(fs[i]) <= fs[i].fn /\ fs[i].fn < fs[i].base
            /\ fs[i].fn \in Nat /\ fs[i].base \in Nat
        BY <3>2, FrameFacts
      <3> QED
        BY <1>4, <1>5, <3>2, <3>3
    <2> QED
      BY <2>1, <2>2
  <1> HIDE DEF fs, f, gs, m, top
  <1>8. IsCut(fs, m, idx, gs)
    BY <1>1, <1>2, <1>6, <1>7 DEF IsCut
  <1>9. Live(gs) = {p \in Live(fs) : p[1] < idx}
    BY <1>1, <1>5, <1>8, CutLive
  <1> QED
    BY <1>8, <1>9 DEF fs, gs, m

\* They are stacked.
LEMMA CallsBelowOk ==
    ASSUME IInv, NEW t \in Threads, NEW k \in DOMAIN ls[t].frames, NEW top \in Nat,
           Begin(ls[t].frames[k]) <= top
    PROVE  /\ CallsBelow(t, k) \in Seq(FrameRecords) /\ Stacked(t, CallsBelow(t, k), top)
           /\ Len(CallsBelow(t, k)) = k - 1 /\ EndBy(CallsBelow(t, k), Begin(ls[t].frames[k]))
  <1> DEFINE fs == ls[t].frames
             b == Begin(ls[t].frames[k])
             gs == CallsBelow(t, k)
             m == k - 1
             top1 == ls[t].reg.top
  <1>1. Stacked(t, fs, top1)
    BY ThreadFacts
  <1>2. IsCut(fs, m, b, gs)
    BY CallsBelowIs
  <1>3. b \in Nat /\ b <= top
    <2>1. FrameOk(t, k, fs[k])
      BY <1>1 DEF Stacked
    <2> QED
      BY <2>1, FrameFacts
  <1> HIDE DEF fs, b, gs, m, top1
  <1>4. gs \in Seq(FrameRecords) /\ Len(gs) = m /\ Stacked(t, gs, top) /\ EndBy(gs, b)
    BY <1>1, <1>2, <1>3, CutIs
  <1> QED
    BY <1>4 DEF b, gs, m

\* A step that gives up the k-th call and those above.
LEMMA UnwindStep ==
    ASSUME IInv, NEW t \in Threads, NEW k \in DOMAIN ls[t].frames, NEW idx,
           idx \in {ls[t].frames[k].fn, ls[t].frames[k].base}, closeUpvalues(t, idx),
           NEW rg2, Keeps(ls[t].reg, rg2, Begin(ls[t].frames[k])), Begin(ls[t].frames[k]) <= rg2.top,
           ls' = [ls EXCEPT ![t] = With(ls[t], rg2, CallsBelow(t, k), cacheBelow(t, idx))],
           closure' = closure, Forget
    PROVE  IInv'
  <1> DEFINE fs == ls[t].frames
             b == Begin(ls[t].frames[k])
             gs == CallsBelow(t, k)
             q2 == cacheBelow(t, idx)
             L == With(ls[t], rg2, gs, q2)
  <1>1. Stacked(t, fs, ls[t].reg.top)
    BY ThreadFacts
  <1>2. b \in Nat /\ idx \in Nat
    <2>1. FrameOk(t, k, fs[k])
      BY <1>1 DEF Stacked
    <2> QED
      BY <2>1, FrameFacts
  <1>3. IsRegistry(rg2) /\ rg2.top \in Nat
    BY DEF Keeps, IsRegistry
  <1>4. gs \in Seq(FrameRecords) /\ Stacked(t, gs, rg2.top)
    BY <1>3, CallsBelowOk
  <1>5. Live(gs) = {p \in Live(fs) : p[1] < idx}
    BY CallsBelowIs
  <1>6. Live(gs) = {p \in Live(fs) : p[1] < b}
    BY CallsBelowIs
  <1>7. ls[t].status = "live"
    BY ThreadFacts
  <1>8. ls' = [ls EXCEPT ![t] = L]
    OBVIOUS
  <1>9. IsCutList(t, idx, q2)
    BY DEF IsCutList
  <1> HIDE DEF q2
  <1>10. q2 \in Seq(Upvals)
    BY <1>2, <1>9, BelowRemains
  <1>11. PICK H, Q : Remains(t, H, Q, uv') /\ Q[t] = q2 /\ H[t] = {p \in Live(fs) : p[1] < idx}
    BY <1>2, <1>9, BelowRemains
  <1> HIDE DEF gs
  <1>12. ThreadOk(t, L) /\ L.reg = rg2 /\ L.frames = gs /\ L.uvcache = q2
    BY <1>3, <1>4, <1>7, <1>10, ThreadFacts, WithOk
  <1> HIDE DEF L, fs
  <1>13. \A p \in H[t] : p[1] < b
    BY <1>5, <1>6, <1>11
  <1>14. Keeps(ls[t].reg, L.reg, b) /\ L.uvcache = Q[t] /\ Live(L.frames) = H[t]
    BY <1>5, <1>11, <1>12
  <1> HIDE DEF b
  <1> QED
    BY <1>2, <1>8, <1>11, <1>12, <1>13, <1>14, CutStep

-----------------------------------------------------------------------------
(* States are created and closed.                                          *)

\* A thread without calls.
LEMMA ThreadMade ==
    ASSUME NEW t, NEW L, L \in [status : {"none", "live", "dead", "pooled"}, thread : BOOLEAN,
                                options : Options, reg : {L.reg}, frames : {<<>>}, uvcache : {<<>>}],
           IsRegistry(L.reg)
    PROVE  ThreadOk(t, L) /\ Live(L.frames) = {} /\ L.uvcache = <<>>
  <1>1. L.frames = <<>> /\ L.uvcache = <<>>
    OBVIOUS
  <1>2. L \in [status : {"none", "live", "dead", "pooled"}, thread : BOOLEAN, options : Options,
               reg : {L.reg}, frames : Seq(FrameRecords), uvcache : Seq(Upvals)]
    BY StackedNone
  <1> QED
    BY <1>1, <1>2, StackedNone DEF ThreadOk

\* A step that gives up all calls of a thread, when no variable is below idx.
LEMMA EmptyStep ==
    ASSUME IInv, NEW t \in Threads, NEW idx \in Nat, closeUpvalues(t, idx),
           \A p \in Live(ls[t].frames) : p[1] >= idx,
           NEW L, ThreadOk(t, L), L.frames = <<>>, L.uvcache = <<>>, ls' = [ls EXCEPT ![t] = L],
           closure' = closure, Forget
    PROVE  IInv'
  <1> DEFINE q2 == <<>>
  <1>1. IsCutList(t, idx, q2)
    BY DEF IsCutList
  <1>2. L.uvcache = q2
    OBVIOUS
  <1> HIDE DEF q2
  <1>3. PICK H, Q : /\ Remains(t, H, Q, uv') /\ Q[t] = q2
                    /\ H[t] = {p \in Live(ls[t].frames) : p[1] < idx}
    BY <1>1, BelowRemains
  <1>4. H[t] = {}
    <2> SUFFICES ASSUME NEW p \in Live(ls[t].frames) PROVE ~(p[1] < idx)
      BY <1>3
    <2>1. p[1] \in Nat
      BY ThreadFacts, LiveFacts
    <2> QED
      BY <2>1
  <1>5. Live(L.frames) = H[t] /\ L.uvcache = Q[t]
    BY <1>3, <1>4, <1>2, StackedNone
  <1> QED
    BY <1>3, <1>4, <1>5, CutStep

\* A state that has ended.
LEMMA EndedOk ==
    ASSUME IInv, NEW t \in Threads, NEW rg, IsRegistry(rg)
    PROVE  ThreadOk(t, Ended(t, rg)) /\ Ended(t, rg).frames = <<>> /\ Ended(t, rg).uvcache = <<>>
  <1> DEFINE L == Ended(t, rg)
  <1>1. ls[t] \in [status : {"none", "live", "dead", "pooled"}, thread : BOOLEAN, options : Options,
                   reg : {ls[t].reg}, frames : Seq(FrameRecords), uvcache : Seq(Upvals)]
    BY ThreadFacts DEF ThreadOk
  <1>2. L \in [status : {"none", "live", "dead", "pooled"}, thread : BOOLEAN, options : Options,
               reg : {rg}, frames : {<<>>}, uvcache : {<<>>}]
    BY <1>1 DEF Ended
  <1> HIDE DEF L
  <1>3. L.reg = rg /\ L.frames = <<>>
    BY <1>2
  <1>4. ThreadOk(t, L) /\ L.uvcache = <<>>
    BY <1>2, <1>3, ThreadMade
  <1> QED
    BY <1>3, <1>4 DEF L

\* A state without calls is made.
LEMMA IdleThreadStep ==
    ASSUME IInv, NEW t \in Threads, ls[t].status # "live", NEW L, ThreadOk(t, L),
           L.frames = <<>>, L.uvcache = <<>>, ls' = [ls EXCEPT ![t] = L],
           uv' = uv, closure' = closure, store' = store
    PROVE  IInv'
  <1> DEFINE H == LiveOf(ls)
             Q == ListOf(ls)
  <1>1. ls[t].frames = <<>>
    BY ThreadFacts
  <1>2. H[t] = {}
    BY <1>1, ThreadFacts, StackedNone
  <1>3. Q[t] = <<>>
    <2>1. OpenList(t, ls[t].uvcache)
      BY ListFacts
    <2>2. ASSUME NEW i \in DOMAIN ls[t].uvcache PROVE FALSE
      <3>1. \E p \in Live(ls[t].frames) : p[1] = uv[ls[t].uvcache[i]].index
        BY <2>1, <2>2 DEF OpenList
      <3> QED
        BY <1>2, <3>1, ThreadFacts
    <2>3. Len(ls[t].uvcache) \in Nat /\ DOMAIN ls[t].uvcache = 1 .. Len(ls[t].uvcache)
      BY <2>1 DEF OpenList
    <2>4. Len(ls[t].uvcache) = 0
      BY <2>2, <2>3
    <2> QED
      BY <2>4, ThreadFacts
  <1>4. Remains(t, H, Q, uv')
    BY AllRemains
  <1> HIDE DEF H, Q
  <1>5. Live(L.frames) = H[t] /\ L.uvcache = Q[t] /\ \A p \in H[t] : p[1] < 0
    BY <1>2, <1>3, StackedNone
  <1> QED
    BY <1>2, <1>4, <1>5, CutStep

\* What NewLState makes.
LEMMA NewLStateOk ==
    ASSUME NEW t, NEW thread \in BOOLEAN, NEW o \in Options, NEW rg, IsRegistry(rg)
    PROVE  /\ ThreadOk(t, NewLState(thread, o, rg))
           /\ NewLState(thread, o, rg).frames = <<>> /\ NewLState(thread, o, rg).uvcache = <<>>
           /\ NewLState(thread, o, rg).reg = rg
  <1> DEFINE L == NewLState(thread, o, rg)
  <1>1. L \in [status : {"none", "live", "dead", "pooled"}, thread : BOOLEAN, options : Options,
               reg : {rg}, frames : {<<>>}, uvcache : {<<>>}]
    BY DEF NewLState
  <1> HIDE DEF L
  <1>2. L.reg = rg /\ L.frames = <<>>
    BY <1>1
  <1>3. ThreadOk(t, L) /\ L.uvcache = <<>>
    BY <1>1, <1>2, ThreadMade
  <1> QED
    BY <1>2, <1>3 DEF L

\* newLState.
LEMMA newLStateKeeps ==
    ASSUME IInv, NEW t \in Threads, NEW o \in Options, newLState(t, o)
    PROVE  IInv'
  <1> DEFINE rg == ls[t].reg
             reused == [rg EXCEPT !.top = 0, !.maxSize = o.RegistryMaxSize,
                                  !.growBy = o.RegistryGrowStep]
             rg2 == IF ls[t].status = "pooled" /\ Capacity(rg) >= o.RegistrySize
                    THEN reused ELSE newRegistry(o)
             L == NewLState(FALSE, o, rg2)
  <1>1. /\ ls[t].status # "live" /\ uv' = uv /\ closure' = closure /\ store' = store
        /\ ls' = [ls EXCEPT ![t] = L]
    BY DEF newLState
  <1>2. IsRegistry(reused)
    <2> DEFINE n == Capacity(rg)
    <2>1. n \in Nat /\ rg \in [array : [0 .. n - 1 -> Contents], top : 0 .. n, growBy : Nat, maxSize : Nat]
      BY ThreadFacts DEF IsRegistry
    <2>2. o.RegistryMaxSize \in Nat /\ o.RegistryGrowStep \in Nat
      BY RegistersAssumption
    <2> HIDE DEF n, rg
    <2> DEFINE r1 == [rg EXCEPT !.top = 0]
               r2 == [r1 EXCEPT !.maxSize = o.RegistryMaxSize]
    <2>3. r1 = [array |-> rg.array, top |-> 0, growBy |-> rg.growBy, maxSize |-> rg.maxSize]
      BY <2>1
    <2>4. reused = [r2 EXCEPT !.growBy = o.RegistryGrowStep]
      OBVIOUS
    <2> HIDE DEF r1, reused
    <2>5. r2 = [array |-> rg.array, top |-> 0, growBy |-> rg.growBy, maxSize |-> o.RegistryMaxSize]
      BY <2>3
    <2> HIDE DEF r2
    <2>6. reused = [array |-> rg.array, top |-> 0,
                    growBy |-> o.RegistryGrowStep, maxSize |-> o.RegistryMaxSize]
      BY <2>4, <2>5
    <2>7. reused \in [array : [0 .. n - 1 -> Contents], top : 0 .. n, growBy : Nat, maxSize : Nat]
      BY <2>1, <2>2, <2>6
    <2> HIDE DEF reused
    <2> QED
      BY <2>1, <2>7, RegistryMade
  <1> HIDE DEF reused
  <1>3. IsRegistry(rg2)
    BY <1>2, NewRegistryOk
  <1> HIDE DEF rg2
  <1>4. ASSUME NEW thread \in BOOLEAN
        PROVE  /\ ThreadOk(t, NewLState(thread, o, rg2))
               /\ NewLState(thread, o, rg2).frames = <<>> /\ NewLState(thread, o, rg2).uvcache = <<>>
    BY <1>3, NewLStateOk
  <1>5. ThreadOk(t, L) /\ L.frames = <<>> /\ L.uvcache = <<>>
    BY <1>4
  <1> HIDE DEF L
  <1> QED
    BY <1>1, <1>5, IdleThreadStep

\* newLStateWithGlobal.
LEMMA newLStateWithGlobalKeeps ==
    ASSUME IInv, NEW t \in Threads, NEW o \in Options, newLStateWithGlobal(t, o)
    PROVE  IInv'
  <1> DEFINE rg2 == IF ls[t].status = "pooled" /\ Capacity(ls[t].reg) = o.RegistrySize
                    THEN ls[t].reg ELSE newRegistry(o)
             L == NewLState(TRUE, o, rg2)
  <1>1. /\ ls[t].status # "live" /\ uv' = uv /\ closure' = closure /\ store' = store
        /\ ls' = [ls EXCEPT ![t] = L]
    BY DEF newLStateWithGlobal
  <1>2. IsRegistry(rg2)
    BY ThreadFacts, NewRegistryOk
  <1> HIDE DEF rg2
  <1>3. ASSUME NEW thread \in BOOLEAN
        PROVE  /\ ThreadOk(t, NewLState(thread, o, rg2))
               /\ NewLState(thread, o, rg2).frames = <<>> /\ NewLState(thread, o, rg2).uvcache = <<>>
    BY <1>2, NewLStateOk
  <1>4. ThreadOk(t, L) /\ L.frames = <<>> /\ L.uvcache = <<>>
    BY <1>3
  <1> HIDE DEF L
  <1> QED
    BY <1>1, <1>4, IdleThreadStep

\* Close.
LEMMA CloseKeeps ==
    ASSUME IInv, NEW t \in Threads, Close(t)
    PROVE  IInv'
  <1> DEFINE rg == ls[t].reg
             o == ls[t].options
             cleared == [rg EXCEPT !.top = 0,
                                   !.array = [i \in DOMAIN rg.array |->
                                                 IF i < rg.top THEN Nil ELSE rg.array[i]]]
             status2 == IF Capacity(rg) <= o.RegistrySize + o.RegistryGrowStep THEN "pooled" ELSE "none"
             rg2 == IF Capacity(rg) <= o.RegistrySize + o.RegistryGrowStep THEN cleared ELSE newRegistry(o)
             L == [ls[t] EXCEPT !.frames = <<>>, !.uvcache = <<>>, !.status = status2, !.reg = rg2]
  <1>1. closeUpvalues(t, 0) /\ closure' = closure /\ Forget /\ ls' = [ls EXCEPT ![t] = L]
    BY ThreadFacts DEF Close
  <1>2. IsRegistry(cleared)
    <2> DEFINE n == Capacity(rg)
    <2>1. n \in Nat /\ rg \in [array : [0 .. n - 1 -> Contents], top : 0 .. n, growBy : Nat, maxSize : Nat]
      BY ThreadFacts DEF IsRegistry
    <2> HIDE DEF n, rg
    <2>2. [i \in DOMAIN rg.array |-> IF i < rg.top THEN Nil ELSE rg.array[i]] \in [0 .. n - 1 -> Contents]
      BY <2>1 DEF Contents
    <2> DEFINE a == [i \in DOMAIN rg.array |-> IF i < rg.top THEN Nil ELSE rg.array[i]]
    <2>3. a \in [0 .. n - 1 -> Contents] /\ cleared = [rg EXCEPT !.top = 0, !.array = a]
      BY <2>2
    <2> HIDE DEF a, cleared
    <2>4. cleared = [array |-> a, top |-> 0, growBy |-> rg.growBy, maxSize |-> rg.maxSize]
      BY <2>1, <2>3
    <2>5. cleared \in [array : [0 .. n - 1 -> Contents], top : 0 .. n, growBy : Nat, maxSize : Nat]
      BY <2>1, <2>3, <2>4
    <2> HIDE DEF cleared
    <2> QED
      BY <2>1, <2>5, RegistryMade
  <1> HIDE DEF cleared
  <1>3. IsRegistry(rg2)
    BY <1>2, ThreadFacts, NewRegistryOk
  <1>4. status2 \in {"pooled", "none"}
    OBVIOUS
  <1> HIDE DEF rg2, status2
  <1>5. ThreadOk(t, L) /\ L.frames = <<>> /\ L.uvcache = <<>>
    <2>1. ls[t] \in [status : {"none", "live", "dead", "pooled"}, thread : BOOLEAN, options : Options,
                     reg : {ls[t].reg}, frames : Seq(FrameRecords), uvcache : Seq(Upvals)]
      BY ThreadFacts DEF ThreadOk
    <2>2. L \in [status : {"none", "live", "dead", "pooled"}, thread : BOOLEAN, options : Options,
                 reg : {rg2}, frames : {<<>>}, uvcache : {<<>>}]
      BY <1>4, <2>1
    <2> HIDE DEF L
    <2>3. L.reg = rg2 /\ L.frames = <<>>
      BY <2>2
    <2> QED
      BY <1>3, <2>2, <2>3, ThreadMade
  <1>6. \A p \in Live(ls[t].frames) : p[1] >= 0
    BY ThreadFacts, LiveFacts
  <1> HIDE DEF L
  <1> QED
    BY <1>1, <1>5, <1>6, EmptyStep

-----------------------------------------------------------------------------
(* Calls return, and errors are caught.                                    *)

\* Return.
LEMMA ReturnKeeps ==
    ASSUME IInv, NEW t \in Threads, Return(t)
    PROVE  IInv'
  <1> DEFINE f == Top(t)
             n == Len(ls[t].frames)
             rg == ls[t].reg
             plain == Answer(rg, f.ret, f.base)
             answered == PcallAnswer(rg, f.ret, f.base, f.guard.ret)
             rg2 == IF f.guard.on THEN answered ELSE plain
             idx == IF n = 1 /\ ls[t].thread THEN 0 ELSE f.base
             ended == Ended(t, SetTop(rg, 0))
             below == [ls[t] EXCEPT !.reg = rg2, !.frames = CallsBelow(t, n),
                                    !.uvcache = cacheBelow(t, f.base)]
  <1>1. Running(t) /\ closeUpvalues(t, idx) /\ closure' = closure /\ Forget
    BY DEF Return, Frames
  <1>2. ls' = [ls EXCEPT ![t] = IF n = 1 THEN ended ELSE below]
    BY DEF Return, Frames, Front, CallsBelow, Answer, PcallAnswer
  <1>3. /\ n \in Nat /\ n >= 1 /\ DOMAIN ls[t].frames = 1 .. n /\ f = ls[t].frames[n] /\ FrameOk(t, n, f)
        /\ End(f) <= rg.top
    BY <1>1, RunningFacts
  <1>4. IsRegistry(rg) /\ rg.top \in Nat
    BY ThreadFacts
  <1>5. /\ f.ret \in Nat /\ f.base \in Nat /\ f.ret < f.base /\ f.base <= rg.top
        /\ f.guard.on => f.guard.ret \in Nat /\ f.guard.ret + 1 = f.ret
    <2>1. f.ret = f.fn /\ (f.guard.on => f.guard.ret + 1 = f.fn)
      BY <1>3 DEF FrameOk
    <2>2. /\ f.fn \in Nat /\ f.base \in Nat /\ f.fn < f.base /\ f.base < End(f) /\ End(f) \in Nat
          /\ f.guard.ret \in Nat
      BY <1>3, FrameFacts
    <2> HIDE DEF f, rg
    <2> QED
      BY <1>3, <1>4, <2>1, <2>2
  <1>6. CASE n = 1
    <2>1. ls' = [ls EXCEPT ![t] = ended]
      BY <1>2, <1>6
    <2>2. IsRegistry(SetTop(rg, 0))
      <3>1. Fits(rg, 0)
        BY ThreadFacts DEF Fits
      <3>2. 0 <= rg.top
        BY <1>4
      <3> HIDE DEF rg
      <3> QED
        BY <1>4, <3>1, <3>2, SetTopKeeps DEF Keeps
    <2>3. ThreadOk(t, ended) /\ ended.frames = <<>> /\ ended.uvcache = <<>>
      BY <2>2, EndedOk
    <2>4. \A p \in Live(ls[t].frames) : p[1] >= idx
      <3> SUFFICES ASSUME NEW p \in Live(ls[t].frames) PROVE p[1] >= 0 /\ p[1] >= f.base
        OBVIOUS
      <3>1. PICK i \in DOMAIN ls[t].frames : p \in LiveOne(ls[t].frames[i])
        BY LiveIs
      <3>2. p \in LiveOne(f)
        BY <1>3, <1>6, <3>1
      <3>3. p[1] \in Nat /\ f.base <= p[1]
        BY <1>3, <3>2, LiveOneFacts
      <3> QED
        BY <1>5, <3>3
    <2>5. idx \in Nat
      BY <1>5
    <2> HIDE DEF ended, idx
    <2> QED
      BY <1>1, <2>1, <2>3, <2>4, <2>5, EmptyStep
  <1>7. CASE n # 1
    <2>1. ls' = [ls EXCEPT ![t] = below] /\ closeUpvalues(t, f.base)
      BY <1>1, <1>2, <1>7
    <2>2. ls' = [ls EXCEPT ![t] = With(ls[t], rg2, CallsBelow(t, n), cacheBelow(t, f.base))]
      <3> DEFINE Y == With(ls[t], rg2, CallsBelow(t, n), cacheBelow(t, f.base))
      <3>1. IsPut(t, rg2, CallsBelow(t, n), cacheBelow(t, f.base), below)
        BY DEF IsPut
      <3> HIDE DEF below
      <3>2. below = Y
        BY <3>1, ThreadPut
      <3> HIDE DEF Y
      <3>3. ls' = [ls EXCEPT ![t] = Y]
        BY <2>1, <3>2
      <3> QED
        BY <3>3 DEF Y
    <2>3. Keeps(rg, rg2, Begin(f)) /\ Begin(f) <= rg2.top
      <3>1. CASE f.guard.on
        <4>1. rg2 = answered /\ Begin(f) = f.guard.ret /\ f.guard.ret \in Nat /\ f.guard.ret + 1 = f.ret
          BY <1>5, <3>1 DEF Begin
        <4>2. Keeps(rg, answered, f.guard.ret) /\ answered.top = f.ret + 1
          BY <1>4, <1>5, <4>1, PcallAnswerKeeps
        <4> HIDE DEF rg2, answered, f
        <4> QED
          BY <1>5, <4>1, <4>2
      <3>2. CASE ~f.guard.on
        <4>1. rg2 = plain /\ Begin(f) = f.ret
          BY <1>3, <3>2 DEF Begin, FrameOk
        <4>2. Keeps(rg, plain, f.ret) /\ plain.top = f.ret + 1
          BY <1>4, <1>5, AnswerKeeps
        <4> HIDE DEF rg2, plain, f
        <4> QED
          BY <1>5, <4>1, <4>2
      <3> QED
        BY <3>1, <3>2
    <2>4. n \in DOMAIN ls[t].frames
      BY <1>3
    <2> HIDE DEF rg2, n
    <2>5. f.base \in {ls[t].frames[n].fn, ls[t].frames[n].base} /\ closeUpvalues(t, ls[t].frames[n].base)
      BY <1>3, <2>1
    <2>6. Keeps(ls[t].reg, rg2, Begin(ls[t].frames[n])) /\ Begin(ls[t].frames[n]) <= rg2.top
      BY <1>3, <2>3
    <2> HIDE DEF f
    <2>7. closeUpvalues(t, f.base)
      BY <2>1
    <2> QED
      BY <1>1, <2>2, <2>4, <2>5, <2>6, <2>7, UnwindStep
  <1> QED
    BY <1>6, <1>7

\* There is a last protected call, if there is one.
LEMMA CatcherIs ==
    ASSUME IInv, NEW t \in Threads, Running(t), Pcalls(t) # {}
    PROVE  Catcher(t) \in DOMAIN ls[t].frames /\ ls[t].frames[Catcher(t)].guard.on
  <1> DEFINE n == Len(ls[t].frames)
             P == Pcalls(t)
             N == {n - i : i \in P}
  <1>1. n \in Nat /\ P \subseteq 1 .. n
    BY RunningFacts DEF Pcalls, Frames
  <1>2. Catcher(t) = CHOOSE i \in P : \A j \in P : j <= i
    BY DEF Catcher
  <1>3. P # {}
    OBVIOUS
  <1> HIDE DEF n, P
  <1>4. N \in SUBSET Nat /\ N # {}
    <2>1. ASSUME NEW i \in P PROVE n - i \in Nat
      BY <1>1
    <2>2. N \subseteq Nat
      BY <2>1
    <2>3. PICK i \in P : TRUE
      BY <1>3
    <2>4. n - i \in N
      OBVIOUS
    <2> QED
      BY <2>2, <2>4
  <1> HIDE DEF N
  <1>5. PICK l \in N : \A m \in N : l <= m
    BY <1>4, SmallestExists
  <1>6. PICK i \in P : l = n - i
    BY DEF N
  <1>7. \A j \in P : j <= i
    <2> SUFFICES ASSUME NEW j \in P PROVE j <= i
      OBVIOUS
    <2>1. n - j \in N
      BY DEF N
    <2>2. n - i <= n - j
      BY <1>5, <1>6, <2>1
    <2> QED
      BY <1>1, <2>2
  <1>8. Catcher(t) \in P
    BY <1>2, <1>7
  <1> QED
    BY <1>8 DEF P, Pcalls, Frames

\* An error.
LEMMA RaiseKeeps ==
    ASSUME IInv, NEW t \in Threads, Raise(t)
    PROVE  IInv'
  <1> DEFINE rg == ls[t].reg
             k == Catcher(t)
             f == ls[t].frames[k]
             g == f.guard
             rg2 == IF g.resumed THEN handleProtectedError(rg, g) ELSE pcallFailed(rg, g)
             ended == Ended(t, SetTop(rg, 0))
  <1>1. Running(t) /\ closure' = closure /\ Forget
    BY DEF Raise
  <1>2. IsRegistry(rg) /\ rg.top \in Nat
    BY ThreadFacts
  <1>3. CASE Pcalls(t) = {}
    <2>1. closeUpvalues(t, 0) /\ ls' = [ls EXCEPT ![t] = ended]
      BY <1>3, ThreadFacts DEF Raise
    <2>2. IsRegistry(SetTop(rg, 0))
      <3>1. Fits(rg, 0)
        BY ThreadFacts DEF Fits
      <3>2. 0 <= rg.top
        BY <1>2
      <3> HIDE DEF rg
      <3> QED
        BY <1>2, <3>1, <3>2, SetTopKeeps DEF Keeps
    <2>3. ThreadOk(t, ended) /\ ended.frames = <<>> /\ ended.uvcache = <<>>
      BY <2>2, EndedOk
    <2>4. \A p \in Live(ls[t].frames) : p[1] >= 0
      BY ThreadFacts, LiveFacts
    <2> HIDE DEF ended
    <2> QED
      BY <1>1, <2>1, <2>3, <2>4, EmptyStep
  <1>4. CASE Pcalls(t) # {}
    <2>1. closeUpvalues(t, g.base) /\ PutBack(t, rg2, CallsBelow(t, k), cacheBelow(t, g.base))
      BY <1>4 DEF Raise, PutBack, Frames, CallsBelow
    <2> HIDE DEF rg2
    <2>2. ls' = [ls EXCEPT ![t] = With(ls[t], rg2, CallsBelow(t, k), cacheBelow(t, g.base))]
      BY <2>1, PutBackIs
    <2>3. k \in DOMAIN ls[t].frames /\ g.on
      BY <1>1, <1>4, CatcherIs
    <2>4. FrameOk(t, k, f) /\ End(f) <= rg.top
      BY <2>3, ThreadFacts DEF Stacked
    <2> HIDE DEF k
    <2>5. /\ g.base = f.fn /\ g.ret + 1 = f.fn /\ g.base \in Nat /\ g.ret \in Nat /\ Begin(f) = g.ret
          /\ f.fn < f.base /\ f.base < End(f) /\ f.base \in Nat /\ End(f) \in Nat
      <3>1. /\ (f.guard.on => f.guard.base = f.fn /\ f.guard.ret + 1 = f.fn)
            /\ (f.guard.on => Begin(f) = f.guard.ret)
        BY <2>4 DEF FrameOk, Begin
      <3>2. /\ f.guard.base \in Nat /\ f.guard.ret \in Nat
            /\ f.fn < f.base /\ f.base < End(f) /\ f.base \in Nat
            /\ End(f) \in Nat
        BY <2>4, FrameFacts
      <3> HIDE DEF f
      <3> QED
        BY <2>3, <3>1, <3>2
    <2> HIDE DEF f
    <2>6. g.base + 2 <= rg.top /\ g.ret + 2 <= rg.top /\ g.ret + 1 = g.base
      BY <1>2, <2>4, <2>5
    <2> HIDE DEF rg, g
    <2>7. Keeps(rg, rg2, g.ret) /\ g.ret <= rg2.top
      <3>1. CASE g.resumed
        <4>1. rg2 = handleProtectedError(rg, g)
          BY <3>1 DEF rg2
        <4>2. Keeps(rg, handleProtectedError(rg, g), g.ret) /\ handleProtectedError(rg, g).top = rg.top
          BY <1>2, <2>5, <2>6, HandleProtectedErrorKeeps
        <4> QED
          BY <1>2, <2>5, <2>6, <4>1, <4>2
      <3>2. CASE ~g.resumed
        <4>1. rg2 = pcallFailed(rg, g)
          BY <3>2 DEF rg2
        <4>2. Keeps(rg, pcallFailed(rg, g), g.ret) /\ pcallFailed(rg, g).top = g.ret + 2
          BY <1>2, <2>5, <2>6, PcallFailedKeeps
        <4> QED
          BY <2>5, <4>1, <4>2
      <3> QED
        BY <3>1, <3>2
    <2>8. closeUpvalues(t, g.base) /\ g.base \in {ls[t].frames[k].fn, ls[t].frames[k].base}
      BY <2>1, <2>5 DEF f
    <2>9. Keeps(ls[t].reg, rg2, Begin(ls[t].frames[k])) /\ Begin(ls[t].frames[k]) <= rg2.top
      BY <2>5, <2>7 DEF f, rg
    <2> QED
      BY <1>1, <2>2, <2>3, <2>8, <2>9, UnwindStep
  <1> QED
    BY <1>3, <1>4

-----------------------------------------------------------------------------
(* Calls start.                                                            *)

\* g is the i-th call of thread t, with variable v only.
Calls(t, i, g, v) == FrameOk(t, i, g) /\ v = NewVar(t, i, 1) /\ LiveOne(g) = {<<g.base, v>>}

\* A frame is such a call.
LEMMA FrameMade ==
    ASSUME NEW t \in Threads, NEW i \in Nat, NEW fn \in Nat, NEW base \in Nat, fn < base,
           NEW guard \in [on : BOOLEAN, base : Nat, ret : Nat, resumed : BOOLEAN],
           guard.on => guard.base = fn /\ guard.ret + 1 = fn, NEW v, v = NewVar(t, i, 1)
    PROVE  /\ Calls(t, i, Frame(fn, base, fn, guard, v), v)
           /\ End(Frame(fn, base, fn, guard, v)) = base + 1
           /\ Begin(Frame(fn, base, fn, guard, v)) = IF guard.on THEN guard.ret ELSE fn
           /\ Frame(fn, base, fn, guard, v).base = base
  <1> DEFINE g == Frame(fn, base, fn, guard, v)
  <1>1. PICK n \in Nat : v = <<t, i, 1, n>>
    BY NewVarIs
  <1>2. v \in Names /\ v[1] = t /\ v[2] = i /\ v[3] = 1
    BY <1>1 DEF Names
  <1>3. g.fn = fn /\ g.base = base /\ g.ret = fn /\ g.guard = guard /\ g.vars = <<v>>
    BY DEF Frame
  <1>4. <<v>> \in Seq(Names) /\ Len(<<v>>) = 1 /\ DOMAIN <<v>> = {1} /\ <<v>>[1] = v /\ <<v>> # <<>>
    BY <1>2
  <1>5. g \in FrameRecords
    BY <1>4 DEF Frame, FrameRecords
  <1> HIDE DEF g
  <1>6. FrameOk(t, i, g)
    BY <1>2, <1>3, <1>4, <1>5 DEF FrameOk
  <1>7. LiveOne(g) = {<<base + 1 - 1, v>>}
    BY <1>3, <1>4 DEF LiveOne
  <1>8. base + 1 - 1 = base
    OBVIOUS
  <1>9. End(g) = base + 1 /\ Begin(g) = IF guard.on THEN guard.ret ELSE fn
    BY <1>3, <1>4 DEF End, Begin
  <1> QED
    BY <1>3, <1>6, <1>7, <1>8, <1>9 DEF Calls, g

\* Thread t calls g with parameter v, which is x.
Pushes(t, g, v, x, rg2, gs) ==
    /\ Calls(t, Len(ls[t].frames) + 1, g, v) /\ EndBy(ls[t].frames, Begin(g))
    /\ Keeps(ls[t].reg, rg2, Begin(g)) /\ End(g) <= rg2.top /\ rg2.array[g.base] = x
    /\ IsPush(ls[t].frames, g, gs)
    /\ ls' = [ls EXCEPT ![t] = With(ls[t], rg2, gs, ls[t].uvcache)]
    /\ uv' = uv /\ closure' = closure /\ Write(v, x)

\* The step that does.
LEMMA PushStep ==
    ASSUME IInv, NEW t \in Threads, ls[t].status = "live", NEW g, NEW v, NEW x, NEW rg2, NEW gs,
           Pushes(t, g, v, x, rg2, gs)
    PROVE  IInv'
  <1> DEFINE fs == ls[t].frames
             n == Len(ls[t].frames)
             L == With(ls[t], rg2, gs, ls[t].uvcache)
             H == LiveOf(ls)
             Q == ListOf(ls)
             m == Begin(g)
             r == g.base
  <1>1. /\ fs \in Seq(FrameRecords) /\ n \in Nat /\ Stacked(t, fs, ls[t].reg.top)
        /\ DOMAIN fs = 1 .. n /\ ls[t].uvcache \in Seq(Upvals)
    BY ThreadFacts
  <1>2. FrameOk(t, n + 1, g) /\ LiveOne(g) = {<<r, v>>} /\ v = NewVar(t, n + 1, 1)
    BY DEF Calls, Pushes
  <1>3. m \in Nat /\ r \in Nat /\ m <= r /\ r < End(g) /\ End(g) \in Nat
    <2>1. /\ g.fn \in Nat /\ g.base \in Nat /\ Begin(g) \in Nat /\ Begin(g) <= g.fn /\ g.fn < g.base
          /\ g.base < End(g) /\ End(g) \in Nat
      BY <1>2, FrameFacts
    <2> QED
      BY <2>1
  <1>4. IsRegistry(rg2) /\ rg2.top \in Nat
    BY DEF Keeps, IsRegistry, Pushes
  <1>5. End(g) <= rg2.top
    BY DEF Pushes
  <1>6. ASSUME NEW i \in DOMAIN fs PROVE FrameOk(t, i, fs[i]) /\ End(fs[i]) \in Nat /\ End(fs[i]) <= m
    BY <1>1, FrameFacts DEF Stacked, EndBy, Pushes
  <1>7. Stacked(t, fs, rg2.top)
    <2>1. ASSUME NEW i \in DOMAIN fs PROVE End(fs[i]) <= rg2.top
      <3>1. End(fs[i]) \in Nat /\ End(fs[i]) <= m
        BY <1>6
      <3> HIDE DEF fs, m, r
      <3> QED
        BY <1>3, <1>4, <1>5, <3>1
    <2> QED
      BY <1>1, <2>1 DEF Stacked
  <1>8. EndBy(fs, m) /\ IsPush(fs, g, gs) /\ FrameOk(t, Len(fs) + 1, g)
    BY <1>2 DEF Pushes
  <1>9. End(g) <= rg2.top /\ rg2.array[r] = x /\ Keeps(ls[t].reg, rg2, m)
    BY DEF Pushes
  <1> HIDE DEF fs
  <1>10. /\ gs \in Seq(FrameRecords) /\ Stacked(t, gs, rg2.top)
         /\ Live(gs) = Live(fs) \cup LiveOne(g)
    BY <1>1, <1>7, <1>8, <1>9, StackedPush DEF m
  <1>11. ThreadOk(t, L) /\ L.reg = rg2 /\ L.frames = gs /\ L.uvcache = ls[t].uvcache
    BY <1>1, <1>4, <1>10, ThreadFacts, WithOk
  <1>12. ls' = [ls EXCEPT ![t] = L] /\ closure' = closure /\ Write(v, x)
    BY DEF Pushes
  <1> HIDE DEF L
  <1>13. H[t] = Live(fs) /\ Q[t] = ls[t].uvcache
    BY ThreadFacts DEF fs
  <1>14. Remains(t, H, Q, uv) /\ Remains(t, H, Q, uv')
    BY AllRemains DEF Pushes
  <1> HIDE DEF H, Q
  <1>15. ASSUME NEW p \in H[t] PROVE p[1] < m /\ p[2][2] # n + 1
    <2>1. PICK i \in DOMAIN fs : p \in LiveOne(fs[i])
      BY <1>13, <1>15, LiveIs
    <2>2. p[1] \in Nat /\ p[1] < End(fs[i]) /\ p[2][2] = i
      BY <1>6, <2>1, LiveOneFacts
    <2>3. i \in 1 .. n
      BY <1>1
    <2>4. End(fs[i]) \in Nat /\ End(fs[i]) <= m
      BY <1>6
    <2> HIDE DEF m, n
    <2> QED
      BY <1>1, <1>3, <2>2, <2>3, <2>4
  <1>16. ~IsUsed(v, H, closure)
    <2> DEFINE k == n + 1
    <2>1. v = NewVar(t, k, 1) /\ \A p \in H[t] : ~(p[2][2] = k /\ p[2][3] = 1)
      BY <1>2, <1>15
    <2> HIDE DEF k
    <2> QED
      BY <1>14, <2>1, NewVarUnused
  <1>17. Live(L.frames) = H[t] \cup {<<r, v>>} /\ L.reg.array[r] = x /\ L.uvcache = Q[t]
    BY <1>2, <1>10, <1>11, <1>13, <1>9
  <1>18. Keeps(ls[t].reg, L.reg, m)
    BY <1>11, <1>9
  <1>19. \A p \in H[t] : p[1] < m
    BY <1>15
  <1>20. r >= m
    BY <1>3
  <1>21. m \in Nat /\ r \in Nat
    BY <1>3
  <1>22. ThreadOk(t, L) /\ Remains(t, H, Q, uv')
    BY <1>11, <1>14
  <1> HIDE DEF m, r
  <1> QED
    BY <1>12, <1>16, <1>17, <1>18, <1>19, <1>20, <1>21, <1>22, AddStep

\* The first call of a state.
LEMMA StartKeeps ==
    ASSUME IInv, NEW t \in Threads, Start(t)
    PROVE  IInv'
  <1> DEFINE rg == ls[t].reg
             init == initCallFrame(Set(rg, 0, Nil), 1, 0, FALSE)
             v == NewVar(t, 1, 1)
             g == Frame(0, 1, 0, NoPcall, v)
             gs == <<g>>
             rg2 == init.reg
  <1>1. /\ ls[t].status = "live" /\ ls[t].frames = <<>> /\ Fits(rg, NeedOf(0, 0))
        /\ Put(t, rg2, gs) /\ uv' = uv /\ closure' = closure /\ Write(v, Nil)
    BY DEF Start, Frames
  <1>2. IsRegistry(rg) /\ rg.top \in Nat
    BY ThreadFacts
  <1>3. SetsUp(rg, 0, 0, Nil, FALSE, init) /\ init.base = 1
    <2>1. PICK p : Puts(p, rg, 0, Nil, 0) /\ Arguments(rg, 0, 0, Nil) = p[0]
      BY ArgumentsPut
    <2>2. p[0] = Set(rg, 0, Nil)
      BY <2>1 DEF Puts
    <2>3. init.base = 1
      BY DEF initCallFrame
    <2> DEFINE a == Arguments(rg, 0, 0, Nil)
    <2>4. a = Set(rg, 0, Nil)
      BY <2>1, <2>2
    <2> HIDE DEF a
    <2>5. init = initCallFrame(a, 1, 0, FALSE)
      BY <2>4
    <2> HIDE DEF init
    <2>6. 0 + 1 = 1
      OBVIOUS
    <2>7. init = initCallFrame(a, 0 + 1, 0, FALSE)
      BY <2>5, <2>6
    <2> QED
      BY <2>3, <2>7 DEF SetsUp, a
  <1> HIDE DEF init, rg
  <1>4. /\ Keeps(rg, rg2, 0) /\ rg2.top = init.base + FrameSize
        /\ rg2.array[init.base] = ArgumentOr(0, Nil)
    <2>1. 0 <= rg.top /\ Nil \in Contents
      BY <1>2 DEF Contents
    <2> DEFINE no == FALSE
               zero == 0
    <2>2. Fits(rg, NeedOf(zero, zero)) /\ SetsUp(rg, zero, zero, Nil, no, init)
      BY <1>1, <1>3
    <2>3. zero \in Nat /\ no \in BOOLEAN /\ zero <= rg.top /\ Nil \in Contents
      BY <2>1
    <2> HIDE DEF no, zero
    <2>4. /\ Keeps(rg, init.reg, zero) /\ init.reg.top = init.base + FrameSize
          /\ init.reg.array[init.base] = ArgumentOr(zero, Nil)
      BY <1>2, <2>2, <2>3, SetUpKeeps
    <2> QED
      BY <2>4 DEF zero
  <1>5. Calls(t, 1, g, v) /\ End(g) = 2 /\ Begin(g) = 0 /\ g.base = 1
    <2>1. NoPcall \in [on : BOOLEAN, base : Nat, ret : Nat, resumed : BOOLEAN] /\ ~NoPcall.on
      BY DEF NoPcall
    <2> HIDE DEF v
    <2> QED
      BY <2>1, FrameMade DEF v
  <1>6. ls' = [ls EXCEPT ![t] = With(ls[t], rg2, gs, ls[t].uvcache)]
    BY <1>1, PutIs
  <1>7. IsPush(ls[t].frames, g, gs) /\ Len(ls[t].frames) + 1 = 1
    BY <1>1 DEF IsPush
  <1>8. EndBy(ls[t].frames, Begin(g))
    BY <1>1 DEF EndBy
  <1> HIDE DEF g, gs, v
  <1>9. End(g) <= rg2.top /\ rg2.array[g.base] = Nil
    <2>1. FrameSize \in Nat /\ FrameSize >= 2
      BY RegistersAssumption
    <2>2. ArgumentOr(0, Nil) = Nil
      BY DEF ArgumentOr
    <2> HIDE DEF rg2
    <2>3. rg2.top = 1 + FrameSize /\ rg2.array[1] = Nil
      BY <1>3, <1>4, <2>2
    <2> QED
      BY <1>5, <2>1, <2>3
  <1>10. Calls(t, Len(ls[t].frames) + 1, g, v) /\ Keeps(ls[t].reg, rg2, Begin(g))
    BY <1>4, <1>5, <1>7 DEF rg
  <1> HIDE DEF rg2
  <1> QED
    <2>1. Pushes(t, g, v, Nil, rg2, gs)
      BY <1>1, <1>6, <1>7, <1>8, <1>9, <1>10 DEF Pushes
    <2> QED
      BY <1>1, <2>1, PushStep

\* A registry keeps its registers.
LEMMA KeepsSame ==
    ASSUME NEW rg, IsRegistry(rg), NEW m
    PROVE  Keeps(rg, rg, m)
  BY DEF Keeps, IsRegistry

\* A call.
LEMMA CallKeeps ==
    ASSUME IInv, NEW t \in Threads, NEW nargs \in Nat, NEW x \in Contents, NEW vararg \in BOOLEAN,
           NEW protected \in BOOLEAN, Call(t, nargs, x, vararg, protected)
    PROVE  IInv'
  <1> DEFINE rg == ls[t].reg
             ra == Free(t)
             i == Len(ls[t].frames) + 1
             v == NewVar(t, i, 1)
             fn == IF protected THEN ra + 1 ELSE ra
             called == IF protected THEN Set(rg, ra, Nil) ELSE rg
             init == initCallFrame(Arguments(called, fn, nargs, x), fn + 1, nargs, vararg)
             guard == IF protected
                      THEN [on |-> TRUE, base |-> fn, ret |-> ra, resumed |-> FALSE] ELSE NoPcall
             g == Frame(fn, init.base, fn, guard, v)
             gs == Append(ls[t].frames, g)
             y == ArgumentOr(nargs, x)
  <1>1. /\ Running(t) /\ Fits(rg, NeedOf(fn, nargs)) /\ Put(t, init.reg, gs)
        /\ uv' = uv /\ closure' = closure /\ Write(v, y)
    BY DEF Call, Frames
  <1>2. /\ ra \in Nat /\ ra <= rg.top /\ i \in Nat /\ ls[t].status = "live"
        /\ \A j \in DOMAIN ls[t].frames : End(ls[t].frames[j]) <= ra
    BY <1>1, RunningFacts
  <1>3. IsRegistry(rg) /\ rg.top \in Nat
    BY ThreadFacts
  <1>4. FrameSize \in Nat /\ FrameSize >= 2
    BY RegistersAssumption
  <1>5. SetsUp(called, fn, nargs, x, vararg, init)
    BY DEF SetsUp
  <1>6. ls' = [ls EXCEPT ![t] = With(ls[t], init.reg, gs, ls[t].uvcache)]
    BY <1>1, PutIs
  <1>7. IsPush(ls[t].frames, g, gs) /\ v = NewVar(t, i, 1) /\ g = Frame(fn, init.base, fn, guard, v)
    BY DEF IsPush
  <1>8. /\ guard \in [on : BOOLEAN, base : Nat, ret : Nat, resumed : BOOLEAN] /\ fn \in Nat
        /\ guard.on => guard.base = fn /\ guard.ret + 1 = fn
        /\ (IF guard.on THEN guard.ret ELSE fn) = ra
    <2>1. CASE protected
      BY <1>2, <2>1
    <2>2. CASE ~protected
      BY <1>2, <2>2 DEF NoPcall
    <2> QED
      BY <2>1, <2>2
  <1> HIDE DEF init, rg, ra, g, gs, y, guard
  <1>9. Keeps(rg, called, ra) /\ fn <= called.top /\ ra <= fn /\ called.top \in Nat
    <2>1. CASE protected
      <3>1. Fits(rg, ra + 1)
        BY <1>1, <1>2, <1>3, <1>4, <2>1, FitsLess DEF NeedOf
      <3>2. Nil \in Contents
        BY DEF Contents
      <3>3. Keeps(rg, called, ra) /\ called.top = IF ra >= rg.top THEN ra + 1 ELSE rg.top
        BY <1>2, <1>3, <2>1, <3>1, <3>2, SetKeeps
      <3> HIDE DEF called
      <3> QED
        BY <1>2, <1>3, <2>1, <3>3
    <2>2. CASE ~protected
      BY <1>2, <1>3, <2>2, KeepsSame
    <2> QED
      BY <2>1, <2>2
  <1> HIDE DEF called, fn
  <1>10. IsRegistry(called) /\ Fits(called, NeedOf(fn, nargs))
    <2> DEFINE need == NeedOf(fn, nargs)
    <2>1. need \in Nat /\ need <= need
      BY <1>4, <1>8 DEF NeedOf
    <2>2. Fits(rg, need)
      BY <1>1
    <2> HIDE DEF need
    <2>3. Fits(called, need)
      BY <1>2, <1>3, <1>9, <2>1, <2>2, KeepsFits
    <2> QED
      BY <1>9, <2>3 DEF Keeps, need
  <1>11. /\ Keeps(called, init.reg, fn) /\ init.base \in Nat /\ init.base > fn
         /\ init.reg.top = init.base + FrameSize /\ init.reg.array[init.base] = y
    BY <1>5, <1>8, <1>9, <1>10, SetUpKeeps DEF y
  <1> DEFINE base == init.base
             rg2 == init.reg
  <1>12. fn < base /\ base \in Nat /\ g = Frame(fn, base, fn, guard, v) /\ base + 1 <= rg2.top
         /\ rg2.array[base] = y
    BY <1>4, <1>7, <1>8, <1>11
  <1>13. Keeps(rg, rg2, ra)
    BY <1>2, <1>3, <1>8, <1>9, <1>11, KeepsTrans
  <1> HIDE DEF base, rg2, v, i
  <1>14. Calls(t, i, g, v) /\ End(g) = base + 1 /\ Begin(g) = ra /\ g.base = base
    <2>1. /\ i \in Nat /\ fn \in Nat /\ base \in Nat /\ fn < base /\ v = NewVar(t, i, 1)
          /\ guard \in [on : BOOLEAN, base : Nat, ret : Nat, resumed : BOOLEAN]
          /\ guard.on => guard.base = fn /\ guard.ret + 1 = fn
      BY <1>2, <1>7, <1>8, <1>12
    <2>2. /\ Calls(t, i, Frame(fn, base, fn, guard, v), v)
          /\ End(Frame(fn, base, fn, guard, v)) = base + 1
          /\ Begin(Frame(fn, base, fn, guard, v)) = IF guard.on THEN guard.ret ELSE fn
          /\ Frame(fn, base, fn, guard, v).base = base
      BY <2>1, FrameMade
    <2> QED
      BY <1>8, <1>12, <2>2
  <1>15. EndBy(ls[t].frames, Begin(g))
    BY <1>2, <1>14 DEF EndBy
  <1>16. Pushes(t, g, v, y, rg2, gs)
    <2>1. Calls(t, Len(ls[t].frames) + 1, g, v)
      BY <1>14 DEF i
    <2>2. Keeps(ls[t].reg, rg2, Begin(g)) /\ End(g) <= rg2.top /\ rg2.array[g.base] = y
      BY <1>12, <1>13, <1>14 DEF rg
    <2>3. ls' = [ls EXCEPT ![t] = With(ls[t], rg2, gs, ls[t].uvcache)]
      BY <1>6 DEF rg2
    <2> QED
      BY <1>1, <1>7, <1>15, <2>1, <2>2, <2>3 DEF Pushes
  <1> QED
    BY <1>2, <1>16, PushStep

\* What a call to come must keep and what is below the running one end alike.
LEMMA TopBegins ==
    ASSUME IInv, NEW t \in Threads, Running(t), NEW p \in Live(ls[t].frames), p[1] < Top(t).base
    PROVE  p[1] < Begin(Top(t))
  <1> DEFINE n == Len(ls[t].frames)
  <1>1. n \in DOMAIN ls[t].frames /\ Top(t) = ls[t].frames[n]
    BY RunningFacts
  <1>2. /\ Live(CallsBelow(t, n)) = {q \in Live(ls[t].frames) : q[1] < ls[t].frames[n].base}
        /\ Live(CallsBelow(t, n)) = {q \in Live(ls[t].frames) : q[1] < Begin(ls[t].frames[n])}
    BY <1>1, CallsBelowIs
  <1> HIDE DEF n
  <1> QED
    BY <1>1, <1>2

\* A tail call.
LEMMA TailCallKeeps ==
    ASSUME IInv, NEW t \in Threads, NEW nargs \in Nat, NEW x \in Contents, NEW vararg \in BOOLEAN,
           TailCall(t, nargs, x, vararg)
    PROVE  IInv'
  <1> DEFINE rg == ls[t].reg
             ra == Free(t)
             f == Top(t)
             n == Len(ls[t].frames)
             v == NewVar(t, n, 1)
             init == initCallFrame(Arguments(rg, ra, nargs, x), ra + 1, nargs, vararg)
             size == init.reg.top - ra - 1
             rg2 == CopyRange(init.reg, f.fn, ra, size)
             base == f.fn + (init.base - ra)
             g == Frame(f.fn, base, f.ret, f.guard, v)
             fs2 == ReplaceTop(t, g)
             q2 == cacheBelow(t, f.base)
             L == With(ls[t], rg2, fs2, q2)
             y == ArgumentOr(nargs, x)
  <1>1. /\ Running(t) /\ Fits(rg, NeedOf(ra, nargs)) /\ closeUpvalues(t, f.base)
        /\ closure' = closure /\ Write(v, y)
    BY DEF TailCall, Frames
  <1>2. PutCut(t, q2, rg2, fs2)
    BY DEF TailCall, Frames, PutCut
  <1>3. ls' = [ls EXCEPT ![t] = L]
    BY <1>2, PutCutIs
  <1>4. /\ ra \in Nat /\ ra <= rg.top /\ n \in Nat /\ ls[t].status = "live" /\ FrameOk(t, n, f)
        /\ End(f) = ra
    BY <1>1, RunningFacts
  <1>5. IsRegistry(rg) /\ rg.top \in Nat
    BY ThreadFacts
  <1>6. FrameSize \in Nat /\ FrameSize >= 2
    BY RegistersAssumption
  <1>7. /\ f.fn \in Nat /\ f.base \in Nat /\ f.fn < f.base /\ f.base < ra
        /\ Begin(f) \in Nat /\ Begin(f) <= f.fn /\ f.ret = f.fn
        /\ f.guard \in [on : BOOLEAN, base : Nat, ret : Nat, resumed : BOOLEAN]
        /\ f.guard.on => f.guard.base = f.fn /\ f.guard.ret + 1 = f.fn
    <2>1. /\ f.fn \in Nat /\ f.base \in Nat /\ f.fn < f.base /\ f.base < End(f)
          /\ Begin(f) \in Nat /\ Begin(f) <= f.fn
      BY <1>4, FrameFacts
    <2>2. f.ret = f.fn /\ (f.guard.on => f.guard.base = f.fn /\ f.guard.ret + 1 = f.fn) /\ f \in FrameRecords
      BY <1>4 DEF FrameOk
    <2>3. f.guard \in [on : BOOLEAN, base : Nat, ret : Nat, resumed : BOOLEAN]
      BY <2>2 DEF FrameRecords
    <2> QED
      BY <1>4, <2>1, <2>2, <2>3
  <1>8. SetsUp(rg, ra, nargs, x, vararg, init)
    BY DEF SetsUp
  <1>9. IsCutList(t, f.base, q2)
    BY DEF IsCutList
  <1>10. v = NewVar(t, n, 1) /\ g = Frame(f.fn, base, f.ret, f.guard, v)
    OBVIOUS
  <1> HIDE DEF init, y, q2
  <1>11. /\ Keeps(rg, init.reg, ra) /\ init.base \in Nat /\ init.base > ra
         /\ init.reg.top = init.base + FrameSize /\ init.reg.array[init.base] = y
    BY <1>1, <1>4, <1>5, <1>8, SetUpKeeps DEF y
  <1>12. /\ Keeps(rg, rg2, f.fn) /\ rg2.top = f.fn + size /\ IsRegistry(rg2) /\ base \in Nat /\ f.fn < base
         /\ rg2.array[base] = y /\ base + 1 <= rg2.top /\ rg2.top \in Nat
    <2> DEFINE r == init.reg
               fn == f.fn
               k == init.base - ra
    <2>1. IsRegistry(r) /\ r.top \in Nat /\ r.top <= Capacity(r) /\ Capacity(r) \in Nat
      BY <1>11 DEF Keeps, IsRegistry
    <2>2. /\ r.top = init.base + FrameSize /\ r.array[init.base] = y /\ init.base > ra /\ init.base \in Nat
          /\ fn \in Nat /\ fn < ra /\ Keeps(rg, r, ra)
      BY <1>4, <1>7, <1>11
    <2>3. size = r.top - ra - 1 /\ rg2 = CopyRange(r, fn, ra, size) /\ base = fn + k
      OBVIOUS
    <2>4. k \in Nat /\ k >= 1 /\ ra + k = init.base
      BY <1>4, <2>2
    <2> HIDE DEF r, fn, k, size, base, rg2
    <2>5. size \in Nat /\ k + 1 <= size /\ ra + k < r.top /\ fn + size <= r.top
      <3> DEFINE top == r.top
                 b == init.base
      <3>1. /\ top \in Nat /\ top = b + FrameSize /\ b \in Nat /\ fn \in Nat /\ fn < ra /\ ra \in Nat
            /\ size = top - ra - 1 /\ k \in Nat /\ k >= 1 /\ ra + k = b
        BY <1>4, <2>1, <2>2, <2>3, <2>4
      <3> HIDE DEF top, b, ra
      <3> QED
        BY <1>6, <3>1 DEF top
    <2>6. fn + size <= Capacity(r) /\ fn <= r.top
      BY <1>4, <2>1, <2>2, <2>5
    <2>7. IsCopied(r, fn, ra, size, rg2)
      <3>1. MayCopy(r, fn, ra, size)
        BY <1>4, <2>1, <2>2, <2>5, <2>6 DEF MayCopy
      <3> QED
        BY <2>3, <3>1, CopyRangeKeeps
    <2>8. Keeps(r, rg2, fn) /\ rg2.top = fn + size
      BY <2>7 DEF IsCopied
    <2>9. rg2.array[fn + k] = r.array[ra + k]
      BY <2>4, <2>5, <2>7 DEF IsCopied
    <2>10. rg2.array[base] = y
      BY <2>2, <2>3, <2>4, <2>9
    <2>11. Keeps(rg, rg2, fn)
      <3>1. fn <= ra /\ fn <= fn
        BY <1>4, <2>2
      <3> QED
        BY <1>4, <1>5, <2>2, <2>8, <3>1, KeepsTrans
    <2>12. rg2.top = fn + size /\ IsRegistry(rg2)
      BY <2>8 DEF Keeps
    <2>13. base \in Nat /\ fn < base /\ base + 1 <= rg2.top /\ rg2.top \in Nat
      BY <2>2, <2>3, <2>4, <2>5, <2>12
    <2> QED
      BY <2>10, <2>11, <2>12, <2>13 DEF fn
  <1> HIDE DEF rg2, base, size, ra, v, n, f, g
  <1>13. Calls(t, n, g, v) /\ End(g) = base + 1 /\ Begin(g) = Begin(f) /\ g.base = base
    <2> DEFINE fn == f.fn
               guard == f.guard
    <2>1. /\ fn \in Nat /\ fn < base
          /\ guard \in [on : BOOLEAN, base : Nat, ret : Nat, resumed : BOOLEAN]
          /\ guard.on => guard.base = fn /\ guard.ret + 1 = fn
      BY <1>7, <1>12
    <2>2. g = Frame(fn, base, fn, guard, v)
      BY <1>7, <1>10
    <2>3. Begin(f) = IF guard.on THEN guard.ret ELSE fn
      BY DEF Begin
    <2> HIDE DEF fn, guard
    <2>4. base \in Nat /\ n \in Nat /\ v = NewVar(t, n, 1)
      BY <1>4, <1>10, <1>12
    <2>5. /\ Calls(t, n, Frame(fn, base, fn, guard, v), v)
          /\ End(Frame(fn, base, fn, guard, v)) = base + 1
          /\ Begin(Frame(fn, base, fn, guard, v)) = IF guard.on THEN guard.ret ELSE fn
          /\ Frame(fn, base, fn, guard, v).base = base
      BY <2>1, <2>4, FrameMade
    <2> QED
      BY <2>3, <2>5, <2>2
  <1>14. /\ fs2 \in Seq(FrameRecords) /\ Stacked(t, fs2, rg2.top)
         /\ Live(fs2) = {p \in Live(ls[t].frames) : p[1] < f.base} \cup LiveOne(g)
    <2>1. FrameOk(t, n, g) /\ End(g) <= rg2.top
      BY <1>12, <1>13 DEF Calls
    <2> QED
      BY <1>1, <1>12, <1>13, <2>1, TopReplaced DEF f, n
  <1>15. q2 \in Seq(Upvals)
    BY <1>1, <1>7, <1>9, BelowRemains
  <1>16. PICK H, Q : Remains(t, H, Q, uv') /\ Q[t] = q2 /\ H[t] = {p \in Live(ls[t].frames) : p[1] < f.base}
    BY <1>1, <1>7, <1>9, BelowRemains
  <1> HIDE DEF fs2
  <1>17. ThreadOk(t, L) /\ L.reg = rg2 /\ L.frames = fs2 /\ L.uvcache = q2
    BY <1>4, <1>12, <1>14, <1>15, ThreadFacts, WithOk
  <1> HIDE DEF L
  <1> DEFINE m == Begin(f)
  <1>18. m \in Nat /\ base >= m
    BY <1>7, <1>12
  <1>19. \A p \in H[t] : p[1] < m
    BY <1>1, <1>16, TopBegins DEF f
  <1>20. Keeps(ls[t].reg, L.reg, m)
    <2> DEFINE fn == f.fn
    <2>1. fn \in Nat /\ m <= fn /\ Keeps(rg, rg2, fn)
      BY <1>7, <1>12
    <2> HIDE DEF fn, m
    <2>2. Keeps(rg, rg2, m)
      BY <1>18, <2>1 DEF Keeps
    <2> QED
      BY <1>17, <2>2
  <1>21. ~IsUsed(v, H, closure)
    <2>1. \A p \in H[t] : ~(p[2][2] = n /\ p[2][3] = 1)
      <3> SUFFICES ASSUME NEW p \in Live(ls[t].frames), p[1] < f.base, p[2][2] = n PROVE FALSE
        BY <1>16
      <3>1. p \in LiveOne(f)
        BY <1>1, TopNamed DEF f, n
      <3>2. f.base <= p[1] /\ p[1] \in Nat
        BY <1>4, <3>1, LiveOneFacts
      <3> QED
        BY <1>7, <3>2
    <2> QED
      BY <1>10, <1>16, <2>1, NewVarUnused
  <1>22. Live(L.frames) = H[t] \cup {<<base, v>>} /\ L.reg.array[base] = y /\ L.uvcache = Q[t]
    BY <1>12, <1>13, <1>14, <1>16, <1>17 DEF Calls
  <1>23. closure' = closure /\ Write(v, y) /\ base \in Nat /\ Remains(t, H, Q, uv') /\ ThreadOk(t, L)
    BY <1>1, <1>12, <1>16, <1>17
  <1> HIDE DEF m
  <1> QED
    BY <1>3, <1>18, <1>19, <1>20, <1>21, <1>22, <1>23, AddStep

-----------------------------------------------------------------------------
(* Closures capture variables.                                             *)

\* A step that changes the list of a thread, and its registers from the free
\* ones on.
LEMMA ListStep ==
    ASSUME IInv, NEW t \in Threads, Running(t), NEW rg2, Keeps(ls[t].reg, rg2, Free(t)),
           ls[t].reg.top <= rg2.top, NEW q2 \in Seq(Upvals), PutList(t, rg2, q2),
           NEW Q, Q[t] = q2, \A s \in Threads : s # t => Q[s] = ListOf(ls)[s],
           Bound(LiveOf(ls), ArrayOf(ls), Q, uv', closure', store), store' = store
    PROVE  IInv'
  <1> DEFINE L == With(ls[t], rg2, ls[t].frames, q2)
  <1>1. ls' = [ls EXCEPT ![t] = L]
    BY PutListIs
  <1>2. IsRegistry(rg2) /\ rg2.top \in Nat
    BY DEF Keeps, IsRegistry
  <1>3. Stacked(t, ls[t].frames, rg2.top)
    <2>1. Stacked(t, ls[t].frames, ls[t].reg.top) /\ ls[t].reg.top \in Nat
      BY ThreadFacts
    <2>2. ASSUME NEW i \in DOMAIN ls[t].frames PROVE End(ls[t].frames[i]) <= rg2.top
      <3> DEFINE e == End(ls[t].frames[i])
      <3>1. e <= ls[t].reg.top
        BY <2>1 DEF Stacked
      <3>2. FrameOk(t, i, ls[t].frames[i])
        BY <2>1 DEF Stacked
      <3>3. e \in Nat
        BY <3>2, FrameFacts
      <3> HIDE DEF e
      <3>4. e <= rg2.top
        BY <1>2, <2>1, <3>1, <3>3
      <3> QED
        BY <3>4 DEF e
    <2> QED
      BY <2>1, <2>2 DEF Stacked
  <1>4. ThreadOk(t, L) /\ L.reg = rg2 /\ L.frames = ls[t].frames /\ L.uvcache = q2
    BY <1>2, <1>3, ThreadFacts, WithOk
  <1> HIDE DEF L
  <1>5. ls'[t] = L /\ \A s \in Threads : s # t => ls'[s] = ls[s]
    BY <1>1, ThreadFacts
  <1> DEFINE H == LiveOf(ls)
             A == ArrayOf(ls)
             H2 == LiveOf(ls')
             A2 == ArrayOf(ls')
             Q2 == ListOf(ls')
  <1>6. \A s \in Threads : H2[s] = H[s] /\ Q2[s] = Q[s]
    BY <1>4, <1>5 DEF LiveOf, ListOf
  <1>7. ASSUME NEW s \in Threads, NEW p \in H[s] PROVE A2[s][p[1]] = A[s][p[1]]
    <2>1. CASE s # t
      BY <1>5, <2>1 DEF ArrayOf
    <2>2. CASE s = t
      <3>1. p \in Live(ls[t].frames)
        BY <1>7, <2>2, ThreadFacts
      <3>2. p[1] < Free(t) /\ p[1] \in Nat
        BY <3>1, RunningFacts, ThreadFacts, LiveFacts
      <3>3. rg2.array[p[1]] = ls[t].reg.array[p[1]]
        BY <3>2 DEF Keeps
      <3> QED
        BY <1>4, <1>5, <2>2, <3>3 DEF ArrayOf
    <2> QED
      BY <2>1, <2>2
  <1>8. Bound(H, A, Q, uv', closure', store)
    OBVIOUS
  <1> HIDE DEF H, A, H2, A2, Q2
  <1>9. \A w : IsUsed(w, H, closure') => store'[w] = store[w]
    OBVIOUS
  <1>10. Bound(H, A2, Q, uv', closure', store')
    BY <1>7, <1>8, <1>9, BoundAgree
  <1>11. Bound(H2, A2, Q2, uv', closure', store')
    BY <1>6, <1>10, SameBound
  <1>12. Bound(LiveOf(ls'), ArrayOf(ls'), ListOf(ls'), uv', closure', store')
    BY <1>11 DEF H2, A2, Q2
  <1> QED
    BY <1>1, <1>4, <1>12, StepKeeps

\* Where findUpvalue inserts u in the list, when register r has no upvalue.
Inserts(t, r, u, q2) ==
    LET q == ls[t].uvcache
        n == FirstFrom(q, uv, r)
    IN  ~(n # 0 /\ uv[q[n]].index = r) /\ IsInserted(q, IF n = 0 THEN Len(q) + 1 ELSE n, u, q2)

\* It is the place of r.
LEMMA InsertsIs ==
    ASSUME IInv, NEW t \in Threads, NEW r \in Nat, NEW u \in Upvals, NEW q2, Inserts(t, r, u, q2)
    PROVE  \E n \in 1 .. Len(ls[t].uvcache) + 1 :
              /\ IsInserted(ls[t].uvcache, n, u, q2)
              /\ \A i \in DOMAIN ls[t].uvcache :
                    IF i < n THEN uv[ls[t].uvcache[i]].index < r ELSE uv[ls[t].uvcache[i]].index > r
  <1> DEFINE q == ls[t].uvcache
             f == FirstFrom(q, uv, r)
             n == IF f = 0 THEN Len(q) + 1 ELSE f
  <1>1. OpenList(t, q)
    BY ListFacts
  <1>2. /\ q \in Seq(Upvals) /\ DOMAIN q = 1 .. Len(q) /\ Len(q) \in Nat
        /\ \A i, j \in DOMAIN q : i < j => uv[q[i]].index < uv[q[j]].index
        /\ \A i \in DOMAIN q : uv[q[i]].index \in Nat
    BY <1>1 DEF OpenList
  <1>3. \/ f = 0 /\ \A i \in DOMAIN q : uv[q[i]].index < r
        \/ /\ f \in DOMAIN q
           /\ \A i \in DOMAIN q : i < f => uv[q[i]].index < r
           /\ \A i \in DOMAIN q : i >= f => uv[q[i]].index >= r
    BY <1>2, FirstFromIs
  <1>4. ~(f # 0 /\ uv[q[f]].index = r) /\ IsInserted(q, n, u, q2)
    BY DEF Inserts
  <1> HIDE DEF f
  <1>5. n \in 1 .. Len(q) + 1
    BY <1>2, <1>3
  <1>6. ASSUME NEW i \in DOMAIN q PROVE IF i < n THEN uv[q[i]].index < r ELSE uv[q[i]].index > r
    <2>1. CASE f = 0
      <3>1. i < n
        BY <1>2, <2>1
      <3>2. uv[q[i]].index < r
        BY <1>2, <1>3, <2>1
      <3> HIDE DEF n
      <3> QED
        BY <3>1, <3>2
    <2>2. CASE f # 0
      <3> DEFINE ix(j) == uv[q[j]].index
      <3>1. n = f /\ f \in DOMAIN q /\ i \in Nat /\ f \in Nat
        BY <1>2, <1>3, <2>2
      <3>2. ix(f) \in Nat /\ ix(i) \in Nat
        BY <1>2, <3>1
      <3>3. f < i => ix(f) < ix(i)
        BY <1>2, <3>1
      <3>4. i < f => ix(i) < r
        BY <1>3, <2>2
      <3>5. ix(f) >= r /\ ix(f) # r
        <4>1. f >= f
          BY <3>1
        <4> QED
          BY <1>3, <1>4, <2>2, <3>1, <4>1
      <3>6. IF i < f THEN ix(i) < r ELSE ix(i) > r
        <4> HIDE DEF ix
        <4> QED
          BY <3>1, <3>2, <3>3, <3>4, <3>5
      <3> QED
        BY <3>1, <3>6
    <2> QED
      BY <2>1, <2>2
  <1> HIDE DEF n
  <1> QED
    BY <1>4, <1>5, <1>6

\* An upvalue that has just been opened.
OpenedOn(u, t, r) == [uv EXCEPT ![u] = [reg |-> t, index |-> r, closed |-> FALSE, value |-> Nil]]

\* The list stays sorted.
LEMMA InsertsOpens ==
    ASSUME IInv, NEW t \in Threads, NEW r \in Nat, NEW u \in Upvals, uv[u] = None, NEW q2,
           Inserts(t, r, u, q2)
    PROVE  /\ q2 \in Seq(Upvals)
           /\ Opens(t, r, u, uv, ListOf(ls), OpenedOn(u, t, r), [ListOf(ls) EXCEPT ![t] = q2])
  <1> DEFINE q == ls[t].uvcache
             U2 == OpenedOn(u, t, r)
             Q == ListOf(ls)
             Q2 == [ListOf(ls) EXCEPT ![t] = q2]
  <1>1. PICK n \in 1 .. Len(q) + 1 :
              /\ IsInserted(q, n, u, q2)
              /\ \A i \in DOMAIN q : IF i < n THEN uv[q[i]].index < r ELSE uv[q[i]].index > r
    BY InsertsIs
  <1>2. OpenList(t, q)
    BY ListFacts
  <1>3. /\ q \in Seq(Upvals) /\ DOMAIN q = 1 .. Len(q) /\ Len(q) \in Nat
        /\ \A i, j \in DOMAIN q : i < j => uv[q[i]].index < uv[q[j]].index
        /\ \A i \in DOMAIN q : uv[q[i]].index \in Nat /\ q[i] \in Upvals /\ q[i] # u
    BY <1>2 DEF OpenList
  <1>4. Q[t] = q /\ Q2[t] = q2 /\ \A s \in Threads : s # t => Q2[s] = Q[s]
    BY DEF ListOf
  <1>5. U2[u].index = r /\ \A w \in Upvals : w # u => U2[w] = uv[w]
    BY DEF OpenedOn, IInv, Bound, Objects
  <1>6. U2 = [uv EXCEPT ![u] = [reg |-> t, index |-> r, closed |-> FALSE, value |-> Nil]]
    BY DEF OpenedOn
  <1> HIDE DEF q, Q, Q2, U2
  <1>7. /\ q2 \in Seq(Upvals) /\ Len(q2) = Len(q) + 1
        /\ \A i \in 1 .. Len(q) + 1 :
              q2[i] = IF i < n THEN q[i] ELSE IF i = n THEN u ELSE q[i - 1]
    <2>1. IsInserted(q, n, u, q2) /\ n \in 1 .. Len(q) + 1 /\ q \in Seq(Upvals)
      BY <1>1, <1>3
    <2> QED
      BY <2>1, InsertAtIs
  <1>8. DOMAIN q2 = 1 .. Len(q) + 1 /\ n \in Nat /\ n >= 1 /\ n <= Len(q) + 1
    BY <1>1, <1>3, <1>7
  <1>9. ASSUME NEW i \in DOMAIN q2
        PROVE  \/ i < n /\ i \in DOMAIN q /\ q2[i] = q[i]
               \/ i = n /\ q2[i] = u
               \/ i > n /\ i - 1 \in DOMAIN q /\ ~(i - 1 < n) /\ q2[i] = q[i - 1]
    <2>1. i \in Nat /\ i >= 1 /\ i <= Len(q) + 1
      BY <1>3, <1>8
    <2>2. CASE i < n
      BY <1>3, <1>7, <1>8, <2>1, <2>2
    <2>3. CASE i = n
      BY <1>3, <1>7, <1>8, <2>1, <2>3
    <2>4. CASE i > n
      <3>1. i - 1 \in DOMAIN q /\ ~(i - 1 < n)
        BY <1>3, <1>8, <2>1, <2>4
      <3>2. q2[i] = q[i - 1]
        BY <1>7, <1>8, <2>1, <2>4
      <3> QED
        BY <2>4, <3>1, <3>2
    <2> QED
      BY <1>8, <2>1, <2>2, <2>3, <2>4
  <1>10. ASSUME NEW i \in DOMAIN q2
         PROVE  \/ i < n /\ i \in DOMAIN q /\ U2[q2[i]].index = uv[q[i]].index /\ U2[q2[i]].index < r
                \/ i = n /\ U2[q2[i]].index = r
                \/ /\ i > n /\ i - 1 \in DOMAIN q /\ U2[q2[i]].index = uv[q[i - 1]].index
                   /\ U2[q2[i]].index > r
    <2>1. CASE i < n /\ i \in DOMAIN q /\ q2[i] = q[i]
      BY <1>1, <1>3, <1>5, <2>1
    <2>2. CASE i = n /\ q2[i] = u
      BY <1>5, <2>2
    <2>3. CASE i > n /\ i - 1 \in DOMAIN q /\ ~(i - 1 < n) /\ q2[i] = q[i - 1]
      <3> DEFINE k == i - 1
      <3>1. k \in DOMAIN q /\ ~(k < n) /\ q2[i] = q[k] /\ i > n
        BY <2>3
      <3> HIDE DEF k
      <3>2. U2[q2[i]].index = uv[q[k]].index /\ U2[q2[i]].index > r
        BY <1>1, <1>3, <1>5, <3>1
      <3> QED
        BY <3>1, <3>2 DEF k
    <2> QED
      BY <1>9, <2>1, <2>2, <2>3
  <1>11. ASSUME NEW i \in DOMAIN q2, NEW j \in DOMAIN q2, i < j PROVE U2[q2[i]].index < U2[q2[j]].index
    <2>1. i \in Nat /\ j \in Nat
      BY <1>3, <1>8
    <2>2. CASE i < n /\ j < n
      <3>1. i \in DOMAIN q /\ U2[q2[i]].index = uv[q[i]].index
        BY <1>8, <1>10, <2>1, <2>2
      <3>2. j \in DOMAIN q /\ U2[q2[j]].index = uv[q[j]].index
        BY <1>8, <1>10, <2>1, <2>2
      <3> QED
        BY <1>3, <1>11, <3>1, <3>2
    <2>3. CASE i <= n /\ j >= n
      <3>1. (U2[q2[i]].index = r /\ i = n) \/ (U2[q2[i]].index \in Nat /\ U2[q2[i]].index < r)
        <4>1. ~(i > n)
          BY <1>8, <2>1, <2>3
        <4>2. CASE i < n /\ i \in DOMAIN q /\ U2[q2[i]].index = uv[q[i]].index /\ U2[q2[i]].index < r
          BY <1>3, <4>2
        <4> QED
          BY <1>10, <4>1, <4>2
      <3>2. (U2[q2[j]].index = r /\ j = n) \/ (U2[q2[j]].index \in Nat /\ U2[q2[j]].index > r)
        <4>1. ~(j < n)
          BY <1>8, <2>1, <2>3
        <4>2. CASE /\ j > n /\ j - 1 \in DOMAIN q /\ U2[q2[j]].index = uv[q[j - 1]].index
                   /\ U2[q2[j]].index > r
          <5> DEFINE k == j - 1
          <5>1. k \in DOMAIN q /\ U2[q2[j]].index = uv[q[k]].index
            BY <4>2
          <5> HIDE DEF k
          <5> QED
            BY <1>3, <4>2, <5>1
        <4> QED
          BY <1>10, <4>1, <4>2
      <3> DEFINE a == U2[q2[i]].index
                 b == U2[q2[j]].index
      <3>3. (a = r /\ i = n) \/ (a \in Nat /\ a < r)
        BY <3>1
      <3>4. (b = r /\ j = n) \/ (b \in Nat /\ b > r)
        BY <3>2
      <3> HIDE DEF a, b
      <3>5. a < b
        BY <1>8, <1>11, <2>1, <3>3, <3>4
      <3> QED
        BY <3>5 DEF a, b
    <2>4. CASE i > n /\ j > n
      <3> DEFINE k == i - 1
                 l == j - 1
      <3>1. k \in DOMAIN q /\ U2[q2[i]].index = uv[q[k]].index
        BY <1>8, <1>10, <2>1, <2>4
      <3>2. l \in DOMAIN q /\ U2[q2[j]].index = uv[q[l]].index
        BY <1>8, <1>10, <2>1, <2>4
      <3>3. k < l
        BY <1>11, <2>1
      <3> HIDE DEF k, l
      <3> QED
        BY <1>3, <3>1, <3>2, <3>3
    <2> QED
      BY <1>8, <1>11, <2>1, <2>2, <2>3, <2>4
  <1>12. \A i \in DOMAIN q2 : q2[i] = u \/ \E j \in DOMAIN q : q2[i] = q[j]
    BY <1>9
  <1>13. Contains(q2, u)
    <2>1. n \in 1 .. Len(q2) /\ q2[n] = u
      BY <1>1, <1>7, <1>8
    <2> QED
      BY <2>1 DEF Contains
  <1>14. ASSUME NEW j \in DOMAIN q PROVE Contains(q2, q[j])
    <2>1. j \in Nat /\ j >= 1 /\ j <= Len(q)
      BY <1>3
    <2>2. CASE j < n
      <3>1. j \in 1 .. Len(q2) /\ q2[j] = q[j]
        BY <1>3, <1>7, <2>1, <2>2
      <3> QED
        BY <3>1 DEF Contains
    <2>3. CASE ~(j < n)
      <3> DEFINE k == j + 1
      <3>1. k \in 1 .. Len(q) + 1 /\ ~(k < n) /\ k # n /\ k - 1 = j
        BY <1>3, <1>8, <2>1, <2>3
      <3> HIDE DEF k
      <3>2. q2[k] = q[k - 1]
        BY <1>7, <3>1
      <3>3. k \in 1 .. Len(q2) /\ q2[k] = q[j]
        BY <1>7, <3>1, <3>2
      <3> QED
        BY <3>3 DEF Contains
    <2> QED
      BY <2>2, <2>3
  <1>15. \A j \in DOMAIN q : uv[q[j]].index # r
    <2> SUFFICES ASSUME NEW j \in DOMAIN q PROVE uv[q[j]].index # r
      OBVIOUS
    <2>1. IF j < n THEN uv[q[j]].index < r ELSE uv[q[j]].index > r
      BY <1>1
    <2>2. uv[q[j]].index \in Nat
      BY <1>3
    <2> QED
      BY <2>1, <2>2
  <1>16. Opens(t, r, u, uv, Q, U2, Q2)
    BY <1>4, <1>6, <1>7, <1>11, <1>12, <1>13, <1>14, <1>15 DEF Opens
  <1> QED
    BY <1>7, <1>16 DEF Q, Q2, U2

\* A closure is made.
LEMMA MakeClosureKeeps ==
    ASSUME IInv, NEW t \in Threads, NEW i, NEW c \in Closures, MakeClosure(t, i, c)
    PROVE  IInv'
  <1> DEFINE f == Top(t)
             u == CHOOSE w \in Upvals : uv[w] = None
             r == f.base + i - 1
             v == f.vars[i]
             q == ls[t].uvcache
             n == FirstFrom(q, uv, r)
             has == n # 0 /\ uv[q[n]].index = r
             q3 == InsertAt(q, IF n = 0 THEN Len(q) + 1 ELSE n, u)
             w2 == IF has THEN q[n] ELSE u
             q2 == IF has THEN q ELSE q3
             rg == ls[t].reg
             rg2 == Set(rg, Free(t), Nil)
             p == <<r, v>>
             H == LiveOf(ls)
             A == ArrayOf(ls)
             Q == ListOf(ls)
             Q2 == [Q EXCEPT ![t] = q2]
  <1>1. /\ Running(t) /\ i \in DOMAIN f.vars /\ closure[c] = None /\ Fits(rg, Free(t) + 1)
        /\ \E w \in Upvals : uv[w] = None
        /\ store' = store
    BY DEF MakeClosure
  <1>2. findUpvalue(t, r, u) = [uv |-> w2, cache |-> q2]
    <2> HIDE DEF r, u
    <2>1. findUpvalue(t, r, u) = IF has THEN [uv |-> q[n], cache |-> q] ELSE [uv |-> u, cache |-> q3]
      BY DEF findUpvalue, FirstFrom
    <2> HIDE DEF n, q3, q
    <2>2. CASE has
      BY <2>1, <2>2
    <2>3. CASE ~has
      BY <2>1, <2>3
    <2> QED
      BY <2>2, <2>3
  <1>3. /\ closure' = [closure EXCEPT ![c] = [uv |-> w2, var |-> v]]
        /\ PutList(t, rg2, q2)
        /\ uv' = IF w2 = u THEN OpenedOn(u, t, r) ELSE uv
    <2> DEFINE found == findUpvalue(t, r, u)
    <2>1. closure' = [closure EXCEPT ![c] = [uv |-> found.uv, var |-> v]]
      BY DEF MakeClosure
    <2>2. ls' = [ls EXCEPT ![t].reg = rg2, ![t].uvcache = found.cache]
      BY DEF MakeClosure
    <2>3. uv' = IF found.uv = u THEN OpenedOn(u, t, r) ELSE uv
      <3> DEFINE opened == [uv EXCEPT ![u] = [reg |-> t, index |-> r, closed |-> FALSE, value |-> Nil]]
      <3>1. uv' = IF found.uv = u THEN opened ELSE uv
        BY DEF MakeClosure
      <3> HIDE DEF u, r, found
      <3>2. OpenedOn(u, t, r) = opened
        BY DEF OpenedOn
      <3> HIDE DEF opened
      <3> QED
        BY <3>1, <3>2
    <2>4. found.uv = w2 /\ found.cache = q2
      <3>1. found = [uv |-> w2, cache |-> q2]
        BY <1>2
      <3> HIDE DEF found, w2, q2
      <3> QED
        BY <3>1
    <2> HIDE DEF found, w2, q2, rg2, r, u, v
    <2>5. ls' = [ls EXCEPT ![t].reg = rg2, ![t].uvcache = q2]
      BY <2>4, <2>2
    <2> QED
      BY <2>4, <2>1, <2>3, <2>5 DEF PutList
  <1>4. u \in Upvals /\ uv[u] = None
    BY <1>1
  <1>5. FrameOk(t, Len(ls[t].frames), f) /\ f = ls[t].frames[Len(ls[t].frames)]
        /\ Len(ls[t].frames) \in DOMAIN ls[t].frames
    BY <1>1, RunningFacts
  <1>6. p \in LiveOne(f) /\ p \in H[t]
    <2>1. p \in LiveOne(f)
      BY <1>1 DEF LiveOne
    <2> HIDE DEF p
    <2>2. p \in Live(ls[t].frames)
      BY <1>5, <2>1, LiveIs
    <2> QED
      BY <2>1, <2>2, ThreadFacts
  <1>7. r \in Nat /\ v \in Names /\ p[1] = r /\ p[2] = v
    <2>1. p[1] = r /\ p[2] = v
      OBVIOUS
    <2> HIDE DEF p
    <2>2. p[1] \in Nat /\ p[2] \in Names
      BY <1>5, <1>6, LiveOneFacts
    <2> QED
      BY <2>1, <2>2
  <1> HIDE DEF u, r, v, f, p
  <1>8. OpenList(t, q)
    BY ListFacts
  <1>9. /\ q \in Seq(Upvals) /\ DOMAIN q = 1 .. Len(q) /\ Len(q) \in Nat
        /\ \A j \in DOMAIN q : q[j] \in Upvals /\ uv[q[j]] # None /\ uv[q[j]].index \in Nat
        /\ \A j, k \in DOMAIN q : j < k => uv[q[j]].index < uv[q[k]].index
    BY <1>8 DEF OpenList
  <1>10. n = 0 \/ n \in DOMAIN q
    <2>1. \/ n = 0 /\ \A j \in DOMAIN q : uv[q[j]].index < r
          \/ /\ n \in DOMAIN q
             /\ \A j \in DOMAIN q : j < n => uv[q[j]].index < r
             /\ \A j \in DOMAIN q : j >= n => uv[q[j]].index >= r
      <3>1. \A j \in DOMAIN q : uv[q[j]].index \in Nat
        BY <1>9
      <3>2. q \in Seq(Upvals) /\ \A j, k \in DOMAIN q : j < k => uv[q[j]].index < uv[q[k]].index
        BY <1>9
      <3>3. r \in Nat
        BY <1>7
      <3> HIDE DEF q
      <3> QED
        BY <3>1, <3>2, <3>3, FirstFromIs
    <2> QED
      BY <2>1
  <1>11. Inserts(t, r, u, q3) \/ has
    BY DEF Inserts, IsInserted
  <1> HIDE DEF n, q3, q
  <1>12. Bound(H, A, Q, uv, closure, store)
    BY DEF IInv
  <1>13. Q[t] = q /\ DOMAIN Q = Threads
    BY DEF ListOf, q
  <1> HIDE DEF H, A, Q
  <1>14. /\ q2 \in Seq(Upvals) /\ Bound(H, A, Q2, uv', closure, store)
         /\ w2 \in Upvals /\ Contains(q2, w2) /\ uv'[w2].index = r
    <2>1. CASE has
      <3>1. n \in DOMAIN q /\ w2 = q[n] /\ q2 = q /\ uv[q[n]].index = r
        BY <1>10, <2>1
      <3>2. w2 # u /\ w2 \in Upvals /\ uv[w2].index = r
        BY <1>4, <1>9, <3>1
      <3>3. uv' = uv
        BY <1>3, <3>2
      <3>4. \A s \in Threads : H[s] = H[s] /\ Q2[s] = Q[s]
        BY <1>13, <3>1
      <3>5. Contains(q2, w2)
        BY <1>9, <3>1 DEF Contains
      <3> HIDE DEF Q2, q2, w2
      <3>6. Bound(H, A, Q2, uv, closure, store)
        BY <1>12, <3>4, SameBound
      <3> QED
        BY <1>9, <3>1, <3>2, <3>3, <3>5, <3>6
    <2>2. CASE ~has
      <3>1. w2 = u /\ q2 = q3 /\ Inserts(t, r, u, q3)
        BY <1>11, <2>2
      <3>2. uv' = OpenedOn(u, t, r)
        BY <1>3, <3>1
      <3>3. /\ q3 \in Seq(Upvals)
            /\ Opens(t, r, u, uv, ListOf(ls), OpenedOn(u, t, r), [ListOf(ls) EXCEPT ![t] = q3])
        BY <1>4, <1>7, <3>1, InsertsOpens
      <3>4. Q2 = [ListOf(ls) EXCEPT ![t] = q3]
        BY <3>1 DEF Q
      <3> HIDE DEF Q2, q2, w2
      <3>5. Opens(t, r, u, uv, Q, uv', Q2)
        BY <3>2, <3>3, <3>4 DEF Q
      <3>6. Opens(t, p[1], u, uv, Q, uv', Q2) /\ p[1] \in Nat
        BY <1>7, <3>5
      <3>7. Bound(H, A, Q2, uv', closure, store)
        BY <1>4, <1>6, <1>12, <3>6, BoundOpen
      <3>8. Contains(Q2[t], u)
        BY <3>5 DEF Opens
      <3>9. Q2[t] = q2
        BY <1>13 DEF Q2
      <3>10. uv'[u].index = r
        BY <1>4, <3>2 DEF OpenedOn, IInv, Bound, Objects
      <3> QED
        BY <1>4, <3>1, <3>3, <3>7, <3>8, <3>9, <3>10
    <2> QED
      BY <2>1, <2>2
  <1>15. Q2[t] = q2 /\ \A s \in Threads : s # t => Q2[s] = ListOf(ls)[s]
    BY <1>13 DEF Q
  <1> HIDE DEF Q2, q2, w2, has
  <1>16. Bound(H, A, Q2, uv', closure', store)
    <2>1. Shares(closure, c, w2, p[2], closure')
      BY <1>3, <1>7 DEF Shares
    <2>2. p \in H[t] /\ p[2] \in Names /\ Contains(Q2[t], w2) /\ uv'[w2].index = p[1] /\ closure[c] = None
      BY <1>1, <1>6, <1>7, <1>14, <1>15
    <2> QED
      BY <1>14, <2>1, <2>2, BoundShare
  <1>17. Keeps(rg, rg2, Free(t)) /\ rg.top <= rg2.top
    <2>1. Free(t) \in Nat /\ Free(t) <= rg.top /\ IsRegistry(rg) /\ rg.top \in Nat /\ Nil \in Contents
      BY <1>1, RunningFacts, ThreadFacts DEF Contents
    <2> HIDE DEF rg
    <2>2. Keeps(rg, rg2, Free(t)) /\ rg2.top = IF Free(t) >= rg.top THEN Free(t) + 1 ELSE rg.top
      BY <1>1, <2>1, SetKeeps
    <2> HIDE DEF rg2
    <2> QED
      BY <2>1, <2>2
  <1> HIDE DEF rg2
  <1>18. Bound(LiveOf(ls), ArrayOf(ls), Q2, uv', closure', store)
    BY <1>16 DEF H, A
  <1>19. Running(t) /\ PutList(t, rg2, q2) /\ store' = store /\ q2 \in Seq(Upvals)
    BY <1>1, <1>3, <1>14
  <1> QED
    BY <1>15, <1>17, <1>18, <1>19, ListStep

-----------------------------------------------------------------------------
(* The invariant.                                                          *)

\* The initial states.
LEMMA InitOk == Init => IInv
  <1> SUFFICES ASSUME Init PROVE IInv
    OBVIOUS
  <1> DEFINE o == SomeOptions
             W == NewLState(FALSE, o, newRegistry(o))
             L == [W EXCEPT !.status = "none"]
  <1>1. ls = [t \in Threads |-> L] /\ uv = [u \in Upvals |-> None] /\ closure = [c \in Closures |-> None]
    BY DEF Init
  <1>2. o \in Options
    BY RegistersAssumption DEF SomeOptions
  <1>3. IsRegistry(newRegistry(o))
    BY <1>2, NewRegistryOk
  <1> HIDE DEF o
  <1>4. L \in [status : {"none", "live", "dead", "pooled"}, thread : BOOLEAN, options : Options,
               reg : {newRegistry(o)}, frames : {<<>>}, uvcache : {<<>>}]
    BY <1>2 DEF NewLState
  <1> HIDE DEF L
  <1>5. L.reg = newRegistry(o) /\ L.frames = <<>> /\ L.uvcache = <<>>
    BY <1>4
  <1>6. \A t \in Threads : ThreadOk(t, L)
    BY <1>3, <1>4, <1>5, ThreadMade
  <1>7. \A t \in Threads : ls[t] = L
    BY <1>1
  <1> DEFINE H == LiveOf(ls)
             A == ArrayOf(ls)
             Q == ListOf(ls)
  <1>8. \A t \in Threads : H[t] = {} /\ Q[t] = <<>>
    BY <1>5, <1>7, StackedNone DEF LiveOf, ListOf
  <1>9. \A u \in Upvals : uv[u] = None
    BY <1>1
  <1>10. \A c \in Closures : closure[c] = None
    BY <1>1
  <1> HIDE DEF H, A, Q
  <1>11. Once(H)
    BY <1>8 DEF Once
  <1>12. Objects(uv)
    BY <1>1, <1>9 DEF Objects
  <1>13. Holding(uv, closure)
    BY <1>1, <1>10 DEF Holding
  <1>14. Attached(H, uv, closure)
    BY <1>8 DEF Attached
  <1>15. Listed(Q, uv)
    <2> SUFFICES ASSUME NEW t \in Threads
                 PROVE  /\ Q[t] \in Seq(Upvals)
                        /\ \A i, j \in DOMAIN Q[t] : i < j => uv[Q[t][i]].index < uv[Q[t][j]].index
                        /\ \A u \in Upvals : uv[u] # None /\ uv[u].reg = t => Contains(Q[t], u)
      BY DEF Listed
    <2>1. Q[t] = <<>> /\ DOMAIN Q[t] = {}
      BY <1>8
    <2> QED
      BY <1>9, <2>1
  <1>16. Placed(H, Q, uv, closure)
    <2>1. \A t \in Threads : DOMAIN Q[t] = {}
      BY <1>8
    <2> QED
      BY <2>1 DEF Placed
  <1>17. Kept(H, A, uv, closure, store)
    BY <1>8, <1>10 DEF Kept
  <1>18. Bound(H, A, Q, uv, closure, store)
    BY <1>11, <1>12, <1>13, <1>14, <1>15, <1>16, <1>17 DEF Bound
  <1> QED
    BY <1>1, <1>6, <1>7, <1>18 DEF IInv, H, A, Q

\* Steps of one thread.
LEMMA ThreadStepKeeps ==
    ASSUME IInv, NEW t \in Threads,
           \/ \E x \in Contents : DeclareLocal(t, x)
           \/ \E i \in 1 .. MaxLocals, x \in Contents : AssignLocal(t, i, x)
           \/ \E i \in 1 .. MaxLocals, c \in Closures : MakeClosure(t, i, c)
           \/ \E k \in 1 .. MaxLocals - 1 : LeaveBlock(t, k)
           \/ \E s \in CallShapes, x \in Contents :
                 \/ \E protected \in BOOLEAN : Call(t, s[1], x, s[2], protected)
                 \/ TailCall(t, s[1], x, s[2])
           \/ Return(t) \/ Yield(t) \/ Raise(t) \/ Start(t) \/ Close(t)
           \/ \E o \in Options : newLState(t, o) \/ newLStateWithGlobal(t, o)
    PROVE  IInv'
  <1>1. CASE \E x \in Contents : DeclareLocal(t, x)
    BY <1>1, DeclareLocalKeeps
  <1>2. CASE \E i \in 1 .. MaxLocals, x \in Contents : AssignLocal(t, i, x)
    BY <1>2, AssignLocalKeeps
  <1>3. CASE \E i \in 1 .. MaxLocals, c \in Closures : MakeClosure(t, i, c)
    BY <1>3, MakeClosureKeeps
  <1>4. CASE \E k \in 1 .. MaxLocals - 1 : LeaveBlock(t, k)
    BY <1>4, LeaveBlockKeeps
  <1>5. CASE \E s \in CallShapes, x \in Contents :
                 \/ \E protected \in BOOLEAN : Call(t, s[1], x, s[2], protected)
                 \/ TailCall(t, s[1], x, s[2])
    <2>1. PICK s \in CallShapes, x \in Contents :
                 \/ \E protected \in BOOLEAN : Call(t, s[1], x, s[2], protected)
                 \/ TailCall(t, s[1], x, s[2])
      BY <1>5
    <2>2. s[1] \in Nat /\ s[2] \in BOOLEAN
      BY RegistersAssumption
    <2> DEFINE nargs == s[1]
               vararg == s[2]
    <2>3. \/ \E protected \in BOOLEAN : Call(t, nargs, x, vararg, protected)
          \/ TailCall(t, nargs, x, vararg)
      BY <2>1
    <2>4. nargs \in Nat /\ vararg \in BOOLEAN
      BY <2>2
    <2> HIDE DEF nargs, vararg
    <2> QED
      BY <2>3, <2>4, CallKeeps, TailCallKeeps
  <1>6. CASE Return(t)
    BY <1>6, ReturnKeeps
  <1>7. CASE Yield(t)
    BY <1>7, YieldKeeps
  <1>8. CASE Raise(t)
    BY <1>8, RaiseKeeps
  <1>9. CASE Start(t)
    BY <1>9, StartKeeps
  <1>10. CASE Close(t)
    BY <1>10, CloseKeeps
  <1>11. CASE \E o \in Options : newLState(t, o) \/ newLStateWithGlobal(t, o)
    BY <1>11, newLStateKeeps, newLStateWithGlobalKeeps
  <1> QED
    BY <1>1, <1>2, <1>3, <1>4, <1>5, <1>6, <1>7, <1>8, <1>9, <1>10, <1>11

\* Every step.
LEMMA NextKeeps ==
    ASSUME IInv, [Next]_vars
    PROVE  IInv'
  <1>1. CASE \E c, d \in Closures : InheritUpvalue(c, d)
    BY <1>1, InheritUpvalueKeeps
  <1>2. CASE \E c \in Closures, x \in Contents : SetUpvalue(c, x)
    BY <1>2, SetUpvalueKeeps
  <1>3. CASE UNCHANGED vars
    BY <1>3, Zenon DEF vars, IInv, LiveOf, ArrayOf, ListOf
  <1>4. CASE \E t \in Threads :
                 \/ \E x \in Contents : DeclareLocal(t, x)
                 \/ \E i \in 1 .. MaxLocals, x \in Contents : AssignLocal(t, i, x)
                 \/ \E i \in 1 .. MaxLocals, c \in Closures : MakeClosure(t, i, c)
                 \/ \E k \in 1 .. MaxLocals - 1 : LeaveBlock(t, k)
                 \/ \E s \in CallShapes, x \in Contents :
                       \/ \E protected \in BOOLEAN : Call(t, s[1], x, s[2], protected)
                       \/ TailCall(t, s[1], x, s[2])
                 \/ Return(t) \/ Yield(t) \/ Raise(t) \/ Start(t) \/ Close(t)
                 \/ \E o \in Options : newLState(t, o) \/ newLStateWithGlobal(t, o)
    BY <1>4, ThreadStepKeeps
  <1> QED
    BY <1>1, <1>2, <1>3, <1>4, Zenon DEF Next

\* The value behind an upvalue, and the registers, are those of the store.
LEMMA InvKept == IInv => VariablesKept
  <1> SUFFICES ASSUME IInv PROVE VariablesKept
    OBVIOUS
  <1> DEFINE H == LiveOf(ls)
             A == ArrayOf(ls)
             Q == ListOf(ls)
  <1>1. Bound(H, A, Q, uv, closure, store)
    BY DEF IInv
  <1>2. \A t \in Threads : H[t] = Live(ls[t].frames) /\ A[t] = ls[t].reg.array
    BY DEF LiveOf, ArrayOf
  <1> HIDE DEF H, A, Q
  <1>3. ASSUME NEW c \in Closures, closure[c] # None PROVE Value(closure[c].uv) = store[closure[c].var]
    <2> DEFINE u == closure[c].uv
    <2>1. u \in Upvals /\ uv[u] # None
      BY <1>1, <1>3 DEF Bound, Holding
    <2>2. CASE uv[u].closed
      BY <1>1, <1>3, <2>2 DEF Bound, Kept, Value
    <2>3. CASE ~uv[u].closed
      <3> DEFINE t == uv[u].reg
      <3>1. t \in Threads
        BY <1>1, <2>1, <2>3 DEF Bound, Objects
      <3>2. Contains(Q[t], u) /\ Q[t] \in Seq(Upvals)
        BY <1>1, <2>1, <3>1 DEF Bound, Listed
      <3>3. PICK i \in DOMAIN Q[t] : Q[t][i] = u
        BY <3>2, ContainsIs
      <3>4. OnVariable(t, u, H, uv, closure)
        BY <1>1, <3>1, <3>3 DEF Bound, Placed
      <3>5. PICK p \in H[t] : /\ p[1] = uv[u].index
                              /\ \A d \in Closures :
                                    closure[d] # None /\ closure[d].uv = u => closure[d].var = p[2]
        BY <3>4 DEF OnVariable
      <3>6. A[t][p[1]] = store[p[2]]
        BY <1>1, <3>1 DEF Bound, Kept
      <3> QED
        BY <1>2, <1>3, <2>3, <3>1, <3>5, <3>6 DEF Value
    <2> QED
      BY <2>2, <2>3
  <1>4. ASSUME NEW t \in Threads, NEW i \in DOMAIN Frames(t), NEW k \in DOMAIN Frames(t)[i].vars
        PROVE  ls[t].reg.array[Frames(t)[i].base + k - 1] = store[Frames(t)[i].vars[k]]
    <2> DEFINE f == ls[t].frames[i]
               p == <<f.base + k - 1, f.vars[k]>>
    <2>1. p \in LiveOne(f)
      BY DEF LiveOne, Frames
    <2> HIDE DEF p
    <2>2. p \in Live(ls[t].frames)
      BY <2>1, LiveIs DEF Frames
    <2>3. A[t][p[1]] = store[p[2]]
      BY <1>1, <1>2, <2>2 DEF Bound, Kept
    <2> QED
      BY <1>2, <2>3 DEF p, Frames
  <1> QED
    BY <1>3, <1>4 DEF VariablesKept

\* The lists are as they should be.
LEMMA InvListed == IInv => OpenUpvaluesListed
  <1> SUFFICES ASSUME IInv, NEW t \in Threads
               PROVE  LET cache == ls[t].uvcache IN
                      /\ \A i, j \in DOMAIN cache : i < j => uv[cache[i]].index < uv[cache[j]].index
                      /\ \A u \in Upvals : uv[u] # None /\ uv[u].reg = t => Contains(cache, u)
                      /\ \A u \in Range(cache) :
                            /\ ~uv[u].closed /\ uv[u].index < ls[t].reg.top
                            /\ \E i \in DOMAIN Frames(t) : \E k \in DOMAIN Frames(t)[i].vars :
                                  /\ Frames(t)[i].base + k - 1 = uv[u].index
                                  /\ \A c \in Holders(u) : closure[c].var = Frames(t)[i].vars[k]
    BY DEF OpenUpvaluesListed
  <1> DEFINE q == ls[t].uvcache
             H == LiveOf(ls)
             A == ArrayOf(ls)
             Q == ListOf(ls)
  <1>1. Bound(H, A, Q, uv, closure, store)
    BY DEF IInv
  <1>2. H[t] = Live(ls[t].frames) /\ Q[t] = q
    BY DEF LiveOf, ListOf
  <1>3. OpenList(t, q)
    BY ListFacts
  <1> HIDE DEF H, A, Q, q
  <1>4. \A i, j \in DOMAIN q : i < j => uv[q[i]].index < uv[q[j]].index
    BY <1>3 DEF OpenList
  <1>5. \A u \in Upvals : uv[u] # None /\ uv[u].reg = t => Contains(q, u)
    BY <1>1, <1>2 DEF Bound, Listed
  <1>6. ASSUME NEW u \in Range(q)
        PROVE  /\ ~uv[u].closed /\ uv[u].index < ls[t].reg.top
               /\ \E i \in DOMAIN Frames(t) : \E k \in DOMAIN Frames(t)[i].vars :
                     /\ Frames(t)[i].base + k - 1 = uv[u].index
                     /\ \A c \in Holders(u) : closure[c].var = Frames(t)[i].vars[k]
    <2>1. PICK j \in DOMAIN q : q[j] = u
      BY DEF Range
    <2>2. ~uv[u].closed
      BY <1>3, <2>1 DEF OpenList
    <2>3. OnVariable(t, u, H, uv, closure)
      BY <1>1, <1>2, <2>1 DEF Bound, Placed
    <2>4. PICK p \in H[t] : /\ p[1] = uv[u].index
                            /\ \A c \in Closures :
                                  closure[c] # None /\ closure[c].uv = u => closure[c].var = p[2]
      BY <2>3 DEF OnVariable
    <2>5. p[1] < ls[t].reg.top
      BY <1>2, ThreadFacts, LiveFacts
    <2>6. PICK i \in DOMAIN ls[t].frames : p \in LiveOne(ls[t].frames[i])
      BY <1>2, LiveIs
    <2>7. PICK k \in DOMAIN ls[t].frames[i].vars :
              p = <<ls[t].frames[i].base + k - 1, ls[t].frames[i].vars[k]>>
      BY <2>6 DEF LiveOne
    <2>8. /\ ls[t].frames[i].base + k - 1 = uv[u].index
          /\ \A c \in Holders(u) : closure[c].var = ls[t].frames[i].vars[k]
      BY <2>4, <2>7 DEF Holders
    <2> QED
      BY <2>2, <2>4, <2>5, <2>8 DEF Frames
  <1> QED
    BY <1>4, <1>5, <1>6 DEF q

-----------------------------------------------------------------------------
(* Theorems.                                                               *)

\* Calls lie one above the other in the registers of a thread, below the top,
\* each variable in a register of its own; a captured variable that is in a
\* register has one open upvalue there, which is in the sorted list of the
\* thread (callFrame, registry and findUpvalue of state.go and registry.go).
THEOREM LayoutKept == Spec => []IInv
  <1>1. Init => IInv
    BY InitOk
  <1>2. IInv /\ [Next]_vars => IInv'
    BY NextKeeps
  <1> QED
    BY <1>1, <1>2, PTL DEF Spec

\* Local variables behave as Lua promises, in registers and behind upvalues
\* (registry.go, closeUpvalues and findUpvalue of state.go).
THEOREM LocalsKept == Spec => []VariablesKept
  <1>1. Init => IInv
    BY InitOk
  <1>2. IInv /\ [Next]_vars => IInv'
    BY NextKeeps
  <1>3. IInv => VariablesKept
    BY InvKept
  <1> QED
    BY <1>1, <1>2, <1>3, PTL DEF Spec

\* The list of open upvalues of a state is complete, sorted, and of variables
\* that are in registers below the top (uvcache of state.go).
THEOREM UpvaluesListed == Spec => []OpenUpvaluesListed
  <1>1. Init => IInv
    BY InitOk
  <1>2. IInv /\ [Next]_vars => IInv'
    BY NextKeeps
  <1>3. IInv => OpenUpvaluesListed
    BY InvListed
  <1> QED
    BY <1>1, <1>2, <1>3, PTL DEF Spec

=============================================================================
