----------------------------- MODULE MCRegisters -----------------------------
(***************************************************************************)
(* Instances of Registers for TLC.                                         *)
(***************************************************************************)
EXTENDS Registers, TLC

\* The first call of a state fills its registry, the second makes it grow.
MCOptions == {[RegistrySize |-> 6, RegistryGrowStep |-> 14, RegistryMaxSize |-> 20]}

\* Calls of vararg functions; the first call of a state is a plain one.
MCCallShapes == {<<1, TRUE>>}

MCSymmetry == Permutations(Closures) \cup Permutations(Upvals)
=============================================================================
