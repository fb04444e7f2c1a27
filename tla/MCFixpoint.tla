----------------------------- MODULE MCFixpoint -----------------------------
(* A chunk with two functions; the chunk and the second call the first.    *)
EXTENDS Fixpoint
CONSTANTS chunk, f, h
MCParent == [g \in {f, h} |-> chunk]
MCOrder == <<chunk, f, h>>
MCCallees == [g \in {chunk, f, h} |-> IF g = f THEN {} ELSE {f}]
=============================================================================
