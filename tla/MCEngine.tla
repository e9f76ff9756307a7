----------------------------- MODULE MCEngine -----------------------------
(* Small instances of Engine.  Callers are interchangeable.                *)
EXTENDS Engine, TLC

CONSTANTS a1, a2, c1, c2, c3

MCCalls == {a1, a2}
MCWatched == {a1}
MCThree == {c1, c2, c3}
MCTwo == {c1, c2}
MCSymmetry == Permutations(MCThree)
=============================================================================
