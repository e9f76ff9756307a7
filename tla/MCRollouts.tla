----------------------------- MODULE MCRollouts -----------------------------
(* Small instances of Rollouts: two requests of one call, or one request   *)
(* each of two calls.                                                      *)
EXTENDS Rollouts
CONSTANTS r1, r2

OneCall == [r \in Rollouts |-> 1]
TwoCalls == [r \in Rollouts |-> IF r = r1 THEN 1 ELSE 2]
=============================================================================
