------------------------------- MODULE Ledger -------------------------------
(***************************************************************************)
(* What the engine and the call journal agree on: which calls are settled  *)
(* by a usable result, and how many results were recorded.  The journal    *)
(* keeps it in a file, the engine decides by it what to run and how far    *)
(* the agent ceiling is.  A kill or a restart on either side changes       *)
(* nothing here.                                                           *)
(***************************************************************************)
EXTENDS Integers

CONSTANT Keys

VARIABLES
  settled,  \* the calls with a usable result on record
  recs      \* the number of results on record, usable or not

Init == settled = {} /\ recs = 0

\* A result of k is recorded.
Note(k, usable) ==
  /\ recs' = recs + 1
  /\ settled' = IF usable THEN settled \cup {k} ELSE settled

Next == \E k \in Keys, usable \in BOOLEAN : Note(k, usable)

Spec == Init /\ [][Next]_<<settled, recs>>
=============================================================================
