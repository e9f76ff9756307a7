---------------------------- MODULE MCDetector ----------------------------
(* Small instances of Detector.  The results: no candidate, a harness     *)
(* failure, an agent that ended without a diff, and measurements that      *)
(* pass none, one and two tests.                                           *)
EXTENDS Detector

Outcome(ok, valid, gold, sha) ==
  [none |-> FALSE, ok |-> ok, valid |-> valid, gold |-> gold, rate |-> gold,
   sha |-> sha]
Nothing == [Outcome(FALSE, FALSE, 0, NoDiff) EXCEPT !.none = TRUE]

MCResults ==
  {Nothing,
   Outcome(TRUE, FALSE, 0, "a"),
   Outcome(FALSE, TRUE, 0, NoDiff),
   Outcome(TRUE, TRUE, 0, "a"),
   Outcome(TRUE, TRUE, 1, "b"),
   Outcome(TRUE, TRUE, 2, "c")}
=============================================================================
