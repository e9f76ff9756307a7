------------------------------ MODULE MCWaves ------------------------------
(* Small instances of Waves.                                               *)
EXTENDS Waves

MCScripts == {"root", "one", "two"}
Root == [ns |-> "", script |-> "root"]
Child(script) == [ns |-> "w1_", script |-> script]
MCRoot == <<Root>>
MCNested == <<Child("one"), Root>>
MCSiblings == <<Child("one"), Child("two")>>
MCOneSha == {"a"}
MCShas == {"a", "b"}
Score(valid, gold) == [valid |-> valid, gold |-> gold, rate |-> gold]
MCTwoScores == {Score(TRUE, 1), Score(FALSE, 0)}
MCScores == {Score(TRUE, 0), Score(TRUE, 1), Score(FALSE, 0)}
=============================================================================
