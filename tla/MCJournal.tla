----------------------------- MODULE MCJournal -----------------------------
(* Small instances of Journal.  The key sets are model values in the cfg.  *)
EXTENDS Journal, TLC

CONSTANTS k1, k2, t1, t2

MCKeys == {k1, k2}
MCAgentKeys == {k1}
MCThreads == {t1, t2}
MCTorn == {"torn"}
MCUnterminated == {"unterminated"}
MCAllTears == {"torn", "unterminated"}
MCThreadSymmetry == Permutations(MCThreads)
=============================================================================
