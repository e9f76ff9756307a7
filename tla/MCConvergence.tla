---------------------------- MODULE MCConvergence ----------------------------
(* Small instances of Convergence.                                          *)
EXTENDS Convergence
CONSTANTS r1, r2, r3

MCNoDiff == [r \in Regions |-> "base"]

\* Every edit of two files that exist; a test for each.
MCWork == [Regions -> {"base", "good"}] \ {MCNoDiff}
MCPassing(tree) == {r \in Regions : tree[r] = "good"}

\* Two files that exist and a new one, r3.  The first module is rewritten as a
\* whole, or split with a part in the new file.
Edit(a, b, c) == [r \in Regions |-> CASE r = r1 -> a [] r = r2 -> b [] r = r3 -> c]
NewWork == {Edit("split", "base", "part"), Edit("base", "good", "base"),
            Edit("whole", "good", "base")}
NewPassing(tree) ==
  {r \in {r1, r2} :
     \/ tree[r] \in {"good", "whole"}
     \/ tree[r] = "split" /\ tree[r3] = "part"}
=============================================================================
