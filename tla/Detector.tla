------------------------------ MODULE Detector ------------------------------
(***************************************************************************)
(* The cut-losses detector alone: one context, no journal, any sequence of *)
(* waves.  Beside the detector of the code runs a second one, narrow, that *)
(* is shown the same results in waves of one: what the width of the waves  *)
(* changes is the difference between the two.                              *)
(***************************************************************************)
EXTENDS Governor

CONSTANTS
  Results,   \* results an attempt may give
  MaxWidth,  \* bound: width of a wave
  MaxAgents  \* bound: agents dispatched

ASSUME DetectorAssumption ==
  /\ \A r \in Results : /\ {r.none, r.ok, r.valid} \subseteq BOOLEAN
                        /\ {r.gold, r.rate} \subseteq Nat
  /\ MaxWidth \in Nat \ {0} /\ MaxAgents \in Nat

VARIABLES
  wide,     \* the detector of the context
  narrow,   \* history: the detector that saw every result on its own
  agents,   \* agents dispatched
  halt      \* the verdict on the last wave

vars == <<wide, narrow, agents, halt>>

State(d) == WaveState(d, agents, agents)

Init ==
  /\ wide = Fresh /\ narrow = Fresh
  /\ agents = 0 /\ halt = "continue"

\* The same results, one wave each; an empty wave is one for both.
OneByOne(d, out, used) ==
  IF out = <<>> THEN Observe(d, out, used, used)
  ELSE LET after[i \in 0..Len(out)] ==
             IF i = 0 THEN d
             ELSE Observe(after[i - 1], <<out[i]>>, used, used)
       IN  after[Len(out)]

\* ctx.parallel: while not halted, a wave runs, is observed and judged.  An
\* attempt without a candidate got no worktree and no agent; every agent
\* spends one token.
Wave(out) ==
  /\ halt = "continue" /\ agents < MaxAgents
  /\ agents' = agents + Cardinality(Positions(out, LAMBDA r : ~r.none))
  /\ wide' = Observe(wide, out, agents', agents')
  /\ narrow' = OneByOne(narrow, out, agents')
  /\ halt' = Verdict(WaveState(wide', agents', agents'), agents', agents')

Next == \E out \in BoundedSeq(Results, MaxWidth) : Wave(out)

Spec == Init /\ [][Next]_vars

\* An unconditional loop of waves: a script that never stops by itself.
FairSpec == Spec /\ WF_vars(Next)
----------------------------------------------------------------------------
Detectors ==
  [gold : Nat, rate : Nat, agentsAt : Nat, tokensAt : Nat, valid : Nat,
   validAt : Nat, wall : Nat, wallAt : Nat \cup {NotStarted}, indet : Nat,
   nonresult : Nat, sterile : Nat, seen : SUBSET {r.sha : r \in Results}]

\* Types.
TypeOK ==
  /\ wide \in Detectors
  /\ agents \in Nat
  /\ halt \in {Reasons[i] : i \in DOMAIN Reasons}

\* Widening the waves never makes the run be cut sooner: on the same results
\* every streak and window of the wide detector is at most that of the
\* detector that judges each attempt (_observe counts streaks in attempts).
WideIsNeverStricter ==
  /\ wide.nonresult <= narrow.nonresult
  /\ wide.sterile <= narrow.sterile
  /\ wide.indet = narrow.indet
  /\ wide.gold = narrow.gold
  /\ State(wide).valid <= State(narrow).valid
  /\ State(wide).seconds <= State(narrow).seconds

\* A wave in which a real measurement beat the best is never answered by a
\* cut for lack of progress, of work or of new diffs (the governor must not
\* cut a run that is still climbing).
ClimbIsNotCut ==
  [][(wide'.gold > wide.gold \/ wide'.rate > wide.rate)
       => halt' \notin {"cut:no-progress", "cut:sterile", "cut:tokens"}]_vars

\* A loop of waves that never ends by itself is ended by the governor.
EveryLoopHalts == <>(halt # "continue")
=============================================================================
