------------------------------ MODULE Governor ------------------------------
(***************************************************************************)
(* RunGovernor.verdict (apex_omega/engine/governor.py) and the detector it *)
(* reads (OrchestrationContext._observe and _wave_state in                 *)
(* apex_omega/autogen/context.py), as operators.  A batch is the sequence  *)
(* of results of one wave; a result is a record                            *)
(*   none    the attempt gave no candidate                                 *)
(*   valid   a real test outcome, as opposed to an indeterminate one       *)
(*   ok      the agent itself ended well (finalization status)             *)
(*   gold    gold tests passed, rate the pass rate                         *)
(*   sha     the diff, NoDiff when it is empty                             *)
(* Wall time is counted in increments of _valid_wall_increment, which one  *)
(* run never changes.                                                      *)
(***************************************************************************)
EXTENDS Integers, Sequences, SequencesExt, FiniteSetsExt

CONSTANTS
  NoDiff,        \* the empty diff
  NonresultCut,  \* nonresult_streak_cut
  SterileCut,    \* sterile_streak_cut
  StallCut,      \* harness_stall_cut
  WindowMeas,    \* plateau_patience_meas
  WindowWall,    \* plateau_wall_seconds, in increments
  Patience,      \* plateau_patience: attempts
  TokenTotal,    \* token_budget; 0 means none
  TokenCut,      \* token_cut_fraction * token_budget
  AgentCap       \* the smaller of agent_budget and agent_ceiling

ASSUME GovernorAssumption ==
  /\ {NonresultCut, SterileCut, StallCut, WindowMeas, Patience}
       \subseteq Nat \ {0}
  /\ {WindowWall, TokenTotal, TokenCut, AgentCap} \subseteq Nat

NotStarted == -1   \* _valid_wall_at_best = None

\* The detector of a new context.
Fresh ==
  [gold |-> 0, rate |-> 0, agentsAt |-> 0, tokensAt |-> 0,
   valid |-> 0, validAt |-> 0, wall |-> 0, wallAt |-> NotStarted,
   indet |-> 0, nonresult |-> 0, sterile |-> 0, seen |-> {}]

Measured(r) == ~r.none /\ r.valid
Nonresult(r) ==
  r.none \/ ~r.valid \/ (~r.ok /\ r.gold = 0 /\ r.rate = 0)
\* Is the i-th result of the batch an empty diff or one seen before?
Sterile(d, out, i) ==
  \/ out[i].none
  \/ out[i].sha = NoDiff
  \/ out[i].sha \in d.seen
  \/ \E j \in 1..(i - 1) : ~out[j].none /\ out[j].sha = out[i].sha
Positions(out, Test(_)) == {i \in DOMAIN out : Test(out[i])}

\* The best gold count and the best rate after the batch: every candidate is
\* asked, an indeterminate one too.
Candidates(out) == {out[i] : i \in {j \in DOMAIN out : ~out[j].none}}
BestGold(d, out) == Max({d.gold} \cup {r.gold : r \in Candidates(out)})
BestRate(d, out) == Max({d.rate} \cup {r.rate : r \in Candidates(out)})

\* The streak of indeterminate measurements after the batch.
Streak(indet, out) ==
  LET good == Positions(out, Measured)
  IN  IF good = {} THEN indet + Len(out) ELSE Len(out) - Max(good)

\* Mutated form: a measurement as good as the best counts as progress.
RisesOrTies(d, out) ==
  BestGold(d, out) >= d.gold \/ BestRate(d, out) >= d.rate

\* Did the batch beat the best distance to a solve?
Rises(d, out) ==
  BestGold(d, out) > d.gold \/ BestRate(d, out) > d.rate

\* Attempts without usable work in a row: a wave with any usable work ends
\* the streak, an empty wave counts for one.
NonresultStreak(d, out) ==
  LET bad == Cardinality(Positions(out, Nonresult))
  IN  IF out = <<>> THEN d.nonresult + 1
      ELSE IF bad = Len(out) THEN d.nonresult + bad ELSE 0

\* Mutated form: only the last result of the wave tells whether there was a
\* new diff.
SterileStreakLast(d, out, rises) ==
  LET sterile == {i \in DOMAIN out : Sterile(d, out, i)}
  IN  IF rises \/ (out # <<>> /\ Len(out) \notin sterile) THEN 0
      ELSE d.sterile + Max({1, Cardinality(sterile)})

\* Attempts without a new diff in a row: a wave with any new diff, or that
\* rises, ends the streak.
SterileStreak(d, out, rises) ==
  LET sterile == {i \in DOMAIN out : Sterile(d, out, i)}
  IN  IF rises \/ sterile # DOMAIN out THEN 0
      ELSE d.sterile + Max({1, Cardinality(sterile)})

\* Mutated form: the marks of the best are never moved.
MarkNever(rises, now, before) == before

\* A counter as it stood when the best last rose.
Mark(rises, now, before) == IF rises THEN now ELSE before

\* _observe: the detector after one batch.
Observe(d, out, agents, spent) ==
  LET good == Cardinality(Positions(out, Measured))
      wall == d.wall + good
      started == IF d.wallAt = NotStarted /\ good > 0 THEN 0 ELSE d.wallAt
      rises == Rises(d, out)
  IN [gold |-> BestGold(d, out),
      rate |-> BestRate(d, out),
      agentsAt |-> Mark(rises, agents, d.agentsAt),
      tokensAt |-> Mark(rises, spent, d.tokensAt),
      valid |-> d.valid + good,
      validAt |-> Mark(rises, d.valid + good, d.validAt),
      wall |-> wall,
      wallAt |-> Mark(rises /\ started # NotStarted, wall, started),
      indet |-> Streak(d.indet, out),
      nonresult |-> NonresultStreak(d, out),
      sterile |-> SterileStreak(d, out, rises),
      seen |-> d.seen \cup {out[i].sha : i \in
                 Positions(out, LAMBDA r : ~r.none /\ r.sha # NoDiff)}]

AtLeastZero(n) == Max({0, n})

\* _wave_state: what the verdict is taken on.
WaveState(d, agents, spent) ==
  [attempts |-> AtLeastZero(agents - d.agentsAt),
   tokens |-> AtLeastZero(spent - d.tokensAt),
   valid |-> d.valid - d.validAt,
   seconds |-> IF d.wallAt = NotStarted THEN 0 ELSE d.wall - d.wallAt,
   indet |-> d.indet, nonresult |-> d.nonresult, sterile |-> d.sterile]

\* can_start: the opt-in token budget and the agent caps leave room for one.
CanStart(agents, spent) ==
  /\ TokenTotal = 0 \/ spent < TokenTotal
  /\ agents < AgentCap

\* The reasons a verdict can give, in the order they are tried.
Reasons == <<"cut:nonresult", "cut:sterile", "cut:harness-stall",
             "cut:no-progress", "cut:tokens", "stop:agent-ceiling", "continue">>

\* Does this reason hold of wave state s?
Applies(why, s, agents, spent) ==
  CASE why = "cut:nonresult" -> s.nonresult >= NonresultCut
    [] why = "cut:sterile" -> s.sterile >= SterileCut
    [] why = "cut:harness-stall" -> s.indet >= StallCut
    [] why = "cut:no-progress" ->
         \/ s.valid >= WindowMeas /\ s.seconds >= WindowWall
         \/ s.attempts >= Patience
    [] why = "cut:tokens" -> TokenTotal # 0 /\ s.tokens > TokenCut
    [] why = "stop:agent-ceiling" -> ~CanStart(agents, spent)
    [] why = "continue" -> TRUE

\* verdict: the first reason that applies; all but "continue" halt.
Verdict(s, agents, spent) ==
  Reasons[SelectInSeq(Reasons, LAMBDA why : Applies(why, s, agents, spent))]
=============================================================================
