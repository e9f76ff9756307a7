----------------------------- MODULE Convergence -----------------------------
(***************************************************************************)
(* The default orchestration of a cell (DEFAULT_ORCHESTRATION in           *)
(* apex_omega/autogen/templates.py) with the operations of the context it  *)
(* calls (apex_omega/autogen/context.py), after the floor probe that       *)
(* autosolve (apex_omega/autogen/architect.py) runs on the same context:   *)
(* a solve for each module at once, a merge of their diffs into one tree,  *)
(* and a loop of repairs and merges that the governor ends.                *)
(*                                                                         *)
(* A tree says of each region of the repository what it holds; the base    *)
(* commit is "base" everywhere.  All diffs are taken against the base      *)
(* commit, so a diff is written as the tree it makes of it, and NoDiff is  *)
(* the base.  A hunk applies only where the tree is still the base.        *)
(*                                                                         *)
(* The journal keeps the diffs of agents that ended well, by call; real    *)
(* measurements, by diff; the modules whose pipeline stage is settled; and *)
(* the verdicts of the governor, by position.  A process that starts again *)
(* runs the same script over it.                                           *)
(*                                                                         *)
(* The plan has at least two modules and is the same in every process (it  *)
(* is journaled).  Agents and tokens are not counted: the ceiling and the  *)
(* backstop in attempts are the subjects of Engine and Detector.           *)
(***************************************************************************)
EXTENDS Governor

CONSTANTS
  Regions,      \* places of the repository that an agent may rewrite
  New,          \* those in files that the base commit does not have
  Modules,      \* number of modules of the plan
  Trees,        \* trees an agent may leave
  Tests,        \* the gold tests
  Passing(_),   \* tree -> the gold tests it passes
  Deaths,       \* may an agent end without a diff after it edited?
  Rescue,       \* is the floor probe checkpointed?
  MaxRounds,    \* bound: rounds of the loop
  MaxFaults,    \* bound: refused worktrees, failed measurements and deaths
  MaxKills      \* bound: kills

\* What a merge can make of the trees of agents.
AllTrees ==
  [Regions -> {"base"} \cup UNION {{t[r] : r \in Regions} : t \in Trees}]

ASSUME ConvergenceAssumption ==
  /\ New \subseteq Regions
  /\ Modules \in Nat /\ Modules >= 2
  /\ NoDiff = [r \in Regions |-> "base"]
  /\ Trees \subseteq AllTrees
  /\ \A t \in AllTrees : Passing(t) \subseteq Tests
  /\ {Deaths, Rescue} \subseteq BOOLEAN
  /\ {MaxRounds, MaxFaults, MaxKills} \subseteq Nat

VARIABLES
  diffs,     \* journal: agent call -> diff of its ok record
  scores,    \* journal: diff -> gold tests that passed
  stages,    \* journal: modules with a settled stage
  verdicts,  \* journal: position -> verdict
  saved,     \* is there an accepted_checkpoint.json?
  up,        \* is a process running?
  pc,        \* where the script is
  place,     \* worker -> how far its attempt is
  desk,      \* worker -> the tree it left and the diff that was recorded
  cands,     \* _all_candidates: id -> candidate
  carry,     \* the diff carried forward
  residual,  \* the tests that are still to be repaired
  round,     \* rounds of the loop
  queue,     \* candidates that are still to be merged
  wt,        \* the tree of the merge
  d,         \* the detector
  pos,       \* _wave_counter
  halt,      \* "continue", or _halt_reason
  winner,    \* the candidate the script returned
  faults,    \* number of faults
  kills,     \* number of kills
  blurred    \* history: diffs recorded for merges that they do not make

journal == <<diffs, scores, stages, verdicts, saved>>
merging == <<queue, wt>>
governing == <<d, pos, halt>>
script == <<carry, residual, round, winner>>
process == <<pc, place, desk, cands, merging, governing, script>>
bounds == <<faults, kills>>
vars == <<journal, up, process, bounds, blurred>>

----------------------------------------------------------------------------
(* Trees and diffs *)

\* git apply --3way gives nothing beyond git apply: it needs files that match
\* the index, and those apply strictly.
Fits(tree, diff) ==
  \A r \in Regions : diff[r] # "base" => tree[r] = "base"
Patched(tree, diff) ==
  [r \in Regions |-> IF diff[r] = "base" THEN tree[r] ELSE diff[r]]

\* git diff of the merge: files that are not in the base are untracked.
MergedDiff(tree) ==
  [r \in Regions |-> IF r \in New THEN "base" ELSE tree[r]]

----------------------------------------------------------------------------
(* Workers: the floor probe, one for each module, and the repair agent. *)

Floor == 0
Repair == Modules + 1
Merge == Modules + 2   \* in the ids of candidates
Workers == Floor..Repair
Phase(w) == CASE w = Floor -> "floor" [] w = Repair -> "repair"
              [] OTHER -> "fanout"

NoDesk == [tree |-> NoDiff, diff |-> NoDiff]
NoOne == <<>>
Id(w) == <<w, IF w = Repair THEN round ELSE 0>>
Gold(id) == Cardinality(cands[id].passed)
\* The most tests that a candidate passes.
Best == LET golds == {Gold(id) : id \in {i \in DOMAIN cands : cands[i].valid}}
        IN  CHOOSE n \in {0} \cup golds : \A g \in golds : g <= n
\* A brief says whether there is a carry; that of a repair, which tests to
\* repair and how many passed so far.
Key(w) == IF w = Repair THEN <<w, round, residual, Best>>
          ELSE <<w, carry # NoDiff>>

\* The function f with one more entry, or with that entry replaced.
Added(f, key, value) ==
  [k \in DOMAIN f \cup {key} |-> IF k = key THEN value ELSE f[k]]

Candidate(diff, passed, valid) ==
  [diff |-> diff, passed |-> passed, valid |-> valid,
   accepted |-> valid /\ passed = Tests]

Start ==   \* a process before its first step
  /\ pc' = "floor"
  /\ place' = [w \in Workers |-> "todo"]
  /\ desk' = [w \in Workers |-> NoDesk]
  /\ cands' = <<>>
  /\ carry' = NoDiff /\ residual' = {} /\ round' = 0 /\ winner' = NoOne
  /\ queue' = <<>> /\ wt' = NoDiff
  /\ d' = Fresh /\ pos' = 0 /\ halt' = "continue"

Init ==
  /\ diffs = <<>> /\ scores = <<>> /\ stages = {} /\ verdicts = <<>>
  /\ saved = FALSE /\ up = TRUE /\ faults = 0 /\ kills = 0 /\ blurred = {}
  /\ pc = "floor"
  /\ place = [w \in Workers |-> "todo"]
  /\ desk = [w \in Workers |-> NoDesk]
  /\ cands = <<>>
  /\ carry = NoDiff /\ residual = {} /\ round = 0 /\ winner = NoOne
  /\ queue = <<>> /\ wt = NoDiff
  /\ d = Fresh /\ pos = 0 /\ halt = "continue"

Working(w) == up /\ pc = Phase(w)
Ready(w) == Working(w) /\ place[w] = "todo" /\ w \notin stages

\* One more fault of the surroundings, as long as the bound allows it.
Fault == faults < MaxFaults /\ faults' = faults + 1 /\ UNCHANGED kills

Moved(w, where) == place' = [place EXCEPT ![w] = where]
Left(w, tree, diff) ==
  /\ Moved(w, "left")
  /\ desk' = [desk EXCEPT ![w] = [tree |-> tree, diff |-> diff]]

\* No worktree, or an exception: the attempt gives no candidate.
Lost(w) ==
  /\ Ready(w) /\ Fault
  /\ Moved(w, "ended")
  /\ UNCHANGED <<journal, up, blurred, pc, desk, cands, merging, governing, script>>

\* The agent works on the carry; all its edits are in its diff, new files too.
Run(w) ==
  /\ Ready(w) /\ Key(w) \notin DOMAIN diffs
  /\ \E tree \in Trees :
       /\ Left(w, tree, tree)
       /\ diffs' = Added(diffs, Key(w), tree)
  /\ UNCHANGED <<scores, stages, verdicts, saved, up, blurred, pc, cands, merging,
                 governing, script, bounds>>

\* The runner raised, or the watchdog abandoned it: the edits are in the
\* worktree and no diff is recorded.
Dies(w) ==
  /\ Ready(w) /\ Key(w) \notin DOMAIN diffs /\ Deaths /\ Fault
  /\ \E tree \in Trees : Left(w, tree, NoDiff)
  /\ UNCHANGED <<journal, up, blurred, pc, cands, merging, governing, script>>

\* The agent is in the journal: its diff is applied on top of the carry.
Replay(w) ==
  /\ Ready(w) /\ Key(w) \in DOMAIN diffs
  /\ LET diff == diffs[Key(w)]
     IN  IF Fits(carry, diff) THEN Left(w, Patched(carry, diff), diff)
         ELSE Moved(w, "ended") /\ UNCHANGED desk
  /\ UNCHANGED <<journal, up, blurred, pc, cands, merging, governing, script, bounds>>

\* The attempt of w gives a candidate, which is checkpointed if accepted.
Bank(w, candidate) ==
  /\ cands' = Added(cands, Id(w), candidate)
  /\ saved' = (saved \/ (candidate.accepted /\ (w # Floor \/ Rescue)))
  /\ Moved(w, "ended")
  /\ desk' = [desk EXCEPT ![w] = NoDesk]

\* _scored: the measurement of this diff is in the journal.
Cached(w) ==
  /\ Working(w) /\ place[w] = "left"
  /\ desk[w].diff \in DOMAIN scores
  /\ Bank(w, Candidate(desk[w].diff, scores[desk[w].diff], TRUE))
  /\ UNCHANGED <<diffs, scores, stages, verdicts, up, blurred, pc, merging, governing,
                 script, bounds>>

Missed(w) ==
  /\ Working(w) /\ place[w] = "left"
  /\ desk[w].diff \notin DOMAIN scores
  /\ Moved(w, "missed")
  /\ UNCHANGED <<journal, up, blurred, pc, desk, cands, merging, governing, script,
                 bounds>>

\* Mutated form: the measurement is journaled under the diff that was carried.
MeasureUnderCarry(w) ==
  /\ Working(w) /\ place[w] = "missed"
  /\ LET passed == Passing(desk[w].tree)
     IN  /\ Bank(w, Candidate(desk[w].diff, passed, TRUE))
         /\ scores' = Added(scores, carry, passed)
  /\ UNCHANGED <<diffs, stages, verdicts, up, blurred, pc, merging, governing, script,
                 bounds>>

\* The suite runs on the tree; a real measurement is journaled.
Measure(w) ==
  /\ Working(w) /\ place[w] = "missed"
  /\ LET diff == desk[w].diff
         passed == Passing(desk[w].tree)
     IN  \/ /\ Bank(w, Candidate(diff, passed, TRUE))
            /\ scores' = Added(scores, diff, passed)
            /\ UNCHANGED bounds
         \/ /\ Bank(w, Candidate(diff, {}, FALSE))
            /\ Fault /\ UNCHANGED scores
  /\ UNCHANGED <<diffs, stages, verdicts, up, blurred, pc, merging, governing, script>>

\* Mutated form: a stage without a candidate is not settled.
SettleFound(m) ==
  /\ Working(m) /\ place[m] = "ended" /\ m \in 1..Modules
  /\ m \notin stages /\ Id(m) \in DOMAIN cands
  /\ stages' = stages \cup {m}
  /\ UNCHANGED <<diffs, scores, verdicts, saved, up, blurred, process, bounds>>

\* The stage of a module returns the id of its candidate, "" if it has none.
Settle(m) ==
  /\ Working(m) /\ place[m] = "ended" /\ m \in 1..Modules
  /\ m \notin stages
  /\ stages' = stages \cup {m}
  /\ UNCHANGED <<diffs, scores, verdicts, saved, up, blurred, process, bounds>>

----------------------------------------------------------------------------
(* The script *)

Usable == {id \in DOMAIN cands : cands[id].valid /\ cands[id].diff # NoDiff}
\* carry_best: the diff of a candidate that passes the most.
CarryBest ==
  IF Usable = {} THEN {NoDiff}
  ELSE {cands[id].diff : id \in
          {best \in Usable : \A o \in Usable : Gold(o) <= Gold(best)}}

Scope ==
  /\ Working(Floor) /\ place[Floor] = "ended"
  /\ pc' = "fanout"
  /\ carry' \in CarryBest
  /\ UNCHANGED <<journal, up, blurred, place, desk, cands, residual, round, winner,
                 merging, governing, bounds>>

\* Mutated form: the worktree of the merge is the base.
ReduceFromBase(ids) ==
  /\ pc' = "merge" /\ queue' = ids /\ wt' = NoDiff
  /\ UNCHANGED <<residual, bounds>>

\* reduce_residuals gets a worktree with the carry applied, or none.
Reduce(ids) ==
  \/ /\ pc' = "merge" /\ queue' = ids /\ wt' = carry
     /\ UNCHANGED <<residual, bounds>>
  \/ /\ pc' = "poll" /\ residual' = {}
     /\ Fault /\ UNCHANGED merging

\* fanout_modules: the candidates, in the order of modules.
EndFanout ==
  /\ up /\ pc = "fanout" /\ \A m \in 1..Modules : m \in stages
  /\ Reduce([m \in 1..Modules |-> <<m, 0>>])
  /\ UNCHANGED <<journal, up, blurred, place, desk, cands, carry, round, winner,
                 governing>>

EndRepair ==
  /\ Working(Repair) /\ place[Repair] = "ended"
  /\ Reduce(<<Id(Repair)>>)
  /\ round' = round + 1
  /\ Moved(Repair, "todo")
  /\ UNCHANGED <<journal, up, blurred, desk, cands, carry, winner, governing>>

\* A candidate this process does not have, one that was not measured, and one
\* whose diff does not apply is left out.
MergeNext ==
  /\ up /\ pc = "merge" /\ queue # <<>>
  /\ LET c == cands[Head(queue)]
     IN  wt' = IF Head(queue) \in DOMAIN cands /\ c.valid /\ Fits(wt, c.diff)
               THEN Patched(wt, c.diff) ELSE wt
  /\ queue' = Tail(queue)
  /\ UNCHANGED <<journal, up, blurred, pc, place, desk, cands, script, governing, bounds>>

Merged(c) ==
  [none |-> FALSE, ok |-> TRUE, valid |-> c.valid, sha |-> c.diff,
   gold |-> Cardinality(c.passed), rate |-> Cardinality(c.passed)]

\* Mutated form: a merge that was not measured fails every test.
JudgeFailed(c) ==
  /\ cands' = Added(cands, <<Merge, round>>, c)
  /\ d' = Observe(d, <<Merged(c)>>, 0, 0)
  /\ wt' = NoDiff
  /\ saved' = (saved \/ c.accepted)
  /\ residual' = Tests \ c.passed
  /\ IF c.accepted
     THEN /\ pc' = "done" /\ winner' = <<Merge, round>>
          /\ UNCHANGED carry
     ELSE /\ pc' = "poll"
          /\ carry' = IF c.diff = NoDiff THEN carry ELSE c.diff
          /\ UNCHANGED winner

\* The merge is measured and shown to the detector.  An accepted one ends
\* the script; else its diff is carried forward, if there is one.
Judge(c) ==
  /\ cands' = Added(cands, <<Merge, round>>, c)
  /\ d' = Observe(d, <<Merged(c)>>, 0, 0)
  /\ wt' = NoDiff
  /\ saved' = (saved \/ c.accepted)
  /\ residual' = IF c.valid THEN Tests \ c.passed ELSE {}
  /\ IF c.accepted
     THEN /\ pc' = "done" /\ winner' = <<Merge, round>>
          /\ UNCHANGED carry
     ELSE /\ pc' = "poll"
          /\ carry' = IF c.diff = NoDiff THEN carry ELSE c.diff
          /\ UNCHANGED winner

EndMerge ==
  /\ up /\ pc = "merge" /\ queue = <<>>
  /\ blurred' = IF MergedDiff(wt) = wt THEN blurred
                ELSE blurred \cup {MergedDiff(wt)}
  /\ LET diff == MergedDiff(wt)
     IN  IF diff \in DOMAIN scores
         THEN /\ Judge(Candidate(diff, scores[diff], TRUE))
              /\ UNCHANGED <<scores, bounds>>
         ELSE \/ /\ Judge(Candidate(diff, Passing(wt), TRUE))
                 /\ scores' = Added(scores, diff, Passing(wt))
                 /\ UNCHANGED bounds
              \/ /\ Judge(Candidate(diff, {}, FALSE))
                 /\ Fault /\ UNCHANGED scores
  /\ UNCHANGED <<diffs, stages, verdicts, up, place, desk, round, queue, pos,
                 halt>>

\* should_continue_waves, and whether anything is left to repair.
Poll ==
  /\ up /\ pc = "poll" /\ round < MaxRounds
  /\ LET why == IF pos \in DOMAIN verdicts THEN verdicts[pos]
                ELSE Verdict(WaveState(d, 0, 0), 0, 0)
     IN  /\ verdicts' = Added(verdicts, pos, why)
         /\ halt' = why
         /\ pc' = IF why = "continue" /\ residual # {} THEN "repair"
                  ELSE "verify"
  /\ pos' = pos + 1
  /\ UNCHANGED <<diffs, scores, stages, saved, up, blurred, place, desk, cands, merging,
                 script, d, bounds>>

Accepted == {id \in DOMAIN cands : cands[id].accepted}

\* Selection over all candidates; skeptics may refute the first choice.
Abstain ==
  /\ up /\ pc = "verify" /\ Accepted = {}
  /\ pc' = "done"
  /\ UNCHANGED <<journal, up, blurred, place, desk, cands, merging, governing, script,
                 bounds>>

Choose ==
  /\ up /\ pc = "verify" /\ pc' = "done"
  /\ \E first \in Accepted, refuted \in BOOLEAN :
       LET rest == IF refuted THEN Accepted \ {first} ELSE Accepted
       IN  /\ cands' = [cands EXCEPT ![first].accepted = ~refuted]
           /\ IF rest = {} THEN winner' = NoOne ELSE winner' \in rest
  /\ UNCHANGED <<journal, up, blurred, place, desk, carry, residual, round, merging,
                 governing, bounds>>

----------------------------------------------------------------------------
Kill ==
  /\ up /\ pc # "done" /\ kills < MaxKills
  /\ up' = FALSE /\ kills' = kills + 1
  /\ UNCHANGED <<journal, process, faults, blurred>>

Restart ==
  /\ ~up /\ up' = TRUE
  /\ Start
  /\ UNCHANGED <<journal, bounds, blurred>>

Attempt(w) == \/ Lost(w) \/ Run(w) \/ Dies(w) \/ Replay(w)
              \/ Cached(w) \/ Missed(w) \/ Measure(w) \/ Settle(w)
Step == \/ \E w \in Workers : Attempt(w)
        \/ Scope \/ EndFanout \/ EndRepair \/ MergeNext \/ EndMerge
        \/ Poll \/ Abstain \/ Choose
Next == Step \/ Kill \/ Restart

Spec == Init /\ [][Next]_vars
\* A process that is not killed goes on; its agents end.
FairSpec == Spec /\ WF_vars(Step)
----------------------------------------------------------------------------
Ids == Workers \X {0} \cup {Repair, Merge} \X (0..MaxRounds)
CandidateSet == [diff : AllTrees, passed : SUBSET Tests, valid : BOOLEAN,
                accepted : BOOLEAN]
TypeOK ==
  /\ up \in BOOLEAN /\ saved \in BOOLEAN
  /\ pc \in {"floor", "fanout", "merge", "poll", "repair", "verify", "done"}
  /\ place \in [Workers -> {"todo", "left", "missed", "ended"}]
  /\ desk \in [Workers -> [tree : AllTrees, diff : AllTrees]]
  /\ DOMAIN cands \subseteq Ids
  /\ \A id \in DOMAIN cands : cands[id] \in CandidateSet
  /\ carry \in AllTrees /\ wt \in AllTrees
  /\ residual \subseteq Tests /\ round \in 0..MaxRounds
  /\ stages \subseteq 1..Modules
  /\ winner \in DOMAIN cands \cup {NoOne}

\* What is carried is never lost, to a conflict or to a failed measurement:
\* within a process a merge changes no region that the carry has, except in
\* files that the base does not have, which git diff leaves out.
CarryOnlyGrows ==
  [][up /\ up' /\ pc # "floor" =>
       \A r \in Regions \ New :
         carry[r] # "base" => carry'[r] = carry[r]]_vars

\* Until a process is killed, a candidate that is accepted on the strength of
\* a diff passes with it, unless a merge was recorded under that diff whose
\* new files it leaves out.
AcceptedDiffPasses ==
  kills = 0 =>
    \A id \in DOMAIN cands :
      cands[id].accepted /\ cands[id].diff \notin blurred \cup {NoDiff}
        => Passing(cands[id].diff) = Tests

\* Until a process is killed, the tests a repair is asked for are those the
\* carry fails, if the carry touches only files of the base and no merge with
\* new files was recorded under it.
ResidualIsExact ==
  /\ kills = 0 /\ pc = "repair"
  /\ carry \notin blurred \cup {NoDiff} /\ MergedDiff(carry) = carry
  => residual = Tests \ Passing(carry)

\* "captured as a single replay-safe artifact": whoever is accepted passes with
\* its diff, new files or not.
AcceptedAlwaysPasses ==
  kills = 0 =>
    \A id \in DOMAIN cands :
      cands[id].accepted /\ cands[id].diff # NoDiff
        => Passing(cands[id].diff) = Tests

\* A process that is not killed returns from the script.
WorkflowReturns == up ~> (pc = "done" \/ ~up)

\* "if the frontier rose, carry the new merged partial forward": no repair of
\* this process passes more than what is carried into the next one.
RepairIsCarried ==
  pc = "repair" /\ place[Repair] = "todo" =>
    \A id \in Usable : id[1] = Repair => Gold(id) <= Cardinality(Passing(carry))

\* "a banked accept is never silently discarded by a normal-completion exit".
SavedSolvesReturn == pc = "done" /\ saved => winner # NoOne
=============================================================================
