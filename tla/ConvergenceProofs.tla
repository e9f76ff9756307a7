-------------------------- MODULE ConvergenceProofs --------------------------
(***************************************************************************)
(* What is proved of Convergence, for every repository, plan, agent, gold  *)
(* suite, governor and number of faults, rounds and kills: the types, that *)
(* what is carried is kept, and that what is accepted, and what a repair   *)
(* is asked for, is what the diff at hand does.                            *)
(*                                                                         *)
(* git diff of the merge leaves new files out.  So what is carried is kept *)
(* in the files of the base, and a diff is taken at its word only if no    *)
(* merge was recorded under it that it does not make (blurred).            *)
(***************************************************************************)
EXTENDS Convergence, TLAPS

USE DEF Floor, Repair, Merge, Workers

(* Trees, candidates and journal maps. *)

LEMMA NoDiffIsATree == NoDiff \in AllTrees
  BY ConvergenceAssumption DEF AllTrees

LEMMA AgentTrees == \A t \in Trees : t \in AllTrees
  BY ConvergenceAssumption

\* Applying a diff gives a tree, and touches no region that was not the base.
LEMMA PatchedTree ==
  ASSUME NEW t \in AllTrees, NEW u \in AllTrees
  PROVE  /\ Patched(t, u) \in AllTrees
         /\ Fits(t, u) =>
              \A r \in Regions : t[r] # "base" => Patched(t, u)[r] = t[r]
  BY DEF AllTrees, Patched, Fits

LEMMA MergedTree ==
  ASSUME NEW t \in AllTrees
  PROVE  /\ MergedDiff(t) \in AllTrees
         /\ \A r \in Regions \ New : MergedDiff(t)[r] = t[r]
  BY DEF AllTrees, MergedDiff

\* A tree that is not NoDiff holds something somewhere.
LEMMA SomethingThere ==
  ASSUME NEW t \in AllTrees, t # NoDiff
  PROVE  \E r \in Regions : t[r] # "base"
  BY ConvergenceAssumption DEF AllTrees

LEMMA NothingInNoDiff ==
  ASSUME NEW r \in Regions
  PROVE  NoDiff[r] = "base"
  BY ConvergenceAssumption

LEMMA PassingTests == \A t \in AllTrees : Passing(t) \in SUBSET Tests
  BY ConvergenceAssumption

\* What a real measurement gives.
LEMMA MeasuredCandidate ==
  ASSUME NEW diff \in AllTrees, NEW passed \in SUBSET Tests
  PROVE  /\ Candidate(diff, passed, TRUE) \in CandidateSet
         /\ Candidate(diff, passed, TRUE).diff = diff
         /\ Candidate(diff, passed, TRUE).passed = passed
  BY DEF Candidate, CandidateSet

\* What an indeterminate one gives.
LEMMA UnmeasuredCandidate ==
  ASSUME NEW diff \in AllTrees
  PROVE  /\ Candidate(diff, {}, FALSE) \in CandidateSet
         /\ ~Candidate(diff, {}, FALSE).valid
         /\ ~Candidate(diff, {}, FALSE).accepted
  BY DEF Candidate, CandidateSet

LEMMA CandidateFields ==
  ASSUME NEW c \in CandidateSet
  PROVE  /\ c.diff \in AllTrees /\ c.passed \in SUBSET Tests
         /\ c.valid \in BOOLEAN /\ c.accepted \in BOOLEAN
  BY DEF CandidateSet

LEMMA AddedDomain ==
  ASSUME NEW f, NEW key, NEW value
  PROVE  DOMAIN Added(f, key, value) = DOMAIN f \cup {key}
  BY DEF Added

LEMMA AddedAt ==
  ASSUME NEW f, NEW key, NEW value, NEW k \in DOMAIN f \cup {key}
  PROVE  Added(f, key, value)[k] = IF k = key THEN value ELSE f[k]
  BY DEF Added

----------------------------------------------------------------------------
(* The types *)

Recorded ==
  /\ \A k \in DOMAIN diffs : diffs[k] \in AllTrees
  /\ \A t \in DOMAIN scores : scores[t] \in SUBSET Tests
  /\ pc = "repair" => round < MaxRounds
  /\ kills \in Nat /\ (up \/ kills # 0)

Typed == TypeOK /\ Recorded

LEMMA TypesHoldAtFirst == Init => Typed
  <1> SUFFICES ASSUME Init PROVE Typed
    OBVIOUS
  <1>1. DOMAIN <<>> = {}
    OBVIOUS
  <1>2. /\ DOMAIN cands = {} /\ DOMAIN diffs = {} /\ DOMAIN scores = {}
        /\ winner = NoOne
    BY <1>1 DEF Init, NoOne
  <1>3. TypeOK
    <2>1. desk \in [Workers -> [tree : AllTrees, diff : AllTrees]]
      BY NoDiffIsATree DEF Init, NoDesk
    <2>2. round \in 0..MaxRounds
      BY ConvergenceAssumption DEF Init
    <2>3. QED
      BY <1>2, <2>1, <2>2, NoDiffIsATree DEF Init, TypeOK
  <1>4. Recorded
    BY <1>2 DEF Init, Recorded
  <1>5. QED
    BY <1>3, <1>4 DEF Typed

LEMMA IdType ==
  ASSUME NEW w \in Workers, round \in 0..MaxRounds
  PROVE  Id(w) \in Ids
  BY DEF Id, Ids

\* A new candidate leaves the types of the candidates and of the winner.
LEMMA NewCandidate ==
  ASSUME TypeOK, NEW id \in Ids, NEW c \in CandidateSet,
         cands' = Added(cands, id, c)
  PROVE  /\ DOMAIN cands' = DOMAIN cands \cup {id}
         /\ DOMAIN cands' \subseteq Ids
         /\ \A i \in DOMAIN cands' : cands'[i] \in CandidateSet
  <1>1. DOMAIN cands' = DOMAIN cands \cup {id}
    BY AddedDomain
  <1>2. ASSUME NEW i \in DOMAIN cands \cup {id}
        PROVE  cands'[i] = IF i = id THEN c ELSE cands[i]
    BY AddedAt
  <1>3. QED
    BY <1>1, <1>2 DEF TypeOK

LEMMA NewScore ==
  ASSUME Recorded, NEW diff, NEW passed \in SUBSET Tests,
         scores' = Added(scores, diff, passed)
  PROVE  \A t \in DOMAIN scores' : scores'[t] \in SUBSET Tests
  <1>1. DOMAIN scores' = DOMAIN scores \cup {diff}
    BY AddedDomain
  <1>2. ASSUME NEW t \in DOMAIN scores \cup {diff}
        PROVE  scores'[t] = IF t = diff THEN passed ELSE scores[t]
    BY AddedAt
  <1>3. QED
    BY <1>1, <1>2 DEF Recorded

LEMMA BankTypes ==
  ASSUME Typed, NEW w \in Workers, NEW c \in CandidateSet, Bank(w, c)
  PROVE  /\ saved' \in BOOLEAN
         /\ place' \in [Workers -> {"todo", "left", "missed", "ended"}]
         /\ desk' \in [Workers -> [tree : AllTrees, diff : AllTrees]]
         /\ DOMAIN cands \subseteq DOMAIN cands'
         /\ DOMAIN cands' \subseteq Ids
         /\ \A id \in DOMAIN cands' : cands'[id] \in CandidateSet
  <1>1. c.accepted \in BOOLEAN
    BY CandidateFields
  <1>2. Id(w) \in Ids
    BY IdType DEF Typed, TypeOK
  <1>3. QED
    BY <1>1, <1>2, NewCandidate, NoDiffIsATree
    DEF Typed, TypeOK, Bank, Moved, NoDesk

LEMMA AttemptKeepsTypes ==
  ASSUME Typed, NEW w \in Workers, Attempt(w)
  PROVE  Typed'
  <1> USE DEF Typed
  <1>1. CASE Lost(w)
    BY <1>1 DEF Lost, Ready, Working, Moved, TypeOK, Recorded, Fault, journal,
       merging, governing, script
  <1>2. CASE Run(w)
    <2>1. PICK tree \in Trees : Left(w, tree, tree)
                                /\ diffs' = Added(diffs, Key(w), tree)
      BY <1>2 DEF Run
    <2>2. tree \in AllTrees
      BY AgentTrees
    <2>3. \A k \in DOMAIN diffs' : diffs'[k] \in AllTrees
      <3>1. DOMAIN diffs' = DOMAIN diffs \cup {Key(w)}
        BY <2>1, AddedDomain
      <3>2. ASSUME NEW k \in DOMAIN diffs \cup {Key(w)}
            PROVE  diffs'[k] = IF k = Key(w) THEN tree ELSE diffs[k]
        BY <2>1, AddedAt
      <3>3. QED
        BY <2>2, <3>1, <3>2 DEF Recorded
    <2>4. Recorded'
      BY <1>2, <2>3 DEF Run, Recorded, bounds, script
    <2>5. QED
      BY <1>2, <2>1, <2>2, <2>4
      DEF Run, Left, Moved, TypeOK, merging, governing, script
  <1>3. CASE Dies(w)
    <2>1. PICK tree \in Trees : Left(w, tree, NoDiff)
      BY <1>3 DEF Dies
    <2>2. tree \in AllTrees
      BY AgentTrees
    <2>3. QED
      BY <1>3, <2>1, <2>2, NoDiffIsATree
      DEF Dies, Left, Moved, Fault, TypeOK, Recorded, journal, merging,
          governing, script
  <1>4. CASE Replay(w)
    <2> DEFINE diff == diffs[Key(w)]
    <2>1. diff \in AllTrees /\ Patched(carry, diff) \in AllTrees
      BY <1>4, PatchedTree DEF Replay, Recorded, TypeOK
    <2>2. Recorded'
      BY <1>4 DEF Replay, Recorded, journal, bounds, script
    <2>3. CASE Left(w, Patched(carry, diff), diff)
      BY <1>4, <2>1, <2>2, <2>3
      DEF Replay, Left, Moved, TypeOK, journal, merging, governing, script
    <2>4. CASE Moved(w, "ended") /\ UNCHANGED desk
      BY <1>4, <2>2, <2>4
      DEF Replay, Moved, TypeOK, journal, merging, governing, script
    <2>5. QED
      BY <1>4, <2>3, <2>4 DEF Replay
  <1>5. CASE Cached(w)
    <2> DEFINE c == Candidate(desk[w].diff, scores[desk[w].diff], TRUE)
    <2>1. c \in CandidateSet
      <3>1. desk[w].diff \in AllTrees
        BY DEF TypeOK
      <3>2. scores[desk[w].diff] \in SUBSET Tests
        BY <1>5 DEF Cached, Recorded
      <3>3. QED
        BY <3>1, <3>2, MeasuredCandidate
    <2>2. Bank(w, c)
      BY <1>5 DEF Cached
    <2> HIDE DEF c
    <2>3. QED
      BY <1>5, <2>1, <2>2, BankTypes
      DEF Cached, TypeOK, Recorded, merging, governing, script, bounds
  <1>6. CASE Missed(w)
    BY <1>6 DEF Missed, Moved, TypeOK, Recorded, journal, merging, governing,
       script, bounds
  <1>7. CASE Measure(w)
    <2> DEFINE diff == desk[w].diff
               passed == Passing(desk[w].tree)
               c == Candidate(diff, passed, TRUE)
               e == Candidate(diff, {}, FALSE)
    <2>1. diff \in AllTrees /\ passed \in SUBSET Tests
      BY PassingTests DEF TypeOK
    <2>2. c \in CandidateSet /\ e \in CandidateSet
      BY <2>1, MeasuredCandidate, UnmeasuredCandidate
    <2>3. CASE Bank(w, c) /\ scores' = Added(scores, diff, passed)
               /\ UNCHANGED bounds
      <3>1. \A t \in DOMAIN scores' : scores'[t] \in SUBSET Tests
        BY <2>1, <2>3, NewScore
      <3> HIDE DEF diff, passed, c, e
      <3>2. QED
        BY <1>7, <2>2, <2>3, <3>1, BankTypes
        DEF Measure, TypeOK, Recorded, merging, governing, script, bounds
    <2>4. CASE Bank(w, e) /\ Fault /\ UNCHANGED scores
      <3> HIDE DEF diff, passed, c, e
      <3>1. QED
        BY <1>7, <2>2, <2>4, BankTypes
        DEF Measure, TypeOK, Recorded, Fault, merging, governing, script
    <2>5. QED
      BY <1>7, <2>3, <2>4 DEF Measure
  <1>8. CASE Settle(w)
    BY <1>8 DEF Settle, TypeOK, Recorded, process, merging, governing, script,
       bounds
  <1>9. QED
    BY <1>1, <1>2, <1>3, <1>4, <1>5, <1>6, <1>7, <1>8 DEF Attempt

\* What Judge does, for a merge with the diff of a tree.
LEMMA JudgeKeepsTypes ==
  ASSUME TypeOK, NEW c \in CandidateSet, Judge(c)
  PROVE  /\ pc' \in {"done", "poll"} /\ saved' \in BOOLEAN
         /\ DOMAIN cands' \subseteq Ids
         /\ \A id \in DOMAIN cands' : cands'[id] \in CandidateSet
         /\ carry' \in AllTrees /\ wt' \in AllTrees
         /\ residual' \in SUBSET Tests
         /\ winner' \in DOMAIN cands' \cup {NoOne}
  <1> DEFINE id == <<Merge, round>>
  <1>1. id \in Ids
    BY DEF TypeOK, Ids
  <1>2. cands' = Added(cands, id, c)
    BY DEF Judge
  <1>3. /\ DOMAIN cands' = DOMAIN cands \cup {id}
        /\ DOMAIN cands' \subseteq Ids
        /\ \A i \in DOMAIN cands' : cands'[i] \in CandidateSet
    BY <1>1, <1>2, NewCandidate
  <1>4. /\ c.diff \in AllTrees /\ c.passed \in SUBSET Tests
        /\ c.valid \in BOOLEAN /\ c.accepted \in BOOLEAN
    BY CandidateFields
  <1>5. wt' \in AllTrees /\ residual' \in SUBSET Tests /\ saved' \in BOOLEAN
    BY <1>4, NoDiffIsATree DEF Judge, TypeOK
  <1>6. CASE c.accepted
    BY <1>3, <1>5, <1>6 DEF Judge, TypeOK
  <1>7. CASE ~c.accepted
    BY <1>3, <1>4, <1>5, <1>7 DEF Judge, TypeOK
  <1>8. QED
    BY <1>6, <1>7

\* The ways to end a merge.
LEMMA EndOfMerge ==
  ASSUME EndMerge, NEW diff, diff = MergedDiff(wt)
  PROVE  \/ /\ diff \in DOMAIN scores
            /\ Judge(Candidate(diff, scores[diff], TRUE))
            /\ UNCHANGED scores /\ UNCHANGED bounds
         \/ /\ Judge(Candidate(diff, Passing(wt), TRUE))
            /\ scores' = Added(scores, diff, Passing(wt))
            /\ UNCHANGED bounds
         \/ /\ Judge(Candidate(diff, {}, FALSE))
            /\ Fault /\ UNCHANGED scores
  BY DEF EndMerge

LEMMA EndMergeKeepsTypes ==
  ASSUME Typed, EndMerge
  PROVE  Typed'
  <1> USE DEF Typed
  <1> DEFINE diff == MergedDiff(wt)
  <1>1. diff \in AllTrees
    BY MergedTree DEF TypeOK
  <1>2. Passing(wt) \in SUBSET Tests
    BY PassingTests DEF TypeOK
  <1>3. ASSUME NEW c \in CandidateSet, Judge(c),
               \A t \in DOMAIN scores' : scores'[t] \in SUBSET Tests,
               UNCHANGED kills
        PROVE  Typed'
    <2>1. /\ pc' \in {"done", "poll"} /\ saved' \in BOOLEAN
          /\ DOMAIN cands' \subseteq Ids
          /\ \A id \in DOMAIN cands' : cands'[id] \in CandidateSet
          /\ carry' \in AllTrees /\ wt' \in AllTrees
          /\ residual' \in SUBSET Tests
          /\ winner' \in DOMAIN cands' \cup {NoOne}
      BY <1>3, JudgeKeepsTypes
    <2>2. TypeOK'
      BY <2>1 DEF EndMerge, TypeOK
    <2>3. Recorded'
      BY <1>3, <2>1 DEF EndMerge, Recorded
    <2>4. QED
      BY <2>2, <2>3
  <1>4. CASE /\ diff \in DOMAIN scores
             /\ Judge(Candidate(diff, scores[diff], TRUE))
             /\ UNCHANGED scores /\ UNCHANGED bounds
    <2>1. scores[diff] \in SUBSET Tests
      BY <1>4 DEF Recorded
    <2>2. Candidate(diff, scores[diff], TRUE) \in CandidateSet
      BY <1>1, <2>1, MeasuredCandidate
    <2>3. QED
      BY <1>3, <1>4, <2>2 DEF Recorded, bounds
  <1>5. CASE /\ Judge(Candidate(diff, Passing(wt), TRUE))
             /\ scores' = Added(scores, diff, Passing(wt))
             /\ UNCHANGED bounds
    <2>1. Candidate(diff, Passing(wt), TRUE) \in CandidateSet
      BY <1>1, <1>2, MeasuredCandidate
    <2>2. \A t \in DOMAIN scores' : scores'[t] \in SUBSET Tests
      BY <1>2, <1>5, NewScore
    <2>3. QED
      BY <1>3, <1>5, <2>1, <2>2 DEF bounds
  <1>6. CASE /\ Judge(Candidate(diff, {}, FALSE))
             /\ Fault /\ UNCHANGED scores
    <2>1. Candidate(diff, {}, FALSE) \in CandidateSet
      BY <1>1, UnmeasuredCandidate
    <2>2. QED
      BY <1>3, <1>6, <2>1 DEF Recorded, Fault
  <1>7. QED
    BY <1>4, <1>5, <1>6, EndOfMerge

LEMMA ScriptKeepsTypes ==
  ASSUME Typed,
         Scope \/ EndFanout \/ EndRepair \/ MergeNext \/ Poll \/ Abstain \/ Choose
  PROVE  Typed'
  <1> USE DEF Typed
  <1>1. CASE Scope
    <2>1. ASSUME NEW id \in DOMAIN cands PROVE cands[id].diff \in AllTrees
      BY CandidateFields DEF TypeOK
    <2>2. carry' \in AllTrees
      BY <1>1, <2>1, NoDiffIsATree DEF Scope, CarryBest, Usable
    <2>3. QED
      BY <1>1, <2>2 DEF Scope, Working, TypeOK, Recorded, journal, merging,
         governing, bounds
  <1>2. CASE EndFanout
    BY <1>2 DEF EndFanout, Reduce, Fault, TypeOK, Recorded, journal, merging,
       governing, bounds
  <1>3. CASE EndRepair
    <2>1. round' \in 0..MaxRounds
      BY <1>3, ConvergenceAssumption
      DEF EndRepair, Working, Phase, TypeOK, Recorded
    <2>2. QED
      BY <1>3, <2>1 DEF EndRepair, Reduce, Fault, Moved, TypeOK, Recorded,
         journal, merging, governing, bounds
  <1>4. CASE MergeNext
    <2> DEFINE id == Head(queue)
    <2>1. CASE id \in DOMAIN cands
      <3>1. cands[id].diff \in AllTrees
        BY <2>1, CandidateFields DEF TypeOK
      <3>2. wt' \in AllTrees
        BY <1>4, <3>1, PatchedTree DEF MergeNext, TypeOK
      <3>3. QED
        BY <1>4, <3>2 DEF MergeNext, TypeOK, Recorded, journal, script,
           governing, bounds
    <2>2. CASE id \notin DOMAIN cands
      BY <1>4, <2>2 DEF MergeNext, TypeOK, Recorded, journal, script,
         governing, bounds
    <2>3. QED
      BY <2>1, <2>2
  <1>5. CASE Poll
    BY <1>5 DEF Poll, TypeOK, Recorded, merging, script, bounds
  <1>6. CASE Abstain
    BY <1>6 DEF Abstain, TypeOK, Recorded, journal, merging, governing,
       script, bounds
  <1>7. CASE Choose
    <2>1. PICK first \in Accepted, refuted \in BOOLEAN :
            /\ cands' = [cands EXCEPT ![first].accepted = ~refuted]
            /\ LET rest == IF refuted THEN Accepted \ {first} ELSE Accepted
               IN  IF rest = {} THEN winner' = NoOne ELSE winner' \in rest
      BY <1>7 DEF Choose
    <2>2. DOMAIN cands' = DOMAIN cands
      BY <2>1
    <2>3. \A id \in DOMAIN cands : cands'[id] \in CandidateSet
      BY <2>1 DEF TypeOK, CandidateSet, Accepted
    <2>4. winner' \in DOMAIN cands \cup {NoOne}
      BY <2>1 DEF Accepted
    <2>5. QED
      BY <1>7, <2>2, <2>3, <2>4
      DEF Choose, TypeOK, Recorded, journal, merging, governing, bounds
  <1>8. QED
    BY <1>1, <1>2, <1>3, <1>4, <1>5, <1>6, <1>7

LEMMA KillsKeepTypes ==
  ASSUME Typed, Kill \/ Restart
  PROVE  Typed'
  <1> USE DEF Typed
  <1>1. CASE Kill
    <2>1. TypeOK'
      BY <1>1 DEF Kill, TypeOK, journal, process, merging, governing, script
    <2>2. kills' \in Nat /\ kills' # 0
      BY <1>1 DEF Kill, Recorded
    <2>3. QED
      BY <1>1, <2>1, <2>2 DEF Kill, Recorded, journal, process, script
  <1>2. CASE Restart
    <2>1. DOMAIN <<>> = {}
      OBVIOUS
    <2>2. DOMAIN cands' = {} /\ winner' = NoOne
      BY <1>2, <2>1 DEF Restart, Start, NoOne
    <2>3. desk' \in [Workers -> [tree : AllTrees, diff : AllTrees]]
      BY <1>2, NoDiffIsATree DEF Restart, Start, NoDesk
    <2>4. round' \in 0..MaxRounds
      BY <1>2, ConvergenceAssumption DEF Restart, Start
    <2>5. QED
      BY <1>2, <2>2, <2>3, <2>4, NoDiffIsATree
      DEF Restart, Start, TypeOK, Recorded, journal, bounds
  <1>3. QED
    BY <1>1, <1>2

LEMMA StepKeepsTypes ==
  ASSUME Typed, [Next]_vars
  PROVE  Typed'
  <1>1. CASE UNCHANGED vars
    BY <1>1 DEF Typed, TypeOK, Recorded, vars, journal, process, merging,
       governing, script, bounds
  <1>2. CASE Next
    BY <1>2, AttemptKeepsTypes, EndMergeKeepsTypes, ScriptKeepsTypes,
       KillsKeepTypes DEF Next, Step
  <1>3. QED
    BY <1>1, <1>2

\* The variables keep their types through kills and restarts.
THEOREM TypeCorrect == Spec => []TypeOK
  <1>1. Typed => TypeOK
    BY DEF Typed
  <1>2. QED
    BY TypesHoldAtFirst, StepKeepsTypes, <1>1, PTL DEF Spec

----------------------------------------------------------------------------
(* What is carried is kept *)

CarryKept ==
  pc = "merge" => \A r \in Regions : carry[r] # "base" => wt[r] = carry[r]

LEMMA CarryKeptAtFirst == Init => CarryKept
  BY DEF Init, CarryKept

LEMMA StepKeepsCarry ==
  ASSUME Typed, CarryKept, [Next]_vars
  PROVE  CarryKept'
  <1>1. CASE UNCHANGED vars
    BY <1>1 DEF CarryKept, vars, process, merging, script
  <1>2. ASSUME NEW w \in Workers, Attempt(w)
        PROVE  pc' = pc /\ pc # "merge"
    BY <1>2 DEF Attempt, Lost, Run, Dies, Replay, Cached, Missed, Measure,
       Settle, Ready, Working, Phase, process
  <1>3. CASE EndFanout \/ EndRepair
    BY <1>3 DEF EndFanout, EndRepair, Reduce, CarryKept, merging
  <1>4. CASE MergeNext
    <2> DEFINE id == Head(queue)
    <2>1. CASE id \in DOMAIN cands
      <3>1. cands[id].diff \in AllTrees /\ wt \in AllTrees
        BY <2>1, CandidateFields DEF Typed, TypeOK
      <3>2. \A r \in Regions : wt[r] # "base" => wt'[r] = wt[r]
        BY <1>4, <3>1, PatchedTree DEF MergeNext
      <3>3. QED
        BY <1>4, <3>2 DEF MergeNext, CarryKept, script
    <2>2. CASE id \notin DOMAIN cands
      BY <1>4, <2>2 DEF MergeNext, CarryKept, script
    <2>3. QED
      BY <2>1, <2>2
  <1>5. ASSUME EndMerge PROVE pc' # "merge"
    BY <1>5 DEF EndMerge, Judge
  <1>6. CASE Scope \/ Poll \/ Abstain \/ Choose \/ Restart
    BY <1>6 DEF Scope, Poll, Abstain, Choose, Restart, Start, CarryKept
  <1>7. CASE Kill
    BY <1>7 DEF Kill, CarryKept, process, merging, script
  <1>8. QED
    BY <1>1, <1>2, <1>3, <1>4, <1>5, <1>6, <1>7 DEF Next, Step, CarryKept

\* After the floor probe a step changes no region of the carry that lies in a
\* file of the base.
CarryStep ==
  up /\ up' /\ pc # "floor" =>
    \A r \in Regions \ New : carry[r] # "base" => carry'[r] = carry[r]

LEMMA StepGrowsCarry ==
  ASSUME Typed, CarryKept, [Next]_vars
  PROVE  CarryStep
  <1>1. CASE EndMerge
    <2> DEFINE diff == MergedDiff(wt)
    <2>1. /\ pc = "merge"
          /\ \A r \in Regions \ New : diff[r] = wt[r]
      BY <1>1, MergedTree DEF Typed, TypeOK, EndMerge
    <2>2. ASSUME NEW passed, NEW valid,
                 Judge(Candidate(diff, passed, valid))
          PROVE  carry' = carry \/ carry' = diff
      <3>1. Candidate(diff, passed, valid).diff = diff
        BY DEF Candidate
      <3>2. QED
        BY <2>2, <3>1 DEF Judge
    <2>3. carry' = carry \/ carry' = diff
      BY <1>1, <2>2, EndOfMerge
    <2>4. QED
      BY <2>1, <2>3 DEF CarryStep, CarryKept
  <1>2. CASE Scope \/ Restart
    <2>1. Phase(Floor) = "floor"
      BY ConvergenceAssumption DEF Phase
    <2>2. QED
      BY <1>2, <2>1 DEF Scope, Restart, Working, CarryStep
  <1>3. CASE UNCHANGED vars \/ Kill
    BY <1>3 DEF vars, Kill, process, script, CarryStep
  <1>4. CASE EndFanout \/ EndRepair \/ MergeNext \/ Poll \/ Abstain \/ Choose
    BY <1>4 DEF EndFanout, EndRepair, MergeNext, Poll, Abstain, Choose,
       script, CarryStep
  <1>5. ASSUME NEW w \in Workers, Attempt(w)
        PROVE  UNCHANGED carry
    BY <1>5 DEF Attempt, Lost, Run, Dies, Replay, Cached, Missed, Measure,
       Settle, process, script
  <1>6. QED
    BY <1>1, <1>2, <1>3, <1>4, <1>5 DEF Next, Step, CarryStep

\* In files that the base has, a merge changes no region of what is carried,
\* whatever conflicts, faults and failed measurements there are.
THEOREM CarryGrows == Spec => CarryOnlyGrows
  <1>1. Typed /\ CarryKept /\ [Next]_vars => CarryStep
    BY StepGrowsCarry
  <1>2. Init => Typed /\ CarryKept
    BY TypesHoldAtFirst, CarryKeptAtFirst
  <1>3. Typed /\ CarryKept /\ [Next]_vars => (Typed /\ CarryKept)'
    BY StepKeepsTypes, StepKeepsCarry
  <1>4. CarryOnlyGrows <=> [][CarryStep]_vars
    BY DEF CarryOnlyGrows, CarryStep
  <1>5. QED
    BY <1>1, <1>2, <1>3, <1>4, PTL DEF Spec

----------------------------------------------------------------------------
(* Until a process is killed, what the journal, the candidates and the     *)
(* script say of a diff is what the diff does, unless a merge with new     *)
(* files was recorded under it.                                            *)

\* A process journals the diff of a call after the call is made.
KeysSpent ==
  \A k \in DOMAIN diffs :
    /\ k[1] \in Workers
    /\ k[1] # Repair => place[k[1]] # "todo"
    /\ k[1] = Repair =>
         \/ k[2] \in Nat /\ k[2] < round
         \/ k[2] = round /\ place[Repair] # "todo"

DesksTrue == \A w \in Workers : desk[w].diff \in {NoDiff, desk[w].tree}
ScoresTrue ==
  \A t \in DOMAIN scores :
    t \notin blurred \cup {NoDiff} => scores[t] = Passing(t)
True(c) ==
  /\ c.accepted => c.valid /\ c.passed = Tests
  /\ c.valid /\ c.diff \notin blurred \cup {NoDiff} => c.passed = Passing(c.diff)
CandsTrue == \A id \in DOMAIN cands : True(cands[id])
ResidualTrue ==
  /\ pc \in {"poll", "repair"} /\ residual # {}
  /\ carry \notin blurred \cup {NoDiff} /\ MergedDiff(carry) = carry
  => residual = Tests \ Passing(carry)

Sound ==
  kills = 0 =>
    /\ KeysSpent /\ DesksTrue /\ ScoresTrue /\ CandsTrue /\ ResidualTrue
    /\ pc = "repair" => residual # {}

LEMMA SoundAtFirst == Init => Sound
  <1>1. DOMAIN <<>> = {}
    OBVIOUS
  <1>2. QED
    BY <1>1 DEF Init, Sound, KeysSpent, DesksTrue, ScoresTrue, CandsTrue,
       ResidualTrue, NoDesk

\* Nothing is replayed before the first kill.
LEMMA NothingToReplay ==
  ASSUME Typed, KeysSpent, NEW w \in Workers, place[w] = "todo"
  PROVE  Key(w) \notin DOMAIN diffs
  <1>1. Key(w)[1] = w /\ (w = Repair => Key(w)[2] = round)
    BY DEF Key
  <1>2. round \in Nat
    BY ConvergenceAssumption DEF Typed, TypeOK
  <1>3. QED
    BY <1>1, <1>2 DEF KeysSpent

LEMMA MeasuredIsTrue ==
  ASSUME NEW diff, NEW passed,
         diff \notin blurred \cup {NoDiff} => passed = Passing(diff)
  PROVE  True(Candidate(diff, passed, TRUE))
  BY DEF True, Candidate

LEMMA UnmeasuredIsTrue ==
  ASSUME NEW diff
  PROVE  True(Candidate(diff, {}, FALSE))
  BY DEF True, Candidate

\* Only diffs of merges become blurred, and they stay so.
Grown == blurred \subseteq blurred'

\* What is said of a new candidate is said of the diffs that are blurred then.
LEMMA NewCandidateTrue ==
  ASSUME CandsTrue, Grown, NEW id, NEW c, cands' = Added(cands, id, c),
         c.accepted => c.valid /\ c.passed = Tests,
         c.valid /\ c.diff \notin blurred' \cup {NoDiff}
           => c.passed = Passing(c.diff)
  PROVE  CandsTrue'
  <1>1. DOMAIN cands' = DOMAIN cands \cup {id}
    BY AddedDomain
  <1>2. ASSUME NEW i \in DOMAIN cands \cup {id}
        PROVE  cands'[i] = IF i = id THEN c ELSE cands[i]
    BY AddedAt
  <1>3. QED
    BY <1>1, <1>2 DEF CandsTrue, True, Grown

LEMMA NewScoreTrue ==
  ASSUME ScoresTrue, Grown, NEW diff, NEW passed,
         diff \notin blurred' \cup {NoDiff} => passed = Passing(diff),
         scores' = Added(scores, diff, passed)
  PROVE  ScoresTrue'
  <1>1. DOMAIN scores' = DOMAIN scores \cup {diff}
    BY AddedDomain
  <1>2. ASSUME NEW t \in DOMAIN scores \cup {diff}
        PROVE  scores'[t] = IF t = diff THEN passed ELSE scores[t]
    BY AddedAt
  <1>3. QED
    BY <1>1, <1>2 DEF ScoresTrue, Grown

\* A worker that goes on leaves the keys spent.
LEMMA KeysStaySpent ==
  ASSUME Typed, KeysSpent, NEW w \in Workers, NEW where, where # "todo",
         Moved(w, where), UNCHANGED <<diffs, round>>
  PROVE  KeysSpent'
  BY DEF Typed, TypeOK, KeysSpent, Moved

\* The candidate of an attempt.
LEMMA BankIsTrue ==
  ASSUME Typed, KeysSpent, DesksTrue, CandsTrue, NEW w \in Workers, NEW c,
         True(c), Bank(w, c), UNCHANGED <<diffs, round, blurred>>
  PROVE  KeysSpent' /\ DesksTrue' /\ CandsTrue'
  <1>1. KeysSpent'
    BY KeysStaySpent DEF Bank
  <1>2. DesksTrue'
    BY DEF Bank, DesksTrue, Typed, TypeOK, NoDesk
  <1>3. CandsTrue'
    BY NewCandidateTrue DEF Bank, Grown, True
  <1>4. QED
    BY <1>1, <1>2, <1>3

LEMMA LeftIsTrue ==
  ASSUME Typed, DesksTrue, NEW w \in Workers, NEW t, NEW diff \in {NoDiff, t},
         Left(w, t, diff)
  PROVE  DesksTrue'
  BY DEF Typed, TypeOK, DesksTrue, Left

LEMMA AttemptIsSound ==
  ASSUME Typed, Sound, kills = 0, NEW w \in Workers, Attempt(w)
  PROVE  Sound'
  <1> USE DEF Sound
  <1>1. UNCHANGED <<pc, residual, round, carry, kills, blurred>>
    BY DEF Attempt, Lost, Run, Dies, Replay, Cached, Missed, Measure, Settle,
       Fault, process, script, bounds
  <1>2. ResidualTrue' /\ (pc = "repair" => residual # {})'
    BY <1>1 DEF ResidualTrue
  <1>3. CASE Lost(w)
    BY <1>1, <1>2, <1>3, KeysStaySpent
    DEF Lost, DesksTrue, ScoresTrue, CandsTrue, True, journal
  <1>4. CASE Run(w)
    <2>1. PICK tree \in Trees : Left(w, tree, tree)
                                /\ diffs' = Added(diffs, Key(w), tree)
      BY <1>4 DEF Run
    <2>2. DesksTrue'
      BY <2>1, LeftIsTrue
    <2>3. DOMAIN diffs' = DOMAIN diffs \cup {Key(w)}
      BY <2>1, AddedDomain
    <2>4. Key(w)[1] = w /\ (w = Repair => Key(w)[2] = round)
      BY DEF Key
    <2>5. KeysSpent'
      BY <1>1, <2>1, <2>3, <2>4
      DEF KeysSpent, Left, Moved, Typed, TypeOK
    <2>6. QED
      BY <1>1, <1>2, <1>4, <2>2, <2>5 DEF Run, ScoresTrue, CandsTrue, True
  <1>5. CASE Dies(w)
    <2>1. PICK tree \in Trees : Left(w, tree, NoDiff)
      BY <1>5 DEF Dies
    <2>2. DesksTrue'
      BY <2>1, LeftIsTrue
    <2>3. KeysSpent'
      BY <1>1, <1>5, <2>1, KeysStaySpent DEF Dies, Left, journal
    <2>4. QED
      BY <1>1, <1>2, <1>5, <2>2, <2>3
      DEF Dies, ScoresTrue, CandsTrue, True, journal
  <1>6. CASE Replay(w)
    BY <1>6, NothingToReplay DEF Replay, Ready
  <1>7. CASE Cached(w)
    <2> DEFINE diff == desk[w].diff
    <2>1. True(Candidate(diff, scores[diff], TRUE))
      BY <1>7, MeasuredIsTrue DEF Cached, ScoresTrue
    <2>2. KeysSpent' /\ DesksTrue' /\ CandsTrue'
      BY <1>1, <1>7, <2>1, BankIsTrue DEF Cached
    <2>3. QED
      BY <1>1, <1>2, <1>7, <2>2 DEF Cached, ScoresTrue
  <1>8. CASE Missed(w)
    BY <1>1, <1>2, <1>8, KeysStaySpent
    DEF Missed, DesksTrue, ScoresTrue, CandsTrue, True, journal
  <1>9. CASE Measure(w)
    <2> DEFINE diff == desk[w].diff
               passed == Passing(desk[w].tree)
    <2>1. diff # NoDiff => passed = Passing(diff)
      BY DEF DesksTrue
    <2>2. UNCHANGED <<diffs, round, blurred>> /\ Grown
      BY <1>1, <1>9 DEF Measure, Grown
    <2>3. CASE /\ Bank(w, Candidate(diff, passed, TRUE))
               /\ scores' = Added(scores, diff, passed)
      <3>1. True(Candidate(diff, passed, TRUE))
        BY <2>1, MeasuredIsTrue
      <3>2. KeysSpent' /\ DesksTrue' /\ CandsTrue'
        BY <2>2, <2>3, <3>1, BankIsTrue
      <3>3. ScoresTrue'
        BY <2>1, <2>2, <2>3, NewScoreTrue
      <3>4. QED
        BY <1>2, <3>2, <3>3
    <2>4. CASE Bank(w, Candidate(diff, {}, FALSE)) /\ UNCHANGED scores
      <3>1. KeysSpent' /\ DesksTrue' /\ CandsTrue'
        BY <2>2, <2>4, UnmeasuredIsTrue, BankIsTrue
      <3>2. QED
        BY <1>2, <2>2, <2>4, <3>1 DEF ScoresTrue
    <2>5. QED
      BY <1>9, <2>3, <2>4 DEF Measure
  <1>10. CASE Settle(w)
    BY <1>1, <1>2, <1>10 DEF Settle, KeysSpent, DesksTrue, ScoresTrue,
       CandsTrue, True, process, script
  <1>11. QED
    BY <1>3, <1>4, <1>5, <1>6, <1>7, <1>8, <1>9, <1>10 DEF Attempt

\* A merge has no diff only if nothing is carried in files of the base.
LEMMA EmptyMerge ==
  ASSUME Typed, CarryKept, pc = "merge", MergedDiff(wt) = NoDiff,
         MergedDiff(carry) = carry
  PROVE  carry = NoDiff
  <1>1. carry \in AllTrees /\ wt \in AllTrees
    BY DEF Typed, TypeOK
  <1>2. \A r \in New : carry[r] = "base"
    BY <1>1, ConvergenceAssumption DEF MergedDiff
  <1>3. \A r \in Regions \ New : wt[r] = "base"
    BY <1>1, MergedTree, NothingInNoDiff
  <1>4. \A r \in Regions : carry[r] = "base"
    BY <1>2, <1>3 DEF CarryKept
  <1>5. QED
    BY <1>1, <1>4, SomethingThere

\* A merge is recorded under a diff that makes it, or the diff is blurred.
LEMMA BlurredByMerge ==
  ASSUME EndMerge
  PROVE  Grown /\ (MergedDiff(wt) \in blurred' \/ MergedDiff(wt) = wt)
  BY DEF EndMerge, Grown

LEMMA EndMergeIsSound ==
  ASSUME Typed, CarryKept, Sound, kills = 0, EndMerge
  PROVE  Sound'
  <1> USE DEF Sound
  <1> DEFINE diff == MergedDiff(wt)
             exact == diff \notin blurred' \cup {NoDiff}
  <1>1. /\ diff \in AllTrees /\ pc = "merge" /\ Grown
        /\ exact => diff = wt
    BY BlurredByMerge, MergedTree DEF Typed, TypeOK, EndMerge
  <1>2. KeysSpent' /\ DesksTrue'
    BY DEF EndMerge, KeysSpent, DesksTrue
  <1>3. ASSUME NEW passed, NEW valid \in BOOLEAN,
               Judge(Candidate(diff, passed, valid)),
               valid /\ exact => passed = Passing(diff)
        PROVE  CandsTrue' /\ ResidualTrue' /\ pc' # "repair"
    <2> DEFINE c == Candidate(diff, passed, valid)
    <2>1. /\ c.diff = diff /\ c.passed = passed /\ c.valid = valid
          /\ c.accepted <=> valid /\ passed = Tests
      BY DEF Candidate
    <2>2. cands' = Added(cands, <<Merge, round>>, c)
      BY <1>3 DEF Judge
    <2> HIDE DEF c
    <2>3. CandsTrue'
      BY <1>1, <1>3, <2>1, <2>2, NewCandidateTrue
    <2>4. pc' \in {"done", "poll"}
      BY <1>3 DEF Judge, c
    <2>5. CASE /\ pc' = "poll" /\ residual' # {}
               /\ carry' \notin blurred' \cup {NoDiff}
               /\ MergedDiff(carry') = carry'
      <3>1. valid /\ residual' = Tests \ passed
        BY <1>3, <2>1, <2>5 DEF Judge, c
      <3>2. carry' = IF diff = NoDiff THEN carry ELSE diff
        BY <1>3, <2>1, <2>5 DEF Judge, c
      <3>3. diff # NoDiff
        BY <1>1, <2>5, <3>2, EmptyMerge
      <3>4. exact /\ carry' = diff
        BY <2>5, <3>2, <3>3
      <3>5. residual' = Tests \ Passing(carry')
        BY <1>3, <3>1, <3>4
      <3>6. QED
        BY <2>3, <2>4, <3>5 DEF ResidualTrue
    <2>6. CASE pc' # "poll" \/ residual' = {}
               \/ carry' \in blurred' \cup {NoDiff}
               \/ MergedDiff(carry') # carry'
      BY <2>3, <2>4, <2>6 DEF ResidualTrue, MergedDiff
    <2>7. QED
      BY <2>5, <2>6
  <1>4. CASE /\ diff \in DOMAIN scores
             /\ Judge(Candidate(diff, scores[diff], TRUE))
             /\ UNCHANGED scores
    <2>1. exact => scores[diff] = Passing(diff)
      BY <1>1, <1>4 DEF ScoresTrue, Grown
    <2>2. CandsTrue' /\ ResidualTrue' /\ pc' # "repair"
      BY <1>3, <1>4, <2>1
    <2>3. QED
      BY <1>1, <1>2, <1>4, <2>2 DEF ScoresTrue, Grown
  <1>5. CASE /\ Judge(Candidate(diff, Passing(wt), TRUE))
             /\ scores' = Added(scores, diff, Passing(wt))
    <2>1. CandsTrue' /\ ResidualTrue' /\ pc' # "repair"
      BY <1>1, <1>3, <1>5
    <2>2. ScoresTrue'
      BY <1>1, <1>5, NewScoreTrue
    <2>3. QED
      BY <1>2, <2>1, <2>2
  <1>6. CASE Judge(Candidate(diff, {}, FALSE)) /\ UNCHANGED scores
    <2>1. CandsTrue' /\ ResidualTrue' /\ pc' # "repair"
      BY <1>3, <1>6
    <2>2. QED
      BY <1>1, <1>2, <1>6, <2>1 DEF ScoresTrue, Grown
  <1>7. QED
    BY <1>4, <1>5, <1>6, EndOfMerge

LEMMA ScriptIsSound ==
  ASSUME Typed, Sound, kills = 0,
         Scope \/ EndFanout \/ EndRepair \/ MergeNext \/ Poll \/ Abstain \/ Choose
  PROVE  Sound'
  <1> USE DEF Sound
  <1>0. UNCHANGED blurred
    BY DEF Scope, EndFanout, EndRepair, MergeNext, Poll, Abstain, Choose
  <1>1. ScoresTrue' /\ DesksTrue'
    BY <1>0 DEF Scope, EndFanout, EndRepair, MergeNext, Poll, Abstain, Choose,
       ScoresTrue, DesksTrue, journal
  <1>2. CASE Scope
    BY <1>0, <1>1, <1>2 DEF Scope, KeysSpent, CandsTrue, True, ResidualTrue,
       journal
  <1>3. CASE EndFanout
    BY <1>0, <1>1, <1>3
    DEF EndFanout, Reduce, KeysSpent, CandsTrue, True, ResidualTrue, journal
  <1>4. CASE EndRepair
    <2>1. CandsTrue' /\ ResidualTrue' /\ pc' # "repair"
      BY <1>0, <1>4 DEF EndRepair, Reduce, CandsTrue, True, ResidualTrue
    <2>2. round \in Nat
      BY ConvergenceAssumption DEF Typed, TypeOK
    <2>3. UNCHANGED diffs /\ round' = round + 1
      BY <1>4 DEF EndRepair, journal
    <2>4. \A w \in Workers : w # Repair => place'[w] = place[w]
      BY <1>4 DEF EndRepair, Moved, Typed, TypeOK
    <2>5. ASSUME NEW k \in DOMAIN diffs
          PROVE  /\ k[1] \in Workers
                 /\ k[1] # Repair => place'[k[1]] # "todo"
                 /\ k[1] = Repair =>
                      \/ k[2] \in Nat /\ k[2] < round'
                      \/ k[2] = round' /\ place'[Repair] # "todo"
      <3>1. k[1] \in Workers /\ (k[1] # Repair => place[k[1]] # "todo")
        BY DEF KeysSpent
      <3>2. k[1] = Repair => k[2] \in Nat /\ k[2] <= round
        BY <2>2 DEF KeysSpent
      <3>3. QED
        BY <2>2, <2>3, <2>4, <3>1, <3>2
    <2>6. KeysSpent'
      <3>1. DOMAIN diffs' = DOMAIN diffs
        BY <2>3
      <3>2. QED
        BY <2>5, <3>1 DEF KeysSpent
    <2>7. QED
      BY <1>1, <2>1, <2>6
  <1>5. CASE MergeNext
    BY <1>0, <1>1, <1>5
    DEF MergeNext, KeysSpent, CandsTrue, True, ResidualTrue, MergedDiff, journal, script
  <1>6. CASE Poll
    BY <1>0, <1>1, <1>6 DEF Poll, KeysSpent, CandsTrue, True, ResidualTrue,
       MergedDiff, script
  <1>7. CASE Abstain
    BY <1>0, <1>1, <1>7 DEF Abstain, KeysSpent, CandsTrue, True,
       ResidualTrue, MergedDiff, journal, script
  <1>8. CASE Choose
    <2>1. PICK first \in Accepted, refuted \in BOOLEAN :
            cands' = [cands EXCEPT ![first].accepted = ~refuted]
      BY <1>8 DEF Choose
    <2>2. first \in DOMAIN cands /\ cands[first].accepted
      BY DEF Accepted
    <2>3. /\ DOMAIN cands' = DOMAIN cands
          /\ \A id \in DOMAIN cands : id # first => cands'[id] = cands[id]
          /\ cands'[first] = [cands[first] EXCEPT !.accepted = ~refuted]
      BY <2>1, <2>2
    <2>4. cands[first] \in CandidateSet
      BY <2>2 DEF Typed, TypeOK
    <2>5. True(cands'[first])
      BY <1>0, <2>2, <2>3, <2>4 DEF True, CandsTrue, CandidateSet
    <2>6. CandsTrue'
      BY <1>0, <2>3, <2>5 DEF CandsTrue, True
    <2>7. QED
      BY <1>0, <1>1, <1>8, <2>6 DEF Choose, KeysSpent, ResidualTrue, journal
  <1>9. QED
    BY <1>2, <1>3, <1>4, <1>5, <1>6, <1>7, <1>8

LEMMA StepIsSound ==
  ASSUME Typed, CarryKept, Sound, [Next]_vars
  PROVE  Sound'
  <1>1. CASE kills' # 0
    BY <1>1 DEF Sound
  <1>2. CASE kills' = 0 /\ kills # 0
    <2>1. ASSUME NEW w \in Workers, Attempt(w) PROVE UNCHANGED kills
      BY <2>1 DEF Attempt, Lost, Run, Dies, Replay, Cached, Missed, Measure,
         Settle, Fault, bounds
    <2>2. ASSUME EndMerge PROVE UNCHANGED kills
      BY <2>2, EndOfMerge DEF Fault, bounds
    <2>3. ASSUME Kill PROVE kills' # 0
      BY <2>3 DEF Kill, Typed, Recorded
    <2>4. ASSUME \/ Scope \/ EndFanout \/ EndRepair \/ MergeNext \/ Poll
                 \/ Abstain \/ Choose \/ Restart \/ UNCHANGED vars
          PROVE  UNCHANGED kills
      BY <2>4 DEF Scope, EndFanout, EndRepair, Reduce, MergeNext, Poll,
         Abstain, Choose, Restart, Fault, bounds, vars
    <2>5. QED
      BY <1>2, <2>1, <2>2, <2>3, <2>4 DEF Next, Step
  <1>3. CASE kills' = 0 /\ kills = 0
    <2>1. CASE UNCHANGED vars
      BY <2>1 DEF Sound, KeysSpent, DesksTrue, ScoresTrue, CandsTrue,
         True, ResidualTrue, MergedDiff, vars, journal, process, script, bounds
    <2>2. ~Kill /\ ~Restart
      BY <1>3 DEF Kill, Restart, Typed, Recorded
    <2>3. CASE Step
      BY <1>3, <2>3, AttemptIsSound, EndMergeIsSound, ScriptIsSound DEF Step
    <2>4. QED
      BY <2>1, <2>2, <2>3 DEF Next
  <1>4. QED
    BY <1>1, <1>2, <1>3

Inv == Typed /\ CarryKept /\ Sound

LEMMA InvIsInductive == Spec => []Inv
  <1>1. Init => Inv
    BY TypesHoldAtFirst, CarryKeptAtFirst, SoundAtFirst DEF Inv
  <1>2. Inv /\ [Next]_vars => Inv'
    BY StepKeepsTypes, StepKeepsCarry, StepIsSound DEF Inv
  <1>3. QED
    BY <1>1, <1>2, PTL DEF Spec

\* Before the first kill, whoever is accepted on the strength of a diff passes
\* with it: no tree is scored under a diff of another, except under the diff
\* of a merge that leaves new files out.
THEOREM AcceptedPasses == Spec => []AcceptedDiffPasses
  <1>1. Inv => AcceptedDiffPasses
    BY DEF Inv, Sound, CandsTrue, True, AcceptedDiffPasses
  <1>2. QED
    BY <1>1, InvIsInductive, PTL

\* Before the first kill, a repair is asked for the tests that the tree it
\* starts from fails, if that tree holds no new file and no merge with new
\* files was recorded under it.
THEOREM ResidualExact == Spec => []ResidualIsExact
  <1>1. Inv => ResidualIsExact
    BY DEF Inv, Sound, ResidualTrue, ResidualIsExact
  <1>2. QED
    BY <1>1, InvIsInductive, PTL

=============================================================================
