---------------------------- MODULE LadderProofs ----------------------------
(***************************************************************************)
(* Proofs about module Ladder, for any windows, bounds and number of       *)
(* relaunches.  LadderInv ties what the ladder remembers of the frontier   *)
(* to the measurements there were when it launched the child.              *)
(***************************************************************************)
EXTENDS Ladder, TLAPS, SequenceTheorems, WellFoundedInduction

Alive == {"boot", "run", "reported"}
Counts == {Indeterminate} \cup 0..Total

\* What the ladder remembers of the frontier is the frontier that the
\* running child was launched at.
Remembered ==
  Mode = "C" /\ child \in Alive /\ lastProg # None =>
    lastProg = Gold(SubSeq(log, 1, mark))

LadderInv ==
  /\ TypeOK
  /\ Len(log) <= MaxMeasures /\ Len(rollouts) <= MaxMeasures
  /\ child \in {"run", "reported"} => journal
  /\ ~journal => log = <<>> /\ ~checkpoint
  /\ mark <= Len(Measures)
  /\ Remembered
----------------------------------------------------------------------------
(* The frontier.                                                           *)

\* A bounded, non-empty set of numbers has a greatest one, and Max is it.
LEMMA MaxIsGreatest ==
  ASSUME NEW n \in Nat, NEW S \in SUBSET (0 .. n), S # {}
  PROVE  Max(S) \in S /\ \A i \in S : i <= Max(S)
<1> DEFINE R == OpToRel(<, Nat)
           T == {n - i : i \in S}
<1>1. IsWellFoundedOn(R, Nat)  BY NatLessThanWellFounded
<1>2. T \subseteq Nat
  <2>1. \A i \in S : i \in Int /\ i <= n  OBVIOUS
  <2>2. QED  BY <2>1
<1>3. T # {}  OBVIOUS
<1> HIDE DEF R, T
<1>4. \E x \in T : \A y \in T : ~ (<<y, x>> \in R)
  BY <1>1, <1>2, <1>3, WFMin
<1>5. \A x, y \in Nat : y < x => <<y, x>> \in R  BY DEF R, OpToRel
<1>6. PICK x \in T : \A y \in T : ~ (y < x)  BY <1>2, <1>4, <1>5
<1>7. PICK m \in S : x = n - m  BY <1>6 DEF T
<1>8. \A i \in S : n - i \in T  BY DEF T
<1>9. \A i \in S : m >= i  BY <1>6, <1>7, <1>8
<1>10. QED  BY <1>9 DEF Max

\* The frontier is 0 or a valid measurement, and no measurement beats it.
LEMMA GoldIsBest ==
  ASSUME NEW w \in Seq(Counts)
  PROVE  /\ Gold(w) \in 0..Total
         /\ Gold(w) = 0 \/ \E i \in 1..Len(w) : w[i] = Gold(w)
         /\ \A i \in 1..Len(w) : w[i] <= Gold(w)
<1> DEFINE S == {0} \cup {w[i] : i \in Valid(w)}
<1>1. Total \in Nat  BY LadderAssumption
<1>2. DOMAIN w = 1..Len(w) /\ \A i \in 1..Len(w) : w[i] \in Counts
  BY LenProperties
<1>3. S \in SUBSET (0..Total) /\ S # {}
  BY <1>1, <1>2 DEF Valid, Counts
<1>4. Gold(w) \in S /\ \A i \in S : i <= Gold(w)
  BY <1>1, <1>3, MaxIsGreatest DEF Gold
<1>5. \A i \in 1..Len(w) : w[i] # Indeterminate => w[i] \in S
  BY <1>2 DEF Valid
<1>6. ASSUME NEW i \in 1..Len(w)  PROVE w[i] <= Gold(w)
  <2>1. CASE w[i] = Indeterminate  BY <1>3, <1>4, <2>1, <1>1 DEF Indeterminate
  <2>2. CASE w[i] # Indeterminate  BY <1>4, <1>5, <2>2
  <2>3. QED  BY <2>1, <2>2
<1>7. \A i \in Valid(w) : i \in 1..Len(w)  BY <1>2 DEF Valid
<1>8. QED  BY <1>3, <1>4, <1>6, <1>7

\* A streak of n indeterminate measurements is the last n of the log.
LEMMA StreakIsLast ==
  ASSUME NEW w \in Seq(Counts), NEW n \in Nat, IndetStreak(w) >= n
  PROVE  /\ Len(w) >= n
         /\ \A i \in (Len(w) - n + 1)..Len(w) : w[i] = Indeterminate
<1> DEFINE S == {0} \cup Valid(w)
<1>1. DOMAIN w = 1..Len(w) /\ Len(w) \in Nat  BY LenProperties
<1>2. S \in SUBSET (0..Len(w)) /\ S # {}  BY <1>1 DEF Valid
<1>3. Max(S) \in S /\ \A i \in S : i <= Max(S)
  BY <1>1, <1>2, MaxIsGreatest
<1>4. Len(w) - Max(S) >= n  BY DEF IndetStreak
<1>5. Max(S) \in 0..Len(w)  BY <1>2, <1>3
<1>6. ASSUME NEW i \in (Len(w) - n + 1)..Len(w)  PROVE w[i] = Indeterminate
  <2>1. i \in 1..Len(w) /\ i > Max(S)  BY <1>1, <1>4, <1>5
  <2>2. ~ (i <= Max(S))  BY <1>1, <1>5, <2>1
  <2>3. i \notin S  BY <1>3, <2>2
  <2>4. QED  BY <1>1, <2>1, <2>3 DEF Valid
<1>7. QED  BY <1>1, <1>4, <1>5, <1>6
----------------------------------------------------------------------------
(* The invariant.                                                          *)

\* An empty run directory satisfies the invariant.
LEMMA LadderInit == Init => LadderInv
<1> SUFFICES ASSUME Init PROVE LadderInv  OBVIOUS
<1> USE LadderAssumption
<1>1. TypeOK
  <2>1. \A T : << >> \in Seq(T)  OBVIOUS
  <2>2. 0 \in 0..MaxRelaunch /\ 0 \in 0..MaxLadders /\ 0 \in 0..MaxMeasures
    BY DEF LadderAssumption
  <2>3. QED  BY <2>1, <2>2 DEF Init, TypeOK
<1>2. Len(Measures) = 0  BY DEF Init, Measures
<1> QED  BY <1>1, <1>2 DEF Init, LadderInv, Remembered, Alive, TypeOK

\* Steps that leave the measurements, the launch and the ladder's memory
\* alone, and make no child alive, keep the invariant.
LEMMA QuietKeeps ==
  ASSUME LadderInv, TypeOK', UNCHANGED <<log, rollouts, mark, lastProg>>,
         journal => journal', checkpoint' # checkpoint => journal',
         child' \in Alive => child \in Alive,
         child' \in {"run", "reported"} => journal'
  PROVE  LadderInv'
<1>1. Measures' = Measures  BY DEF Measures
<1>2. Remembered'  BY DEF LadderInv, Remembered, Alive
<1> QED  BY <1>1, <1>2 DEF LadderInv

\* A line in progress.jsonl.
LEMMA EmitTypes ==
  ASSUME TypeOK, NEW s \in Statuses, NEW b \in BOOLEAN, Emit(s, b)
  PROVE  progress' \in Seq([status : Statuses, solved : BOOLEAN])
<1>1. [status |-> s, solved |-> b] \in [status : Statuses, solved : BOOLEAN]
  OBVIOUS
<1> QED  BY <1>1, AppendProperties DEF TypeOK, Emit

\* A step of the child keeps the invariant.
LEMMA ChildKeeps == LadderInv /\ Child => LadderInv'
<1> SUFFICES ASSUME LadderInv, Child PROVE LadderInv'  OBVIOUS
<1> USE LadderAssumption
<1>0. TypeOK  BY DEF LadderInv
<1>1. CASE Boot
  <2>1. TypeOK'  BY <1>0, <1>1 DEF Boot, TypeOK
  <2>2. QED  BY <1>1, <2>1, QuietKeeps DEF Boot, Alive
<1>2. CASE Replay
  <2>1. TypeOK'  BY <1>0, <1>2 DEF Replay, TypeOK, dir
  <2>2. QED  BY <1>2, <2>1, QuietKeeps DEF Replay, Alive, dir, LadderInv
<1>3. CASE Bank
  <2>1. TypeOK'  BY <1>0, <1>3 DEF Bank, TypeOK
  <2>2. QED  BY <1>3, <2>1, QuietKeeps DEF Bank, Alive, LadderInv
<1>4. CASE Refute
  <2>1. TypeOK'  BY <1>0, <1>4 DEF Refute, TypeOK
  <2>2. QED  BY <1>4, <2>1, QuietKeeps DEF Refute, Alive, LadderInv
<1>5. CASE Seal \/ Exit
  <2>1. TypeOK'  BY <1>0, <1>5 DEF Seal, Exit, TypeOK, dir
  <2>2. QED  BY <1>5, <2>1, QuietKeeps DEF Seal, Exit, Alive, LadderInv, dir
<1>6. CASE Vanish
  <2>1. TypeOK'  BY <1>0, <1>6 DEF Vanish, TypeOK, dir
  <2>2. QED  BY <1>6, <2>1, QuietKeeps DEF Vanish, Alive, dir, LadderInv
<1>7. ASSUME NEW r \in {"infra", "unsolved", "solved"}, WriteReport(r)
      PROVE  LadderInv'
  <2>1. TypeOK'  BY <1>0, <1>7 DEF WriteReport, TypeOK
  <2>2. QED  BY <1>7, <2>1, QuietKeeps DEF WriteReport, Alive, LadderInv
<1>8. ASSUME NEW m \in Counts, Measure(m)  PROVE LadderInv'
  <2>1. /\ Append(log, m) \in Seq(Counts)
        /\ Append(rollouts, m) \in Seq(Counts)
        /\ Len(Append(log, m)) = Len(log) + 1
        /\ Len(Append(rollouts, m)) = Len(rollouts) + 1
        /\ Len(log) \in Nat /\ Len(rollouts) \in Nat
    BY <1>0, AppendProperties, LenProperties DEF TypeOK, Counts
  <2>2. TypeOK'
    BY <1>0, <1>8, <2>1 DEF Measure, TypeOK, Counts
  <2>3. /\ Len(log') <= MaxMeasures /\ Len(rollouts') <= MaxMeasures
        /\ mark' <= Len(Measures')
    BY <1>0, <1>8, <2>1 DEF Measure, LadderInv, Measures, TypeOK
  <2>4. Remembered'
    <3>1. CASE Mode = "C"
      <4>1. log' = Append(log, m) /\ mark' = mark /\ mark <= Len(log)
        BY <1>8, <3>1 DEF Measure, LadderInv, Measures
      <4>2. SubSeq(log', 1, mark) = SubSeq(log, 1, mark)
        BY <1>0, <4>1, <2>1 DEF TypeOK
      <4>3. QED
        BY <1>8, <3>1, <4>1, <4>2 DEF Measure, LadderInv, Remembered
    <3>2. CASE Mode # "C"  BY <3>2 DEF Remembered
    <3>3. QED  BY <3>1, <3>2
  <2>5. journal /\ journal'  BY <1>8 DEF Measure, LadderInv
  <2>6. QED  BY <2>2, <2>3, <2>4, <2>5 DEF LadderInv
<1>9. QED
  BY <1>1, <1>2, <1>3, <1>4, <1>5, <1>6, <1>7, <1>8 DEF Child, Counts

\* A launch keeps the invariant when the ladder forgets, or remembers the
\* frontier of this moment.
LEMMA StartKeeps ==
  ASSUME LadderInv, UNCHANGED dir, NEW i \in 0..MaxRelaunch,
         NEW q \in {None, Gold(Known)}, Start(i, q),
         q # None => journal,
         progress' \in Seq([status : Statuses, solved : BOOLEAN]),
         ladder' \in {"idle", "begin", "wait", "closed"},
         ladders' \in 0..MaxLadders
  PROVE  LadderInv'
<1> USE LadderAssumption
<1>1. TypeOK /\ UNCHANGED <<journal, log, rollouts, checkpoint, refuted,
                             report, sealed>>
  BY DEF LadderInv, dir
<1>2. log \in Seq(Counts) /\ rollouts \in Seq(Counts)
  BY <1>1 DEF TypeOK, Counts
<1>3. q \in {None} \cup 0..Total
  BY <1>2, GoldIsBest DEF Known
<1>4. Len(Measures) \in 0..MaxMeasures /\ Measures' = Measures
  BY <1>1, <1>2, LenProperties DEF LadderInv, Measures
<1>5. TypeOK'  BY <1>1, <1>3, <1>4 DEF TypeOK, Start
<1>6. SubSeq(log, 1, Len(log)) = log  BY <1>2
<1>7. Remembered'
  <2>1. CASE Mode = "C" /\ q # None
    <3>1. lastProg' = Gold(log) /\ mark' = Len(log) /\ log' = log
      BY <1>1, <2>1 DEF Start, Known, Measures
    <3>2. QED  BY <1>6, <3>1 DEF Remembered
  <2>2. CASE Mode # "C" \/ q = None  BY <2>2 DEF Remembered, Start
  <2>3. QED  BY <2>1, <2>2
<1>8. child' = "boot" /\ mark' = Len(Measures)  BY DEF Start
<1>9. mark' <= Len(Measures')  BY <1>4, <1>8
<1>10. QED  BY <1>1, <1>5, <1>7, <1>8, <1>9 DEF LadderInv

\* A step of the ladder keeps the invariant.
LEMMA RunnerKeeps ==
  LadderInv /\ (Runner \/ Invoke \/ LadderKilled) => LadderInv'
<1> SUFFICES ASSUME LadderInv, Runner \/ Invoke \/ LadderKilled
             PROVE  LadderInv'
  OBVIOUS
<1> USE LadderAssumption
<1>0. TypeOK  BY DEF LadderInv
<1>a. \A s \in Statuses : \A b \in BOOLEAN :
        Emit(s, b) => progress' \in Seq([status : Statuses, solved : BOOLEAN])
  BY <1>0, EmitTypes
<1>b. checkpoint \in BOOLEAN /\ (report = "solved") \in BOOLEAN
      /\ (report = "solved" \/ checkpoint) \in BOOLEAN
  BY <1>0 DEF TypeOK
<1>c. Action \in {"relaunch", "plateau_cut", "indeterminate", "error"}
  BY DEF Action
<1>1. CASE Skip
  <2>1. progress' \in Seq([status : Statuses, solved : BOOLEAN])
    BY <1>1, <1>a, <1>b DEF Skip, Statuses
  <2>2. TypeOK'  BY <1>0, <1>1, <2>1 DEF Skip, TypeOK, dir
  <2>3. QED  BY <1>1, <2>2, QuietKeeps DEF Skip, dir, LadderInv
<1>2. CASE DiskFull
  <2>1. progress' \in Seq([status : Statuses, solved : BOOLEAN])
    BY <1>2, <1>a DEF DiskFull, Statuses
  <2>2. TypeOK'  BY <1>0, <1>2, <2>1 DEF DiskFull, TypeOK, dir
  <2>3. QED  BY <1>2, <2>2, QuietKeeps DEF DiskFull, dir, LadderInv
<1>3. CASE Returned
  <2>1. progress' \in Seq([status : Statuses, solved : BOOLEAN])
    BY <1>3, <1>a, <1>b DEF Returned, Statuses
  <2>2. TypeOK'  BY <1>0, <1>3, <2>1 DEF Returned, TypeOK, dir
  <2>3. QED  BY <1>3, <2>2, QuietKeeps DEF Returned, dir, LadderInv
<1>4. CASE NoJournal
  <2>1. progress' \in Seq([status : Statuses, solved : BOOLEAN])
    BY <1>4, <1>a DEF NoJournal, Statuses
  <2>2. TypeOK'  BY <1>0, <1>4, <2>1 DEF NoJournal, TypeOK, dir
  <2>3. QED  BY <1>4, <2>2, QuietKeeps DEF NoJournal, dir, Alive
<1>5. CASE Cut
  <2>1. progress' \in Seq([status : Statuses, solved : BOOLEAN])
    BY <1>5, <1>a, <1>c DEF Cut, Statuses
  <2>2. TypeOK'  BY <1>0, <1>5, <2>1 DEF Cut, TypeOK, dir
  <2>3. QED  BY <1>5, <2>2, QuietKeeps DEF Cut, dir, Alive
<1>6. CASE LadderKilled
  <2>1. TypeOK'  BY <1>0, <1>6 DEF LadderKilled, TypeOK, dir
  <2>2. QED  BY <1>6, <2>1, QuietKeeps DEF LadderKilled, dir, Alive
<1>7. CASE Invoke
  <2>a. MaxRelaunch \in Nat /\ MaxLadders \in Nat  OBVIOUS
  <2>b. attempt' \in 0..MaxRelaunch /\ ladders' \in 0..MaxLadders
    BY <1>0, <1>7, <2>a DEF Invoke, TypeOK
  <2>1. TypeOK'  BY <1>0, <1>7, <2>b DEF Invoke, TypeOK, dir
  <2>2. Measures' = Measures /\ Remembered'
    BY <1>7 DEF Invoke, Measures, dir, Remembered, Alive
  <2>3. QED  BY <1>7, <2>1, <2>2 DEF Invoke, LadderInv, dir
<1>8. CASE Launch
  <2>1. /\ UNCHANGED dir /\ Start(0, None) /\ ladder' = "wait"
        /\ progress' = progress /\ ladders' = ladders
    BY <1>8 DEF Launch
  <2>2. 0 \in 0..MaxRelaunch  OBVIOUS
  <2>3. QED  BY <1>0, <2>1, <2>2, StartKeeps DEF TypeOK
<1>9. CASE Relaunch
  <2>1. progress' \in Seq([status : Statuses, solved : BOOLEAN])
    BY <1>9, <1>a DEF Relaunch, Statuses
  <2>2. /\ UNCHANGED <<dir, ladder, ladders>> /\ journal
    BY <1>9 DEF Relaunch
  <2>3. CASE attempt < MaxRelaunch
    <3>1. Start(attempt + 1, Gold(Known))  BY <1>9, <2>3 DEF Relaunch
    <3>2. attempt + 1 \in 0..MaxRelaunch  BY <1>0, <2>3 DEF TypeOK
    <3>3. ladder' \in {"idle", "begin", "wait", "closed"}
          /\ ladders' \in 0..MaxLadders
      BY <1>0, <2>2 DEF TypeOK
    <3>4. QED  BY <2>1, <2>2, <3>1, <3>2, <3>3, StartKeeps
  <2>4. CASE ~ (attempt < MaxRelaunch)
    <3>1. /\ child' = "exited" /\ lastProg' = Gold(Known)
          /\ UNCHANGED <<holds, attempt, mark>>
      BY <1>9, <2>4 DEF Relaunch
    <3>2. Gold(Known) \in 0..Total
      BY <1>0, GoldIsBest DEF Known, TypeOK, Counts
    <3>3. TypeOK'  BY <1>0, <2>1, <2>2, <3>1, <3>2 DEF TypeOK, dir
    <3>4. Measures' = Measures /\ Remembered'
      BY <2>2, <3>1 DEF Measures, dir, Remembered, Alive
    <3>5. QED  BY <2>2, <3>1, <3>3, <3>4 DEF LadderInv, dir
  <2>5. QED  BY <2>3, <2>4
<1>10. QED
  BY <1>1, <1>2, <1>3, <1>4, <1>5, <1>6, <1>7, <1>8, <1>9 DEF Runner

\* Every step keeps the invariant.
LEMMA LadderInvNext == LadderInv /\ [Next]_vars => LadderInv'
<1> SUFFICES ASSUME LadderInv, [Next]_vars PROVE LadderInv'  OBVIOUS
<1>1. CASE Next  BY <1>1, ChildKeeps, RunnerKeeps DEF Next
<1>2. CASE UNCHANGED vars
  BY <1>2 DEF vars, dir, LadderInv, TypeOK, Measures, Remembered
<1>3. QED  BY <1>1, <1>2
----------------------------------------------------------------------------
(* The theorems.                                                           *)

\* Every state of the ladder and of the run directory satisfies LadderInv.
THEOREM LadderInvariant == Spec => []LadderInv
<1> QED  BY LadderInit, LadderInvNext, PTL DEF Spec

\* The run directory, the child and the ladder keep their types: the
\* relaunches and the measurements stay within their bounds.
THEOREM LadderTypes == Spec => []TypeOK
<1>1. LadderInv => TypeOK  BY DEF LadderInv
<1> QED  BY <1>1, LadderInvariant, PTL

\* The status of a line that a step adds.
LEMMA EmittedStatus ==
  ASSUME TypeOK, NEW s \in Statuses, NEW b \in BOOLEAN, Emit(s, b)
  PROVE  Last(progress').status = s /\ Last(progress').solved = b
<1> DEFINE r == [status |-> s, solved |-> b]
<1>1. progress' = Append(progress, r)  BY DEF Emit
<1>2. progress \in Seq([status : Statuses, solved : BOOLEAN])
  BY DEF TypeOK
<1>3. r \in [status : Statuses, solved : BOOLEAN]  OBVIOUS
<1>4. /\ Len(progress') = Len(progress) + 1
      /\ progress'[Len(progress) + 1] = r
  BY <1>1, <1>2, <1>3, AppendProperties
<1>5. QED  BY <1>4 DEF Last

\* Which steps write a line that closes a cell that was run.
LEMMA ClosingSteps ==
  ASSUME LadderInv, [Next]_vars,
         Emits(Statuses \ {"relaunch", "skip", "skip_diskfull"})
  PROVE  \/ Returned /\ Last(progress').status = "done"
         \/ NoJournal /\ Last(progress').status = "error"
         \/ Cut /\ ~checkpoint /\ Last(progress').status = Action
         \/ Cut /\ checkpoint /\ Last(progress').status = "done"
<1>0. TypeOK  BY DEF LadderInv
<1>1. progress' # progress
      /\ Last(progress').status \notin {"relaunch", "skip", "skip_diskfull"}
  BY DEF Emits
<1>2. ~ UNCHANGED vars  BY <1>1 DEF vars
<1>3. ~ Child
  BY <1>1 DEF Child, Boot, Replay, Bank, Refute, Seal, Exit, Vanish, Measure,
              WriteReport
<1>4. ~ Invoke /\ ~ LadderKilled /\ ~ Launch
  BY <1>1 DEF Invoke, LadderKilled, Launch
<1>5. ~ Skip /\ ~ DiskFull /\ ~ Relaunch
  <2>1. Skip => Last(progress').status = "skip"
    BY <1>0, EmittedStatus DEF Skip, Statuses
  <2>2. DiskFull => Last(progress').status = "skip_diskfull"
    BY <1>0, EmittedStatus DEF DiskFull, Statuses
  <2>3. Relaunch => Last(progress').status = "relaunch"
    BY <1>0, EmittedStatus DEF Relaunch, Statuses
  <2>4. QED  BY <1>1, <2>1, <2>2, <2>3
<1>6. CASE Returned
  <2>1. checkpoint \in BOOLEAN  BY <1>0 DEF TypeOK
  <2>2. QED  BY <1>0, <1>6, <2>1, EmittedStatus DEF Returned, Statuses
<1>7. CASE NoJournal
  BY <1>0, <1>7, EmittedStatus DEF NoJournal, Statuses
<1>8. CASE Cut
  <2>1. Action \in Statuses  BY DEF Action, Statuses
  <2>2. CASE checkpoint
    BY <1>0, <1>8, <2>2, EmittedStatus DEF Cut, Statuses
  <2>3. CASE ~checkpoint
    BY <1>0, <1>8, <2>1, <2>3, EmittedStatus DEF Cut
  <2>4. QED  BY <2>2, <2>3
<1>9. QED  BY <1>2, <1>3, <1>4, <1>5, <1>6, <1>7, <1>8 DEF Next, Runner

\* For every ceiling, a cell is given up as a harness stall only when its
\* last IndetCeil journaled measurements were all indeterminate.
THEOREM StallIsAWall == Spec => HarnessCutIsAWall
<1> DEFINE Wall ==
      Emits({"indeterminate"}) =>
        /\ Len(log) >= IndetCeil
        /\ \A i \in (Len(log) - IndetCeil + 1)..Len(log) :
             log[i] = Indeterminate
<1>1. LadderInv /\ [Next]_vars => Wall
  <2> SUFFICES ASSUME LadderInv, [Next]_vars, Emits({"indeterminate"})
               PROVE  /\ Len(log) >= IndetCeil
                      /\ \A i \in (Len(log) - IndetCeil + 1)..Len(log) :
                           log[i] = Indeterminate
    OBVIOUS
  <2>1. Cut /\ Action = "indeterminate"
    BY ClosingSteps DEF Emits, Statuses
  <2>2. IndetStreak(Known) >= IndetCeil /\ Known = log
    BY <2>1 DEF Action, PlateauVerdict, Cut, Known
  <2>3. log \in Seq(Counts) /\ IndetCeil \in Nat
    BY LadderAssumption DEF LadderInv, TypeOK, Counts
  <2>4. QED  BY <2>2, <2>3, StreakIsLast
<1>2. QED
  BY <1>1, LadderInvariant, PTL DEF Spec, HarnessCutIsAWall

\* For every window, budget and number of relaunches, an orchestrator cell
\* whose gold count rose during its last child is not cut.
THEOREM ClimbingIsKept == Mode = "C" => (Spec => ClimbingIsNotCut)
<1> SUFFICES ASSUME Mode = "C" PROVE Spec => ClimbingIsNotCut
  OBVIOUS
<1> DEFINE Keep ==
      Emits({"plateau_cut", "indeterminate", "error"}) => ~Climbed
<1>1. LadderInv /\ [Next]_vars => Keep
  <2> SUFFICES ASSUME LadderInv, [Next]_vars,
                      Emits({"plateau_cut", "indeterminate", "error"}), Climbed
               PROVE  FALSE
    OBVIOUS
  <2>1. \/ NoJournal
        \/ Cut /\ ~checkpoint
    BY ClosingSteps DEF Emits, Statuses
  <2>2. log \in Seq(Counts) /\ mark \in Nat /\ Len(log) \in Nat
    BY LenProperties DEF LadderInv, TypeOK, Counts
  <2>3. Measures = log /\ mark <= Len(log)  BY DEF LadderInv, Measures
  <2>4. PICK i \in (mark + 1)..Len(log) :
          log[i] > 0 /\ \A j \in 1..mark : log[i] > log[j]
    BY <2>3 DEF Climbed
  <2>5. log # <<>>  BY <2>2, <2>4
  <2>6. journal /\ Cut  BY <2>1, <2>5 DEF LadderInv, NoJournal, Cut
  <2>7. /\ lastProg # None /\ ~ (Gold(log) > lastProg)
        /\ child \in Alive
    BY <2>6 DEF Cut, Action, Known, Killed, Alive
  <2> DEFINE old == SubSeq(log, 1, mark)
  <2>8. lastProg = Gold(old)  BY <2>7 DEF LadderInv, Remembered
  <2>9. /\ old \in Seq(Counts) /\ Len(old) = mark
        /\ \A j \in 1..mark : old[j] = log[j]
    BY <2>2, <2>3
  <2> HIDE DEF old
  <2>10. /\ Gold(old) = 0 \/ \E j \in 1..Len(old) : old[j] = Gold(old)
         /\ Gold(old) \in 0..Total
    BY <2>9, GoldIsBest
  <2>11. log[i] > Gold(old)  BY <2>4, <2>9, <2>10
  <2>12. i \in 1..Len(log)  BY <2>2, <2>4
  <2>13. log[i] <= Gold(log) /\ Gold(log) \in 0..Total
    BY <2>2, <2>12, GoldIsBest
  <2>14. log[i] \in Int /\ Total \in Nat
    BY <2>2, <2>12, LadderAssumption DEF Counts, Indeterminate
  <2>15. QED  BY <2>7, <2>8, <2>10, <2>11, <2>13, <2>14
<1>2. QED
  BY <1>1, LadderInvariant, PTL DEF Spec, ClimbingIsNotCut

\* A cell that was run and is closed with a checkpoint on disk is closed as
\* solved.
THEOREM BankedIsReported == Spec => BankedSolveIsReported
<1> DEFINE Keep ==
      Emits(Statuses \ {"relaunch", "skip", "skip_diskfull"}) /\ checkpoint
        => Last(progress').solved
<1>1. LadderInv /\ [Next]_vars => Keep
  <2> SUFFICES ASSUME LadderInv, [Next]_vars, checkpoint,
                 Emits(Statuses \ {"relaunch", "skip", "skip_diskfull"})
               PROVE  Last(progress').solved
    OBVIOUS
  <2>0. TypeOK  BY DEF LadderInv
  <2>1. journal
    BY DEF LadderInv
  <2>2. Returned \/ Cut
    BY <2>1, ClosingSteps DEF NoJournal
  <2>3. QED
    BY <2>0, <2>2, EmittedStatus DEF Returned, Cut, Statuses, TypeOK
<1>2. QED
  BY <1>1, LadderInvariant, PTL DEF Spec, BankedSolveIsReported
=============================================================================
