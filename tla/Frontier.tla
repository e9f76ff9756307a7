------------------------------ MODULE Frontier ------------------------------
(***************************************************************************)
(* The solve-progress frontier that a later process reads from the disk:   *)
(* frontier_from_wal, FrontierState.as_state, w_meas_effective and         *)
(* plateau_verdict (apex_omega/engine/frontier.py), as operators on the    *)
(* sequence of the journaled measurements of a cell.  A measurement is the *)
(* number of gold tests that pass, or Indeterminate when it is no real     *)
(* test outcome.                                                           *)
(***************************************************************************)
EXTENDS Integers, Sequences, FiniteSetsExt

Indeterminate == -1
NoBudget == 0        \* an arm without an attempt budget

\* The positions of the valid measurements.
Valid(log) == {i \in DOMAIN log : log[i] # Indeterminate}

\* Mutated form: the last valid measurement is the frontier.
GoldLast(log) == IF Valid(log) = {} THEN 0 ELSE log[Max(Valid(log))]

\* The best gold count so far; a dip below it is a dry sample.
Gold(log) == Max({0} \cup {log[i] : i \in Valid(log)})

\* Valid measurements since the best was first reached.
Since(log) ==
  LET best == {i \in Valid(log) : \A j \in Valid(log) : log[j] <= log[i]}
  IN  IF best = {} THEN 0
      ELSE Cardinality({i \in Valid(log) : i > Min(best)})

\* Mutated form: a valid measurement does not end the streak.
StreakEver(log) == Cardinality(DOMAIN log \ Valid(log))

\* Indeterminate measurements since the last valid one.
IndetStreak(log) == Len(log) - Max({0} \cup Valid(log))

\* as_state takes the seconds from two epochs that frontier_from_wal never
\* sets: journal records carry no wall clock.
Seconds(log) == 0

\* The window of valid measurements, scaled down for an arm that may only
\* take budget attempts: ceil(0.6 * budget), no less than 3.
Window(global, budget) ==
  IF budget = NoBudget THEN global
  ELSE Min({global, Max({3, (6 * budget + 9) \div 10})})

PlateauVerdict(log, window, wall, ceiling) ==
  IF IndetStreak(log) >= ceiling THEN "indeterminate-cut"
  ELSE IF Valid(log) # {} /\ Since(log) >= window /\ Seconds(log) >= wall
       THEN "plateau-cut"
  ELSE "continue"
=============================================================================
