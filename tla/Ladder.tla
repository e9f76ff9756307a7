------------------------------- MODULE Ladder -------------------------------
(***************************************************************************)
(* One cell of the comparison ladder (scripts/run_ladder.py): the ladder   *)
(* process runs the evaluation of the cell as a child process, kills it at *)
(* a timeout, relaunches it on the same directory or cuts it, and writes   *)
(* what became of it into progress.jsonl.  The ladder may itself be killed *)
(* and invoked again.  The directory survives everything: the journal with *)
(* its measurements, the acceptance checkpoint and the report.             *)
(*                                                                         *)
(* A cell has at most one accepted candidate here.  A kill of the ladder   *)
(* takes the child with it; a child left behind is not modelled.           *)
(***************************************************************************)
EXTENDS Frontier, SequencesExt

CONSTANTS
  Mode,         \* "C": an orchestrator in the child; "A": best of N, in a
                \* process of its own under the child
  Total,        \* gold tests of the repository: all of them is a solve
  MaxRelaunch,  \* LADDER_MAX_RELAUNCH
  WMeas,        \* window of valid measurements (W_MEAS)
  WTime,        \* window of seconds (W_TIME), one per valid measurement
  IndetCeil,    \* ceiling of indeterminate measurements (INDET_CEIL)
  Budget,       \* attempts the arm may take, or NoBudget
  MaxMeasures,  \* bound: measurements of the cell
  MaxLadders    \* bound: invocations of the ladder

ASSUME LadderAssumption ==
  /\ Mode \in {"A", "C"}
  /\ {Total, WMeas, WTime, IndetCeil, MaxLadders} \subseteq Nat \ {0}
  /\ {MaxRelaunch, Budget, MaxMeasures} \subseteq Nat

None == -1   \* last_prog = None

VARIABLES
  \* the run directory
  journal,     \* calls_wal.jsonl exists
  log,         \* scores in it
  rollouts,    \* scores the best-of-N process left beside it
  checkpoint,  \* accepted_checkpoint.json
  refuted,     \* journaled: skeptics refuted the accepted candidate
  report,      \* the cell report: none, infra, unsolved or solved
  sealed,      \* journaled: the cell has a result
  progress,    \* progress.jsonl
  \* the child
  child,       \* none, boot, run, reported, exited
  holds,       \* this process has the accepted candidate
  \* the ladder process
  ladder,      \* idle (not invoked, or killed), begin, wait, closed
  attempt,     \* index of the child launched
  lastProg,    \* last_prog
  \* history
  ladders,     \* ladder processes so far
  mark         \* measurements there were when the child was launched

dir == <<journal, log, rollouts, checkpoint, refuted, report, sealed>>
vars == <<dir, progress, child, holds, ladder, attempt, lastProg, ladders,
          mark>>

Measures == IF Mode = "C" THEN log ELSE rollouts
Solved == Total \in ToSet(Measures)

Init ==
  /\ journal = FALSE /\ log = <<>> /\ rollouts = <<>>
  /\ checkpoint = FALSE /\ refuted = FALSE
  /\ report = "none" /\ sealed = FALSE /\ progress = <<>>
  /\ child = "none" /\ holds = FALSE
  /\ ladder = "idle" /\ attempt = 0 /\ lastProg = None
  /\ ladders = 0 /\ mark = 0
----------------------------------------------------------------------------
(* The child.                                                              *)

\* The engine opens its journal and the cell is looked up in it: a result
\* that is already there is all there is to do.
Boot ==
  /\ child = "boot"
  /\ journal' = TRUE
  /\ child' = IF sealed THEN "reported" ELSE "run"
  /\ UNCHANGED <<log, rollouts, checkpoint, refuted, report, sealed, progress,
                 holds, ladder, attempt, lastProg, ladders, mark>>

\* A fresh measurement.  In mode C it is journaled; the best-of-N process
\* only leaves its own status files.
Measure(m) ==
  /\ child = "run" /\ ~Solved /\ Len(Measures) < MaxMeasures
  /\ IF Mode = "C"
     THEN log' = Append(log, m) /\ UNCHANGED rollouts
     ELSE rollouts' = Append(rollouts, m) /\ UNCHANGED log
  /\ holds' = (m = Total)
  /\ UNCHANGED <<journal, checkpoint, refuted, report, sealed, progress, child,
                 ladder, attempt, lastProg, ladders, mark>>

\* A relaunched child replays the attempt whose score accepted it.
Replay ==
  /\ child = "run" /\ Solved /\ ~holds
  /\ holds' = TRUE
  /\ UNCHANGED <<dir, progress, child, ladder, attempt, lastProg, ladders,
                 mark>>

\* _checkpoint_accepted, before the attempt returns its candidate.
Bank ==
  /\ child = "run" /\ Mode = "C" /\ holds /\ ~checkpoint
  /\ checkpoint' = TRUE
  /\ UNCHANGED <<journal, log, rollouts, refuted, report, sealed, progress,
                 child, holds, ladder, attempt, lastProg, ladders, mark>>

\* adversarial_verify: the candidate that was returned loses its accept.
Refute ==
  /\ child = "run" /\ Mode = "C" /\ holds /\ checkpoint /\ ~refuted
  /\ refuted' = TRUE
  /\ UNCHANGED <<journal, log, rollouts, checkpoint, report, sealed, progress,
                 child, holds, ladder, attempt, lastProg, ladders, mark>>

\* The report is written: a solve by the accepted candidate that was not
\* refuted; no solve, also when the orchestration fails after an accept; or,
\* in mode C, the error of a cell that could not be run.
WriteReport(r) ==
  /\ child = "run"
  /\ Mode = "C" /\ holds => checkpoint
  /\ r = "solved" => holds /\ ~refuted
  /\ r = "infra" => Mode = "C"
  /\ report' = r
  /\ child' = "reported"
  /\ UNCHANGED <<journal, log, rollouts, checkpoint, refuted, sealed, progress,
                 holds, ladder, attempt, lastProg, ladders, mark>>

\* The result is journaled, unless it is an error.
Seal ==
  /\ child = "reported" /\ report # "infra" /\ ~sealed
  /\ sealed' = TRUE
  /\ UNCHANGED <<journal, log, rollouts, checkpoint, refuted, report, progress,
                 child, holds, ladder, attempt, lastProg, ladders, mark>>

\* The child returns.
Exit ==
  /\ child = "reported" /\ (sealed \/ report = "infra")
  /\ child' = "exited"
  /\ UNCHANGED <<dir, progress, holds, ladder, attempt, lastProg, ladders, mark>>

\* The child ends without a report.
Vanish ==
  /\ child \in {"boot", "run", "reported"}
  /\ child' = "exited"
  /\ UNCHANGED <<dir, progress, holds, ladder, attempt, lastProg, ladders, mark>>
----------------------------------------------------------------------------
(* The ladder: run_cell.                                                   *)

Emit(status, solved) ==
  progress' = Append(progress, [status |-> status, solved |-> solved])

Start(i, prog) ==
  /\ child' = "boot" /\ holds' = FALSE
  /\ attempt' = i /\ lastProg' = prog
  /\ mark' = Len(Measures)

\* The ladder is invoked, first or again.
Invoke ==
  /\ ladder \in {"idle", "closed"} /\ ladders < MaxLadders
  /\ ladder' = "begin" /\ ladders' = ladders + 1
  /\ child' = "none" /\ holds' = FALSE /\ attempt' = 0 /\ lastProg' = None
  /\ UNCHANGED <<dir, progress, mark>>

\* A cell with a report, whatever it says, is not run again.
Skip ==
  /\ ladder = "begin" /\ report # "none"
  /\ Emit("skip", report = "solved")
  /\ ladder' = "closed"
  /\ UNCHANGED <<dir, child, holds, attempt, lastProg, ladders, mark>>

DiskFull ==
  /\ ladder = "begin" /\ report = "none"
  /\ Emit("skip_diskfull", FALSE)
  /\ ladder' = "closed"
  /\ UNCHANGED <<dir, child, holds, attempt, lastProg, ladders, mark>>

Launch ==
  /\ ladder = "begin" /\ report = "none"
  /\ Start(0, None)
  /\ ladder' = "wait"
  /\ UNCHANGED <<dir, progress, ladders>>

\* Mutated form: the checkpoint is consulted on kills only.
ReturnedTrusting ==
  /\ ladder = "wait" /\ child = "exited"
  /\ Emit("done", report = "solved")
  /\ ladder' = "closed"
  /\ UNCHANGED <<dir, child, holds, attempt, lastProg, ladders, mark>>

\* After the loop: the report is parsed, and a checkpoint makes up for one
\* that says unsolved, or for none.
Returned ==
  /\ ladder = "wait" /\ child = "exited"
  /\ Emit("done", report = "solved" \/ checkpoint)
  /\ ladder' = "closed"
  /\ UNCHANGED <<dir, child, holds, attempt, lastProg, ladders, mark>>

\* Mutated form: a child that has not come up is waited for without limit.
KilledOnceUp == ladder = "wait" /\ child \in {"run", "reported"}

\* The timeout kills a child that still runs.
Killed == ladder = "wait" /\ child \in {"boot", "run", "reported"}

NoJournal ==
  /\ Killed /\ ~journal
  /\ Emit("error", FALSE)
  /\ ladder' = "closed" /\ child' = "none"
  /\ UNCHANGED <<dir, holds, attempt, lastProg, ladders, mark>>

\* frontier_state: with a journal, the frontier is read from the journal.
Known == IF journal THEN log ELSE rollouts

\* relaunch_decision.
Action ==
  LET verdict == PlateauVerdict(Known, Window(WMeas, Budget), WTime, IndetCeil)
  IN  IF lastProg = None \/ Gold(Known) > lastProg THEN "relaunch"
      ELSE IF verdict = "plateau-cut" THEN "plateau_cut"
      ELSE IF verdict = "indeterminate-cut" THEN "indeterminate"
      ELSE IF attempt >= MaxRelaunch THEN "error"
      ELSE "relaunch"

\* After the last attempt the loop ends, and with it the cell: see Returned.
Relaunch ==
  /\ Killed /\ journal /\ Action = "relaunch"
  /\ Emit("relaunch", FALSE)
  /\ IF attempt < MaxRelaunch
     THEN Start(attempt + 1, Gold(Known))
     ELSE /\ child' = "exited" /\ lastProg' = Gold(Known)
          /\ UNCHANGED <<holds, attempt, mark>>
  /\ UNCHANGED <<dir, ladder, ladders>>

\* A cut, unless there is a checkpoint.
Cut ==
  /\ Killed /\ journal /\ Action # "relaunch"
  /\ IF checkpoint THEN Emit("done", TRUE) ELSE Emit(Action, FALSE)
  /\ ladder' = "closed" /\ child' = "none"
  /\ UNCHANGED <<dir, holds, attempt, lastProg, ladders, mark>>

\* The ladder and its child are killed.
LadderKilled ==
  /\ ladder \in {"begin", "wait"}
  /\ ladder' = "idle" /\ child' = "none"
  /\ UNCHANGED <<dir, progress, holds, attempt, lastProg, ladders, mark>>
----------------------------------------------------------------------------
Child ==
  \/ Boot \/ Replay \/ Bank \/ Refute \/ Seal \/ Exit \/ Vanish
  \/ \E m \in {Indeterminate} \cup 0..Total : Measure(m)
  \/ \E r \in {"infra", "unsolved", "solved"} : WriteReport(r)

Runner ==
  \/ Skip \/ DiskFull \/ Launch \/ Returned \/ NoJournal \/ Relaunch \/ Cut

Next == Child \/ Runner \/ Invoke \/ LadderKilled

Spec == Init /\ [][Next]_vars

\* The ladder takes its steps: a child that does not return is killed.
FairSpec == Spec /\ WF_vars(Runner)
----------------------------------------------------------------------------
Statuses ==
  {"skip", "skip_diskfull", "done", "relaunch", "plateau_cut",
   "indeterminate", "error"}

\* Types.
TypeOK ==
  /\ journal \in BOOLEAN /\ checkpoint \in BOOLEAN /\ refuted \in BOOLEAN
  /\ sealed \in BOOLEAN /\ holds \in BOOLEAN
  /\ log \in Seq({Indeterminate} \cup 0..Total)
  /\ rollouts \in Seq({Indeterminate} \cup 0..Total)
  /\ report \in {"none", "infra", "unsolved", "solved"}
  /\ progress \in Seq([status : Statuses, solved : BOOLEAN])
  /\ child \in {"none", "boot", "run", "reported", "exited"}
  /\ ladder \in {"idle", "begin", "wait", "closed"}
  /\ attempt \in 0..MaxRelaunch
  /\ lastProg \in {None} \cup 0..Total
  /\ ladders \in 0..MaxLadders
  /\ mark \in 0..MaxMeasures

Emits(S) == progress' # progress /\ Last(progress').status \in S

\* A cell that was run and is closed with a checkpoint on disk is closed as
\* solved, whatever the report, the frontier gate or the kill said
\* (_recover_checkpoint on both paths of run_cell).
BankedSolveIsReported ==
  [][Emits(Statuses \ {"relaunch", "skip", "skip_diskfull"}) /\ checkpoint
       => Last(progress').solved]_vars

\* One of the measurements since the child was launched beats all earlier
\* ones.
Climbed ==
  \E i \in (mark + 1)..Len(Measures) :
    Measures[i] > 0 /\ \A j \in 1..mark : Measures[i] > Measures[j]

\* A cell whose gold count rose during its last child is not cut
\* (relaunch_decision: a rising frontier always wins).
ClimbingIsNotCut ==
  [][Emits({"plateau_cut", "indeterminate", "error"}) => ~Climbed]_vars

\* A cell is given up as a harness stall only when its last IndetCeil
\* measurements, over all its children, were all indeterminate.
HarnessCutIsAWall ==
  [][Emits({"indeterminate"}) =>
       /\ Len(log) >= IndetCeil
       /\ \A i \in (Len(log) - IndetCeil + 1)..Len(log) :
            log[i] = Indeterminate]_vars

\* Every cell the ladder takes up is closed, or the ladder itself is killed,
\* even if no child ever returns.
EveryCellCloses == ladder \in {"begin", "wait"} ~> ladder \in {"closed", "idle"}

\* What the ladder says of plateaus: a cell that is killed with both windows
\* over is not launched again.  Every valid measurement takes a second.
PlateauIsCut ==
  [][Emits({"relaunch"}) /\ lastProg # None /\ ~Climbed
       => Since(Measures) < WMeas \/ Since(Measures) < WTime]_vars

\* What the evaluation says of an infrastructure failure: to run again is to
\* retry the cell.
InfraIsRetried == [][Emits({"skip"}) => report # "infra"]_vars
=============================================================================
