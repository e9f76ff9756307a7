# APEX-Omega: models, checks and proofs

This directory holds a TLA+ development of three parts of the repository:

* `src/apex_omega`, the orchestration layer: the journaled engine that runs coding
  agents, the wave governor that stops a fruitless run, the acceptance
  checkpoint, and the script that splits a repository into modules and lets the
  repairs of their failures converge;
* `src/scripts/run_ladder.py`, which drives it: the ladder that kills, relaunches
  and closes the cells of an evaluation;
* the concurrent core of APEX v1 in `src/apex/rollout`: the scheduler of rollouts,
  its pool of worktrees, and the locks of workspaces that several engines share.

Paths below are relative to `src/apex_omega` unless they start with `src/`.

Every definition is translated from the Python code; what a comment or a
document claims is stated as a property.  Where the code and the claim part,
either a listed run shows it as a violation, or the disagreement is described
under "Other disagreements", with the configuration that shows it.

## 1. Inventory

### The parts

| part | code | state it keeps | operations |
|---|---|---|---|
| call journal | `journal/wal.py`, `journal/resume.py`, `journal/key.py` | on disk `calls_wal.jsonl` and diff blobs; in memory the index of ok records, the in-flight set, the next seq, the agent tally | open and recover, lookup, begin, commit, `get_or_run` |
| engine | `engine/runtime.py`, `engine/budget.py` | agent tally, semaphore of worker slots, abandoned workers with their reapers, token budget | `agent`, `parallel`, `pipeline` |
| context | `autogen/context.py` | candidates, the attempt counter, the detector, the wave counter, the halt flag | attempts, repairs, questions, waves, polls, nested workflows, decomposition and reduction, selection |
| default orchestration | `autogen/templates.py` | the carry, the residual, the round | fan-out over modules, reduce, repair loop, verification |
| governor | `engine/governor.py` | thresholds only | `can_start`, `verdict` |
| frontier gate | `engine/frontier.py` | none (rebuilt from a journal or from rollout files) | `frontier_from_wal`, `plateau_verdict`, `w_meas_effective` |
| selection kernel | `kernel/select.py`, `kernel/verify.py` | fields of candidates | rank, select or abstain, refute |
| isolation | `isolation/worktree.py` | worktrees, one lock file per rollout | acquire, release, `apply_diff` |
| patterns | `patterns/*.py` | none | judge, tournament, refute, synthesize, loop until dry, ... |
| architect | `autogen/architect.py`, `sandbox.py`, `catalog.py` | an authored script | scout, author, run, floor, rescue |
| executors | `executor/*.py` | vendor sessions | spawn, run |
| cell evaluation | `eval/*.py` | the report of a cell, its checkpoint, its journaled result | `run_cell`, `run_autogen_cell`, scoring |
| ladder | `src/scripts/run_ladder.py` | `progress.jsonl`; in memory the attempt index and the last frontier | `run_cell`, `relaunch_decision`, `main` |
| workspace manager | `src/apex/rollout/engine.py` (`GitWorktreeManager`) | `rollout_<id>` directories, a lock file and an flock for each, the registered descriptors | `create_worktree`, `remove_worktree`, `cleanup_all` |
| rollout scheduler | `src/apex/rollout/engine.py` (`execute_rollout_requests`) | pending requests, futures, deferred and quarantined rollouts, results; status files on disk | dispatch, reap, stall kill, emergency cap, preemption, drain, recovery |
| worktree pool | `src/apex/rollout/worktree_pool.py` | entries and leases of `_pool/pool_<i>` | acquire, reset, release, quarantine, promote, cleanup |
| others | `ablation`, `workflows`, `cli.py`, `types.py`, `errors.py`, `schema_validate.py`, the reporting scripts | configuration and data classes | |
| rest of APEX v1 | `src/apex/` | orchestration of waves, planning, selection, verification, evaluation, command-line clients | used as a library by the above |

### How they interact

An orchestration script calls the context.  `ctx.parallel` hands thunks to
`Engine.parallel`, a barrier over a thread pool.  Each thunk acquires a
worktree, calls `Engine.agent` and scores what the worker left.  `Engine.agent`
goes through `Journal.get_or_run`: a settled call is replayed, a fresh one is
counted, waits for a slot, runs, is committed and charged.  Scores, pipeline
stages and wave verdicts go through the same journal, so a process that starts
again replays them.  After a wave the context folds the results into the detector
and asks the governor for a verdict; once it is not `continue`, the next fan-out
raises.  The default orchestration solves each module in a worktree that starts
from the carry, merges the diffs, and repairs what the merge fails until the
governor stops it.  An accepted candidate is checkpointed in the run directory
before the attempt returns.  The ladder sees only that directory: it launches the
evaluation of a cell as a child process, kills it at a timeout, reads the frontier
from the journal and decides to relaunch, cut or give up, and it looks for a
checkpoint before it closes a cell.

In APEX v1 one scheduler thread serves a call with several rollout requests.  It
leases each a worktree of the pool, or builds one, submits a worker to a thread
pool, and waits.  Workers share with it the workspace, a status file and a set of
cancelled ids; Python cannot kill them.  What the scheduler gives up (stall,
preemption, drain, emergency) may go on writing, so its worktree is quarantined;
at the end the scheduler reads workspaces and status files again, moves leased
worktrees to `rollout_<id>` and hands the paths to the caller.  Engines of several
solves may share one workspace directory; they exclude each other by flocks.

### What is hard

* Kills at any point: in the middle of an append, between the start of a worker
  and its record, between two waves, between a checkpoint and a report, between
  a report and the ladder's own line, between the settling of a pipeline stage
  and the merge that needs its candidate.
* Threads: callers of one key, workers that outlive their callers, slots given
  back by a reaper instead of their owner, workers that finish between the
  decision to give them up and the reading of their files.
* Replay: a later process runs the same script on other counters and must take
  the same branches.
* Diffs against a base: what applies on a carry, what a merge leaves out, what a
  score that is cached by diff was measured on.
* Files as locks: a path that is unlinked while another process has it open.
* Termination: scripts may start waves for ever, workers and children may hang
  for ever; each needs something that ends it.
* Boundaries: the agent ceiling, the last pass of the relaunch loop, windows and
  streaks that reset each other, counters over several processes.

`PROJECT.json` lists the hazards at their lines, with the properties that would
catch them; section 6 names those that no property covers.

### What makes each part correct

* Journal: what a caller was given survives; a settled call never runs again;
  the file stays ordered; a restart knows what the dead process knew.
* Engine: slots are conserved; the tally survives restarts and bounds the run;
  replays are free; a hung worker does not keep its caller.
* Governor: no cut while a run climbs; every loop ends; verdicts do not depend on
  which process takes them; nothing happens after a halt.
* Convergence: a diff that is accepted passes; a repair is asked for what really
  fails; what is carried is never lost; the loop ends.
* Ladder: a banked solve is reported; a climbing cell goes on; a stall is a wall
  of failures; every cell is closed.
* Workspaces: one owner per rollout directory; the lock is held as long as the
  directory; a cleanup removes everything or, while a workspace is quarantined, nothing;
  no thread waits for ever.
* Rollouts: nothing takes the workspace from a running worker; a request is
  answered once; a verified pass comes back with the workspace that has it; a
  call returns.
* Selection: only execution evidence accepts; the choice does not depend on the
  order of completion; a refuted candidate stays refuted.

## 2. Modules

| module | models | notes |
|---|---|---|
| `Memo` | what the journal promises: a memo table that never forgets | abstract |
| `Ledger` | what the engine and the journal agree on: the settled calls and the number of recorded results | abstract; `Journal` keeps it in a file, `Engine` uses it |
| `Journal` | `Journal.get_or_run` by several threads, kills, torn lines, failing appends, recovery | implements `Memo` and `Ledger` |
| `Engine` | `Engine.agent` by several callers, watchdog, reaper, ceiling, budget, kills | the journal reduced to what `agent` sees of it |
| `Governor` | `_observe`, `_wave_state`, `RunGovernor.verdict` | operators, no state |
| `Detector` | the detector under any sequence of waves, beside one that sees the same results one at a time | uses `Governor` |
| `Waves` | journaled wave decisions across kills, with nested workflows, polls and questions | composes `Governor` with a journal of diffs, scores and verdicts |
| `Convergence` | the default orchestration: floor, fan-out over modules, reduce, repair loop, verification, kills between any two steps | composes `Governor` with trees, diffs, the journal and the worktrees of attempts |
| `Frontier` | `frontier_from_wal`, `FrontierState.as_state`, `w_meas_effective`, `plateau_verdict` | operators, no state |
| `Ladder` | one cell of the ladder: child process, timeout, gate, relaunch, cut, recovery, second invocation | composes `Frontier` with the run directory |
| `Workspaces` | rollout directories and their flocks, of several engines with one workspace directory | APEX v1; one step per system call |
| `Rollouts` | the scheduler of rollouts, its workers, the pool and git's record of worktrees, recovery from status files, over several calls | APEX v1 |
| `*Proofs` | theorems about the module of that name | |
| `MC*` | constants for TLC | |

### How state and actions correspond to the code

**Journal.**  `wal` holds the records that parse, in file order, and `tail` says
how the file ends; a record is its seq, key, status and `ok` flag.  What is
written after a ragged tail continues that line, so neither part parses again
(`Appended`); this is `open("a")` in `_append`.  `LookupMiss`/`LookupHit`,
`Begin`, `Finish` or `Raise`, `Commit` and `Return` are the steps of one
`get_or_run`; between any two of them other threads run and the process may be
killed.  `Begin` and `Commit` include the write, the fsync and the updates of
memory made under the same lock.  `AppendRaises` is a write or an fsync that fails in a
live process, after none, part or all of the line.  `Recover` is `_recover`.

**Engine.**  The places of a caller (`pc`) are the points of `agent` and
`_safe_runner` between which it can be overtaken: before the count, before
`_sem.acquire`, while the worker runs, after it, before the commit, before the
charge.  `Abandon` is the branch of `th.join(wall)` with the worker alive: it
hands the slot to a reaper.  `AbandonedEnds` and `Reap` are the two lines of
`_reap`.  `Kill` forgets all of memory and `Restart` takes the tally from the
journal, as `Engine.__init__` does with `fresh_agent_count`.

**Governor, Detector, Waves.**  A result is a record of what `_observe` reads of a
candidate: none, ok, valid measurement or not, gold count, rate, diff.  The
fields of the detector are the attributes `_observe` updates; `wall` counts one
second per valid measurement, as `_valid_wall_increment` does.  The reasons of a
verdict are tried in the order of `RunGovernor.verdict`.  In `Waves` an attempt
is one step (what a kill inside it does is the subject of `Journal`, `Engine`
and `Convergence`); the journal keeps the diffs of ok agent records by attempt,
real measurements by diff, answered questions, and verdicts by name space and
position, with the detector it was taken on (`inputs`, a history, without the
marks in agents and tokens: `Windows`).  `Decide` is `_wave_verdict`; `Leave` is the fan-out that raises after a
halt, caught by the script or a pattern.

**Convergence.**  A tree is a function from regions of the repository to what an
agent wrote there; the base commit is `"base"` everywhere.  A diff is taken against
the base commit, so it is written as the tree it makes of the base, and `git apply`
is `Fits`: a hunk goes on only where the tree is still the base.  `MergedDiff` is
`_merged_diff`, a `git diff` that does not show untracked files (`New`).  The workers
are the floor probe, one attempt per module and the repair agent; an attempt
(`_attempt`, `_scored`) is cut at the points where another worker, a kill or the
journal can get between: `Run`, `Dies` (the worker raised or the watchdog left it, after
it edited) or `Replay`, then `Cached` or `Missed`, then `Measure`, which banks the
candidate, checkpoints it and journals the score.  `Settle` is the end of the stage of
a module in the journaled pipeline.  `Scope` takes the carry (`carry_best`);
`EndFanout`/`EndRepair`, `MergeNext`, `EndMerge` are `reduce_residuals`, worktree by
worktree and diff by diff; `Poll` is `should_continue_waves`; `Abstain` and `Choose`
are selection with refutation.  `Restart` runs the same script again over the journal:
`diffs`, `scores`, `stages`, `verdicts` and `saved` survive, everything else starts afresh.
The brief of a repair is a part of its key: the round, the failing tests, and the most
tests that a candidate passed so far (`Best`).  `blurred` is a history variable, the diffs
that were recorded for a merge whose new files they leave out.

**Ladder.**  A measurement is the number of gold tests that pass, or
`Indeterminate`.  The child's actions are what it leaves in the run directory, in
the order of the code: the journal exists once the engine is built (`Boot`), an
accepted candidate is checkpointed before its attempt returns (`Bank`) and may be
refuted afterwards (`Refute`), the report is written, then the cell is journaled
(`Seal`), then the child returns (`Exit`).  The ladder's actions are the branches of `run_cell`:
skip, full disk, launch, return, and at a timeout no journal, relaunch or cut.
`Action` is `relaunch_decision`.  `Emit` is a line of `progress.jsonl`.

**Workspaces.**  Each engine has one scheduler thread, whose `pc` says which system
call comes next.  A lock is an inode: `file` says which one a path names, `flock`
who has it locked, `lock` which descriptor the engine registered in `_locks`.
`Ask`, `OpenLock`, `Take` and `FlockFails` are `_acquire_rollout_lock`; `Check` and
`Clean` are the branch of `create_worktree` for a directory that exists, with its
second acquisition; `Build`/`BuildFails`; `Aside` is the retry under a fresh key of
`_create_legacy_worktree_with_collision_retry`; `Reject`/`Evict` are the handler of
`prepare_request_workspace`; `Unlock` and `Unlink` are the two halves of
`_release_rollout_lock`.  `Quarantine` is the end of a call that leaves a worker running in
a workspace; nothing takes a path out of `_quarantined_worktree_paths` again.  `cleanup`
is `Close`, only where nothing is quarantined, followed by the `Close*` of `cleanup_all`, or
`Leave`: `cleanup_all` is not called and every directory and lock stays until the engine
is dropped.  `Crash` is that drop or the death of the process: the flocks go, the files
stay.  `raced` and `evicted` are history variables for the two ways in
which the exclusion breaks (section 5).

**Rollouts.**  `pc` is where the scheduler thread is: dispatching, waiting, past a
`wait` that returned nothing (`tick`), reaping, and the four steps of the end of a
call.  A worker is its future with the states of its life; what it shares with the
scheduler is its workspace (`tree`), its last quick verification (`verdict`, in the
`rollout_report.json` of the workspace and in the status file; a targeted pass is read
back from the report as a full one, `Green`) and the state of the
status file.  `slot` is the pool's entry for a worktree and `git` the branch that git
believes to be checked out at a path, which is why making a pool worktree anew removes
others (`Claim`).  `Abandon` gives rollouts up (`Emergency`, `DrainExpires`, `Expire`,
`Preempt`): a queued future is cancelled, a running one left.  `Quarantine` takes the
worktrees of those that have not ended out of the pool.  `Recover` is the credit of
quiesced rollouts from workspaces and status files, `Late` the sweep over all status
files, `Promote` the move of leases to `rollout_<r>` and the cleanup of the pool with
its `git worktree prune`.

## 3. Runs

| run | instance | what it shows |
|---|---|---|
| `journal_core` | two threads, an agent key and another key, 5 seqs, 2 kills, torn lines | acknowledged results are in the file, recovery is exact, settled calls never start again, `Memo` is implemented |
| `journal_faulty` | the same with appends that raise and lines without newline, 4 seqs | the order of the file and the counter survive what durability does not |
| `engine_core` | 3 interchangeable callers, 2 calls of which 1 is watched, 2 slots, ceiling 3, 4 dispatches, 2 kills | slots are conserved and come back, the tally is exact over restarts, the ceiling holds up to what kills lost, replays are free |
| `engine_live` | 2 callers, 1 slot | every call is answered if every worker ends; a watched call is answered even if none does |
| `detector` | waves of up to 2 results of 6 kinds, windows and streaks of 3 | a wider wave is never judged more strictly, a climb is not cut, every loop of waves is halted |
| `waves` | a nested workflow of 2 waves, then 2 waves of its parent, polls, questions, one kill anywhere | verdicts stand, nothing follows a halt in a name space, replays rebuild the windows |
| `ladder` | 3 measurements of a 2-test repository, 2 relaunches, 2 invocations of the ladder, kills anywhere | banked solves are reported, climbing cells go on, a stall is a wall of failures, every cell is closed |
| `ladder_infra` | a cell that failed on infrastructure, ladder invoked again | violates `InfraIsRetried` |
| `workspaces` | two engines, one rollout id, set-ups that fail, crashes and restarts at every system call | the owner has the lock, one lock per rollout and an intact workspace up to the two holes, a cleanup removes everything or, under a quarantine, nothing, no thread waits |
| `rollouts` | one call with two requests, two slots, one or two threads, all kinds of workspace, every answer of the caller but an exception | a running worker keeps its tree, each request is answered once, a verified pass comes back, patches come with their workspace, the call returns |
| `convergence` | two modules, two files of the base with a test each and a new file, three edits of which two contradict each other, one fault (worktree, harness or death), one kill anywhere | accepted diffs pass and repairs are asked for the failing tests up to the new files of merges, the carry is kept, the script returns |
| `convergence_carry` | two modules, two files of the base, every edit of them, without faults or kills | violates `RepairIsCarried` |

Configurations that no listed run uses show the disagreements of section 5:
`MCJournalTail`, `MCEngineHungBlocks`, `MCWavesSiblings`, `MCLadderPlateau`,
`MCWorkspacesDestroyed`, `MCWorkspacesEvicted`, `MCWorkspacesStale`, `MCRolloutsMoved`,
`MCRolloutsCancelled`, `MCRolloutsCredit`, `MCRolloutsForeign`, `MCConvergenceNew`,
`MCConvergenceSaved`.  Each checks one property, which TLC finds violated:
`tlc -config MCWorkspacesStale.cfg MCWorkspaces`, and so on.  `MCDetectorTokens` passes:
it is `detector` with a token budget, where the token arm of the governor is in reach,
and without `EveryLoopHalts`, which should rest on windows and streaks alone.

### Bounds and why they are enough

* `MaxSeq`, `MaxDispatches`, `MaxAgents`, `MaxWaves`, `MaxMeasures` bound lengths;
  `MaxCrashes`, `MaxKills`, `MaxLadders` bound kills, `MaxFaults` faults of the
  surroundings.  The proofs hold for every value of them, so for the proved
  properties they only limit what TLC visits.
* Journal: two kills are needed for a record that is written after one torn line
  and lost by the next recovery; five seqs let a key be committed, run again by
  the second thread, and cut.
* Engine: more callers than slots, and one slot fewer than the ceiling, make the
  queue, the ceiling and the abandoned worker meet.
* Detector: the agent ceiling and the attempts backstop are set to 1000, out of
  reach, so that a loop is ended by windows and streaks alone; two rises and
  three windows end every behaviour before `MaxAgents`, which the run would
  report as a violation of `EveryLoopHalts` if it did not.
* Waves: two contexts, two waves each and one kill reach a replay of the nested
  decisions by a second process that then goes on live.  The thresholds are
  small (2 non-results, 2 indeterminate measurements, a window of 1) so that
  cuts happen within two waves.
* Ladder: two relaunches give a first, a middle and a last pass of the loop; two
  invocations give a ladder that finds what an earlier one left.
* Workspaces: every interaction is about one rollout id, so one is enough; two
  engines that may crash and start again at each step give a stale directory, a
  leaked lock and a lock path that names another inode.  `Inodes` has one for each
  descriptor that can be open and one for the path, so a new one is always there;
  inodes out of use are used again.  Either engine may quarantine its workspace and
  then skip its cleanup.
* Rollouts: with two requests one rollout preempts, stalls or outlives the other,
  queues for its slot, and takes its worktree after a release.  Three interchangeable
  rollouts (8 million states) were checked once, without error.  Two calls are used for
  the disagreements only, whose invariants are qualified in the listed run.
* Convergence: two modules are what makes a merge.  Region `r1` may be split, with a part
  in the new file `r3`, or rewritten as a whole together with `r2`; `r2` may be edited
  alone.  So two diffs may contradict each other (in `r1`), agree and overlap (in `r2`),
  complete each other, or need the file that a merge leaves out.  One kill and one fault give a
  process that resumes over a journal with a gap.  `MaxRounds` is past what the governor
  allows with windows of two measurements: `WorkflowReturns` would fail if a behaviour
  reached it.

`CHECK_DEADLOCK FALSE` is set wherever a bounded system stops at its bounds, or a
halted or closed one has nothing left to do; `workspaces` runs with the check.

Symmetry is used where callers or threads are interchangeable and no temporal
formula is checked but action properties and the refinement of `Memo`, neither of
which names a thread.

### Fairness

* `Engine!FairSpec`: the threads of a live process run (weak fairness of each
  caller's next step and of the reapers), and a watched wait ends at its wall,
  because `Thread.join(wall)` returns.  That a worker ends is no fairness of the
  system: it is the hypothesis `WorkersEnd` of `EveryCallAnswered`, justified by
  the hard kill of the vendor process (`task.timeout_seconds`), and absent from
  `WatchdogAnswers` and `HungNeverBlocks`.  Weak fairness of `Acquire` is enough
  because callers are finite and dispatches bounded.
* `Detector!FairSpec`: a script that never stops by itself starts a next wave.
* `Ladder!FairSpec`: the ladder process takes its steps; the timeout of
  `communicate` makes one of them possible whatever the child does.  Nothing is
  assumed of the child, nor that a killed ladder is invoked again.
* `Workspaces!Fairness`: a thread in the middle of a request, a release or a cleanup
  goes on.  No request has to come, no engine to close or to be dropped, and no other
  engine to let go of a lock: `flock` is not blocking.
* `Rollouts!LiveSpec`: weak fairness of the scheduler thread, and strong fairness of
  `Emergency`: `emergency_silence_window_seconds` is what ends a call whose workers
  hang, and a scheduler that polls for ever finds the window over at some poll.  No
  fairness is assumed of any worker.
* `Convergence!FairSpec`: a process that is not killed goes on, and its agents end
  (the watchdog of `Engine`, whose `WatchdogAnswers` is the justification).

## 4. Proofs

TLAPS checks these for every value of the constants that satisfies the named
assumptions.

**JournalProofs.**  `TypeCorrect` and `SeqOrder` assume nothing of the environment.
The invariant `SeqInv` is the type invariant with `SeqOrdersTheFile`; it is
inductive because the counter of a process starts past every seq of the file
and an append spends it.  `Durability`, `ExactRecovery`, `NoRerun` and `Implements`
hold under `Tolerated`: appends do not raise in a live process and a kill leaves at
most a line that does not parse.  Without either, `MCJournalTail.cfg` and a
failing disk refute them.  The invariant is `DurInv`: `SeqInv`, exact
recovery, that no thread is past its begin while the file still ends in a torn
line (`TailAbsorbed`), so that such a line never swallows a result, and that a thread about to
return has its record in the file (`CommittedIsLogged`).  The lemmas say what one
append does to each thing a scan rebuilds; `Implements` adds a step-by-step
mapping of the actions to `Learn`, `Serve` or a stutter.  `KeepsTheLedger` does the same
for module `Ledger`, with the agent calls among the keys: the settled calls and the number of
records that count.

**EngineProofs.**  `EngineInv` adds to the types: where every slot is
(`SlotInv`), what dead processes and ended workers look like, that a started worker
is recorded, on its way to be, or lost (`RunInv`), and that those which will start
once they have a slot fit under the ceiling (`CeilInv`).  The checked invariants follow: at most
`MaxConcurrent` workers, no leak, an exact tally, the ceiling up to what kills
lost, and a free resume.  `RecordsInTheLedger` joins the engine to the journal: its
variables `settled` and `recs`, which stand for the journal, change as those of
`Ledger` do, so what `JournalProofs` shows of the file (a settled call and a counted record
survive every tolerated kill, `KeepsTheLedger`; a lookup and a restart read just that,
`ExactRecovery`) is what the engine assumes of it.  Every step moves one caller between five counted sets;
`Moves` says how their sizes change.

**WavesProofs.**  The verdicts of a name space form a prefix without gaps (`NoGaps`)
that every process walks from its start (`Walked`), so a process stands beyond a
halt only if it obeyed none.  From this `HaltIsFinal` and `VerdictsStand`, for any
governor thresholds, scripts, contexts and kills.  `ReplayIsExact` rests on `ReplayInv`: the
journal alone determines the windows at a position, because every attempt of a wave that
was decided on has its diff and its measurement there (`Rebuilt`), and a process stands
where the journal says its position begins (`Standing`), with the results the
journal gives for the wave in progress (`OutKept`).  A wave judged again from the
journal is then judged alike, whatever the marks in agents and tokens are
(`Alike`).  The hypothesis `OneScriptPerSpace` is that two workflows which share a name
space run the same script; two siblings with different scripts read each other's
verdicts (`MCWavesSiblings.cfg`).

**DetectorProofs.**  `WidthNeverCutsSooner` compares two folds over a wave of any length: the
detector shown the first k results at once against the one shown them one at a time.
Both are written with recursive functions, and the induction over k is done with a
least counterexample (`Least`, `SetInduction`, from the library's theorem on well-founded
sets), which needs no operator parameter.  The step is one more result: it rises, or is a
real measurement, a harness failure, a sterile diff, or nothing, and each lemma
says what that does to one window of both.  `ClimbingRunGoesOn` follows the marks a
rise sets through the order in which `verdict` tries its reasons.  Assumed of a
result: its flags are Booleans and its counts natural numbers.

**LadderProofs.**  `LadderInv` says that the frontier the ladder remembers is the one
the running child was launched at (`Remembered`), with the facts that order the run
directory (no measurement and no checkpoint without a journal).  From it
`StallIsAWall`, `BankedIsReported`, and for cells run by an orchestrator
(`Mode = "C"`) `ClimbingIsKept`.

**WorkspacesProofs.**  For any number of engines, rollouts and inodes, whether or not
set-ups fail.  `Inv` ties the three views of a lock together: the flocks of the kernel
are those of the registered descriptors (`LocksAgree`), an inode in use belongs to one
rollout (`InodesApart`), and, as long as no path was unlinked too late, whoever has a
lock file open has the one the path names (`OpenIsNamed`).  The last is what makes an
flock on an inode exclude by rollout, and what `Unlink` can break; it is the reason for
the history variable.  `Owned` and `StepOK` say what each place of a thread knows.
Hence `OwnersLock`, `LocksExclude` and `WorkspacesStand`.  `CleanupIsComplete` adds `Kept`:
an engine with a quarantined workspace never gets into `cleanup_all`, so the workspace
stays held until the engine is gone; and an engine that has been through
`cleanup_all`, or is gone, has nothing left.

**RolloutsProofs.**  For any number of rollouts, calls, slots and threads.  `FuturesKept` says
that whoever may still run is on the books of its call or quarantined; `Leases` that
whoever runs or may run has a workspace of its own, or its lease, or a slot that left
the pool, and that no two share one.  From both, no reset, hand-over, remaking or move
touches the workspace of a running worker (`RunningKeepsTree`), until an abandoned
worker of an earlier call is left in the pool directory (`Settled`).  `Answered` adds the count of answers: a request has none
exactly while it waits or runs, or was dropped before it got a workspace; `AnswersOnce`
needs a caller's predicate that does not raise.  `Handed` follows the edits: a leased slot
holds those of its rollout and a free one none (`SlotsKept`), the workspace of a
rollout that the call still answers for is its own directory or its slot
(`Housed`), and a patch is that of the workspace its result names (`PatchesStand`).  Reset,
remaking, hand-over, quarantine and promotion each change several of them at once;
all other steps are covered by one lemma over what they leave alone
(`SparesHanded`).  Hence `PatchesComeWithTrees`, without a hypothesis.  `PassesSurvive` adds
that a worker which passed has told so in its status file before its future is done
(`Told`), so that one given up in the meantime is credited from there (`GivenUp`,
`PassesKept`).  It excludes a predicate that raises: the answer is then
recorded twice, and the second time without success.

**ConvergenceProofs.**  For any repository, plan, agents, gold suite, thresholds, faults
and kills.  `TypeCorrect` assumes nothing more; it also establishes what the other proofs
read off the journal.  None assumes that there are no new files, which merges lose
(section 5).  `CarryGrows` is about the regions that the base has: while a merge runs its tree contains the carry (`CarryKept`), because
a diff applies only where the tree is the base.  `AcceptedPasses` and `ResidualExact` rest on
`Sound`: before the first kill nothing is ever replayed (`KeysSpent`), so the tree of every
attempt is the tree of its diff or its diff is empty (`DesksTrue`), so every score is that of its
diff (`ScoresTrue`), so are the candidates (`CandsTrue`), and the residual is what the carry
fails (`ResidualTrue`).  Only a merge with new files records a diff that does not make the
tree it is scored on; the history variable `blurred` has these diffs, and nothing is claimed
of a candidate or a carry among them.  After a kill `DesksTrue` is lost, and both properties with it: a diff that
undid a part of the carry is replayed on top of the carry, and scored on a tree it does not make.

Only model-checked: the liveness properties (`EveryCallAnswered`, `WatchdogAnswers`,
`EveryLoopHalts`, `EveryCellCloses`, `ThreadsReturn`, `CallsReturn`, `WorkflowReturns`), which
need fairness and `ENABLED`, and every property's non-vacuity, by the mutated forms of the
definitions listed in `PROJECT.json`.  Every safety property of the passing runs is stated by
a theorem.  The type invariants of `Detector`, `Waves`, `Ladder` and `Convergence` are
proved, not run; so is that `Journal` and `Engine` implement `Ledger`.

## 5. Other disagreements between code and comments

Each was met while modelling and is reached by the model; the line that says
otherwise is quoted, or the configuration named that shows it.

### Journal, engine, governor

* `journal/wal.py:155`: a last line that is whole but has no newline parses; the next
  append continues it, and a later recovery drops both, so a settled call runs again
  (`MCJournalTail.cfg`).  `wal.py:6`: "resume re-runs ONLY edited/new calls".
* `journal/wal.py:180`: an append that raises in a live process leaves its part of
  the line, and the next append continues that line; a record that was fsynced
  and handed to its caller cannot be read back (`AckedIsDurable` with
  `DiskMayFail = TRUE`).  `wal.py:10`: "fsync-durable BEFORE the result is
  returned to the caller".
* `journal/wal.py:165`: the tally of a restart counts committed records, so each
  kill lets up to `max_concurrent` more workers start than the ceiling
  (`CeilingUpToLoss` says exactly how many).  `engine/runtime.py:75`: "a
  relaunch/resume continues toward the SAME 1000 ceiling".
* `engine/runtime.py:194`: a reaper gives the slot back when the abandoned worker
  ends, so workers that hang use the slots up and later callers wait for ever
  (`MCEngineHungBlocks.cfg`).  `runtime.py:171`: "so a hung/non-vendor agent can
  never block the cell forever".
* `autogen/context.py:576`: every nested workflow has the name space `w1_` and its own
  counter, so the second of a script replays the verdicts of the first
  (`MCWavesSiblings.cfg`; the key is made at `context.py:496`).
* `autogen/context.py:400`: the best gold count is raised by every candidate, an
  indeterminate one too.  `context.py:405`: "a candidate contributes to the
  FRONTIER and to the patience clocks ONLY if it is a real test outcome".
* `engine/governor.py:132`: the attempts backstop returns `cut:no-progress` on
  attempts alone.  `context.py:219`: "BOTH a VALID-measurement window AND a
  journaled VALID-measurement wall clock elapsed since the frontier last rose".
* `autogen/context.py:457`: a wave with any usable work resets a streak to which the
  same attempts, one by one, would have added; the verdict depends on the grouping
  (`WideIsNeverStricter` says in which direction).  `context.py:471`: "All cut signals
  are in ATTEMPTS (agents), so the rule is invariant to the wave schedule and the
  arm width".
* `autogen/context.py:446`: attempts since the best rose come from the agent tally,
  which a restarted process starts at its full value; the windows and streaks
  are rebuilt by a replay (`ReplayRebuildsWindows`), this input is not.
  `context.py:382`: "the detector state is faithfully reconstructed during a resume
  replay".
* `autogen/context.py:480`: the agents a read-only question dispatches are counted as
  attempts.  `context.py:550`: "never mistaken for a solve wave that advances the
  plateau counter".
* `autogen/context.py:507`: a harness stall is replayed although the measurements
  behind it are taken again and may be healthy.  `engine/governor.py:114`: "never
  produced a real test outcome".

### Convergence

* `autogen/templates.py:119` (run `convergence_carry`): the diff of a repair is taken
  against the base and contains the carry it was made on, so it never applies over
  the carry again: `reduce_residuals` drops every repair of a tree that has a carry.
  The loop goes on with the old carry until the governor cuts it, even when the
  repair was accepted; selection finds it afterwards.  `templates.py:110`: "if the
  frontier rose, carry the new merged partial forward".
* The same happens to the fan-out when the floor probe left a carry: each module diff
  that keeps the carry conflicts with it in the merge, and the fan-out is discarded.
* `autogen/context.py:1252`: `_merged_diff` is a `git diff` without intent-to-add, so
  files that the base does not have are in the tree that is scored and not in the diff
  that is accepted (`MCConvergenceNew.cfg`).  `context.py:1254`: "captured as a
  single replay-safe artifact"; the diffs of agents take care of it
  (`executor/v1_executor.py:77`: "intent-to-add so new files (the common commit0
  case) appear in the diff").  Of new files, the properties of the listed run leave
  out only those of merges.
* `autogen/context.py:1177`: a stage that is settled in the journal gives an id whose
  candidate only the dead process had, so a resumed merge leaves that module out.
* An agent that dies after it edited is scored on its edited tree under the key of the
  empty diff: a candidate may be accepted with nothing to apply, and the score of
  "no change" is that of its tree from then on.  `AcceptedDiffPasses` is therefore
  about diffs that are not empty.
* A resumed process replays a diff on top of its carry: if the agent had kept the
  carry, the diff does not apply and the attempt is lost; if it had undone a part,
  the tree scored is neither.  Hence the hypothesis `kills = 0`.
* A failed worktree or an indeterminate merge returns an empty residual, which the
  script takes for nothing left to repair: one transient fault ends the loop.
* `autogen/architect.py:613`: "a banked accept is never silently discarded by a
  normal-completion exit": it is, when the accepted candidate was a module's of a dead
  process, or was refuted; its checkpoint stays (`MCConvergenceSaved.cfg`).

### Ladder

* `eval/commit0_autogen.py:550` (run `ladder_infra`): an infrastructure error is written
  as a report that the next invocation takes for a closed cell.
  `commit0_autogen.py:194`: "fixing the env and re-running must retry the cell".
* `engine/frontier.py:317`: the wall epoch of a journaled cell is never set, so the
  action "plateau" is never taken for one (`MCLadderPlateau.cfg`).
* `src/scripts/run_ladder.py:392`: a rise at the last attempt writes a relaunch line
  and launches nothing.  `run_ladder.py:439`: "On a kill, RELAUNCH against the
  same warm --run-dir".
* `src/scripts/run_ladder.py:412`: the skip path never looks for a checkpoint.
  `run_ladder.py:445`: "A verified solve banked before any kill is recovered FIRST,
  never discarded".
* `src/scripts/run_ladder.py:501`: the checkpoint of a candidate that was refuted
  afterwards is reported as a solve.  `patterns/verify.py:8`: "at worst it DROPS a
  suspicious solve".
* `src/scripts/run_ladder.py:367`: every cell has a journal, a best-of-N cell too, so
  its rollouts are never read (the model with `Mode = "A"` cuts a climbing cell).
  `run_ladder.py:362`: "Mode-C (an in-process orchestrator run) is detected by the
  presence of a ``calls_wal.jsonl`` journal".
* `src/scripts/run_ladder.py:463`: relaunch and skip lines go to `progress.jsonl` too.
  `run_ladder.py:13`: "one line per cell completion".

### Workspaces (lines of `src/apex/rollout/engine.py`)

* 2316: a released lock is unlinked after the descriptor is closed.  An engine that
  took the lock in between keeps an inode without a path, a third engine makes a
  new file, and both own the rollout (`MCWorkspacesDestroyed.cfg`).  2122: the lock
  "protects concurrent ``solve()`` calls that share a ``workspace_dir`` from silently
  destroying each other's work".
* 30942: when the retry under a fresh key fails too, the handler removes
  `rollout_<id>`, which may be the workspace of the engine that had the lock
  (`MCWorkspacesEvicted.cfg`).
* `create_worktree` over a stale directory acquires a lock that it already has, on a
  second descriptor: it always conflicts with itself.  The stale directory is gone, the
  workspace is made under a fresh key, and the lock stays until `cleanup_all`
  (`MCWorkspacesStale.cfg`).
* 32483: one quarantined workspace calls the whole cleanup off: the directories and locks
  of all rollouts stay, finished ones too, until the engine is dropped.  With
  `keep_worktrees`, the default (`src/apex/core/config.py:668`), `cleanup` is not called at
  all (`src/apex/orchestration/solver.py:1890`).  In both cases the locks go with the engine,
  at the latest with the process, while a quarantined worker may still be writing; the
  next engine then takes its directory for a stale one (`Clean`).

### Rollouts (lines of `src/apex/rollout/engine.py` unless stated)

* 31305: "the consumer expects each ``RolloutResult.worktree_path`` to remain readable
  AFTER ``execute_rollout_requests`` returns": until the next call of the engine, whose
  pool remakes the slot and removes every worktree that still has its branch
  (`worktree_pool.py:236`, `MCRolloutsMoved.cfg`).
* A git older than 2.48 does not follow the relative backlinks that promotion writes:
  `git worktree prune` forgets promoted worktrees (`LinksFollowed = FALSE`).
* 31407: the quarantine of a worker that passed and has not ended yet clears its
  verification, so the pass is lost (`MCRolloutsCancelled.cfg`).  4545: a cancel
  "must NEVER discard a rollout that already produced a clean local full-scope pass".
* 31642: the sweep over status files appends a result, with success, for rollouts of
  earlier calls (`MCRolloutsForeign.cfg`).
* A rollout that timed out is credited with what its path holds when it is recovered; if
  its slot was freed and leased again, with the patch of another (`MCRolloutsCredit.cfg`).
* A predicate of the caller that raises gives its rollout two results (`Answers` with
  `"raises"`; `AnswersOnce` excludes it).
* Abandoned workers keep their threads.  Rollouts that are queued behind them never
  start and never count as stalled: only the emergency cap ends such a call, and it
  leaves requests that were not dispatched without an answer (`AnsweredOrStopped`).

## 6. What is not modelled

* Power loss: a kill keeps what the file system was given.  The diff blob that is
  renamed but not synced (`journal/wal.py:201`) is therefore always there.
* A second process on a run directory: a child that survives a killed ladder
  (`src/scripts/run_ladder.py:452`), two ladders on one cell.  The journal's counter is
  not shared between processes (`wal.py:187`).
* Prompts, narration, usage records, wording of reasons; vendor command lines,
  the test harness and git are steps that may fail.
* In `Waves`: verdicts that rest on transient harness failures (`context.py:515`) and
  the agents of questions in the plateau window (`context.py:480`) are replayed and counted
  as in the code; no property is about them.
* In `Engine`: the token budget of a resumed process starts at zero
  (`engine/budget.py:27`), which bounds each process and not the run.  A commit whose
  append raises in a live process (`engine/runtime.py:207`, `journal/wal.py:250`) is in
  `Journal` only: in the engine its dispatch then stays counted in `_total_agents` without a
  record, and `TallyIsExact` holds up to such dispatches.
* In `Waves`: a score that raises after the agent record (`autogen/context.py:757`, caught
  at 788) leaves a diff and a counted agent behind; the failed attempt of the model leaves
  nothing.
* In `Convergence`: the list of conflicts and deferred modules; plans of fewer than two
  modules, which fall back to best-of-N; dependencies between modules; the completeness
  critic; the tail of `autosolve` (floor rescue, reconciliation); the carry that does not
  apply to its own base; the lists of failing ids that are cut at 40 or 50; ids of repairs
  modulo 1000 (`context.py:1016`) and of merges from the shared counter (`context.py:1198`).
  The lookup and the journaling of a score are single steps, and so is banking.
* In `Workspaces`: a git call that times out; `isolation/worktree.py`, which keeps its lock
  across such a call (`worktree.py:85`), is modelled only as a worktree that is given or refused.
* In `Rollouts`: what a worker does inside its workspace beyond editing and its last
  verification; `keep_worktrees = False`, workspace seeds, a grace of zero; promotions
  and resets that fail; the escrow of patches on disk; status files are written in one
  step.  The stall and emergency clocks may run out at any poll.  A full pass without a
  patch keeps its workspace (`_should_keep_worktree`, `src/apex/rollout/engine.py:32254`);
  the model resets it like any other without a handoff.
* The rest of `src/apex/` (240 000 lines: planning, search, selection, evaluation
  harnesses for several benchmarks, command-line clients, persistence and replay): it is
  sequential policy, text processing and calls of models, where the hazards that a model
  checker reaches are few and the abstraction of the data would leave nothing.  The
  concurrent core below it is what `Workspaces` and `Rollouts` model.
* The parts listed `not_modelled` in `PROJECT.json`, each with its reason.

## 7. Plan

Done, in this order, the most important behaviour first: the journal (everything
else rests on it), the engine, the governor and its journaled decisions, the
ladder, the locks of workspaces, the scheduler of rollouts, the convergence loop.
What could follow:

1. **Fanout** (`engine/runtime.py:232-255`, `engine/pipeline.py`): chains of stages over a
   bounded pool, stages that raise against stages that return nothing, budget
   stops.  Theorem: results are in the order of the items, whatever the order of
   completion.
2. **Worktree** (`isolation/worktree.py`): git calls that fail or time out; it composes with
   `Engine`, whose abandoned workers still write into released trees.
3. **Lineage** (`solve_and_repair`, `ralph_loop`): lineages that never end worse than they
   began, ids that collide.
4. **Autosolve** (`autogen/architect.py`): scout, author, sandbox, floor and rescue with
   their fall-opens; `ask` with its nudges.
5. Best-of-N cells in the ladder with the rollout epochs of `frontier_from_rollouts`, and
   `Rollouts` with the stop predicate of such a cell; the pool of the ladder over several
   cells.
6. Proofs: `Waves` as an implementation of a single uninterrupted process;
   `Workspaces` as an abstract lock; the ledger of scores and verdicts, through
   which `Waves` and `Convergence` use the journal, as `Engine` does through `Ledger`.
