------------------------------ MODULE Rollouts ------------------------------
(***************************************************************************)
(* The rollout scheduler (RolloutEngine.execute_rollout_requests in        *)
(* apex/rollout/engine.py), its worktree pool (worktree_pool.py) and the   *)
(* status files its workers leave behind, over the calls ("batches") that  *)
(* one engine serves.                                                      *)
(*                                                                         *)
(* A thread pool runs one worker for each rollout.  The scheduler thread   *)
(* hands out workspaces, waits, reaps finished workers, kills stalled and  *)
(* superseded ones, and at the end of the call recovers candidates from    *)
(* workspaces and status files.  A worker cannot be killed: it notices a   *)
(* cancellation late or never, and goes on writing.                        *)
(*                                                                         *)
(* Configuration: keep_worktrees and use_worktree_pool, their defaults,    *)
(* and requests without a workspace seed, for which alone there is a pool. *)
(***************************************************************************)
EXTENDS Naturals, FiniteSets

CONSTANTS
  Rollouts,       \* rollout ids
  Of,             \* rollout -> the call it is requested by
  Calls,          \* number of calls
  Slots,          \* indices of pool worktrees
  MaxWorkers,     \* parallel_workers
  Verdicts,       \* verdicts that the verification of a rollout may give
  Workspaces,     \* what preparing a workspace may give
  Answers,        \* what the caller's stop_on_result may say
  LinksFollowed   \* does this git follow relative worktree backlinks?

ASSUME RolloutsAssumption ==
  /\ Calls \in Nat /\ Of \in [Rollouts -> 1..Calls]
  /\ Slots \subseteq Nat \ {0}
  /\ Slots \cap Rollouts = {} /\ 0 \notin Rollouts
  /\ Rollouts \cap {"absent", "clean", "none", "free"} = {}
  /\ MaxWorkers \in Nat \ {0}
  /\ Verdicts \subseteq {"partial", "targeted", "fail", "near", "pass"}
  /\ Workspaces \subseteq {"pool", "own", "fails"}
  /\ Answers \subseteq {"go", "stop", "drain", "preempt", "raises"}
  /\ LinksFollowed \in BOOLEAN

VARIABLES
  pc,          \* what the scheduler does next
  call,        \* number of calls so far
  workers,     \* max_workers of this call
  pending,     \* pending_requests
  active,      \* rollouts of active_futures
  todo,        \* done_futures that are still to be reaped
  halted,      \* stop_dispatch
  draining,    \* is there a selection_ready_drain_deadline?
  deferred,    \* deferred_timeout_futures_by_rollout_id
  quarantined, \* rollouts whose workspace is in _quarantined_worktree_paths
  cancelled,   \* cancelled_rollout_reasons
  future,      \* rollout -> state of its future
  cwd,         \* rollout -> the workspace its worker was given, or 0
  verdict,     \* rollout -> its quick verification, or "none"
  status,      \* rollout -> state in its status file
  slot,        \* slot -> "none" (no entry), "free", or the rollout it serves
  tree,        \* path -> "absent", "clean", or the rollout whose edits it has
  git,         \* path -> the branch git knows to be checked out there, or 0
  count,       \* rollout -> how often it is in results
  result,      \* rollout -> its last entry in results
  edited       \* history: rollouts that have edited their workspace

calling == <<call, workers>>
control == <<pending, active, todo, halted, draining>>
killing == <<deferred, quarantined, cancelled>>
work == <<cwd, verdict, edited>>
disk == <<slot, tree, git>>
answer == <<count, result>>
vars == <<pc, calling, control, killing, future, work, status, disk, answer>>

(***************************************************************************)
(* The path of slot s is _pool/pool_<s>, that of rollout r is rollout_<r>. *)
(***************************************************************************)
Paths == Slots \cup Rollouts
Members == {r \in Rollouts : Of[r] = call}

Whys == {"none", "setup", "returned", "raised", "stalled", "silent",
         "preempted", "late"}
Results == [why : Whys, success : BOOLEAN, patch : Rollouts \cup {"none"},
            path : Paths \cup {0}]
Empty(why, path) == [why |-> why, success |-> FALSE, patch |-> "none",
                     path |-> path]
NoResult == Empty("none", 0)

Full(v) == v \in {"fail", "near", "pass"}  \* a verdict on the whole suite
Good(v) == v \in {"near", "pass"}          \* a near miss can be repaired
\* A report does not say that it ran only the targeted tests, all of them well.
Green(v) == v = "targeted" \/ Good(v)
Busy(r) == future[r] \in {"running", "ending"}
Done(r) == future[r] \in {"returned", "raised", "dropped"}

\* The verdict in the status file: cancelling clears it.
Reported(r) == IF status[r] \in {"live", "finished", "escrowed"}
               THEN verdict[r] ELSE "none"
\* What git diff shows in the workspace p.
Diff(p) == IF p # 0 /\ tree[p] \in Rollouts THEN tree[p] ELSE "none"
\* A scheduler-cancelled status file takes no other state.
Written(r, state) == IF status[r] = "cancelled" THEN status
                     ELSE [status EXCEPT ![r] = state]

Init ==
  /\ pc = "out" /\ call = 0 /\ workers = 1
  /\ pending = {} /\ active = {} /\ todo = {} /\ halted = FALSE
  /\ draining = FALSE
  /\ deferred = {} /\ quarantined = {} /\ cancelled = {}
  /\ future = [r \in Rollouts |-> "none"]
  /\ cwd = [r \in Rollouts |-> 0]
  /\ verdict = [r \in Rollouts |-> "none"] /\ edited = {}
  /\ status = [r \in Rollouts |-> "none"]
  /\ slot = [s \in Slots |-> "none"]
  /\ tree = [p \in Paths |-> "absent"] /\ git = [p \in Paths |-> 0]
  /\ count = [r \in Rollouts |-> 0]
  /\ result = [r \in Rollouts |-> NoResult]

----------------------------------------------------------------------------
(* The workers *)

\* A thread of the executor takes a future; abandoned workers keep theirs.
Start(r) ==
  /\ future[r] = "queued"
  /\ Cardinality({q \in Members : Busy(q)}) < workers
  /\ future' = [future EXCEPT ![r] = "running"]
  /\ status' = Written(r, "live")
  /\ UNCHANGED <<pc, calling, control, killing, work, disk, answer>>

Edit(r) ==
  /\ future[r] = "running" /\ tree[cwd[r]] # "absent"
  /\ tree' = [tree EXCEPT ![cwd[r]] = r]
  /\ edited' = edited \cup {r}
  /\ UNCHANGED <<pc, calling, control, killing, future, cwd, verdict, status,
                 slot, git, answer>>

\* The last quick verification, in memory, in the workspace's
\* rollout_report.json and, unless that is terminal, in the status file.
Verify(r) ==
  /\ future[r] = "running" /\ verdict[r] = "none"
  /\ \E v \in Verdicts : verdict' = [verdict EXCEPT ![r] = v]
  /\ UNCHANGED <<pc, calling, control, killing, future, cwd, edited, status,
                 disk, answer>>

\* The worker writes its terminal status.
Finish(r) ==
  /\ future[r] = "running"
  /\ future' = [future EXCEPT ![r] = "ending"]
  /\ status' = Written(r, "finished")
  /\ UNCHANGED <<pc, calling, control, killing, work, disk, answer>>

\* Mutated form: a cancelled rollout is cancelled, whatever it verified.
FinalizePlain(r) ==
  /\ future[r] = "running" /\ r \in cancelled
  /\ future' = [future EXCEPT ![r] = "ending"]
  /\ status' = [status EXCEPT ![r] = "cancelled"]
  /\ UNCHANGED <<pc, calling, control, killing, work, disk, answer>>

\* It notices that it is cancelled; a full pass is escrowed.
Finalize(r) ==
  /\ future[r] = "running" /\ r \in cancelled
  /\ future' = [future EXCEPT ![r] = "ending"]
  /\ status' = IF verdict[r] = "pass" THEN Written(r, "escrowed")
               ELSE [status EXCEPT ![r] = "cancelled"]
  /\ UNCHANGED <<pc, calling, control, killing, work, disk, answer>>

Return(r) ==
  /\ future[r] = "ending"
  /\ future' = [future EXCEPT ![r] = "returned"]
  /\ UNCHANGED <<pc, calling, control, killing, work, status, disk, answer>>

Raise(r) ==
  /\ future[r] = "running"
  /\ future' = [future EXCEPT ![r] = "raised"]
  /\ UNCHANGED <<pc, calling, control, killing, work, status, disk, answer>>

----------------------------------------------------------------------------
(* Dispatch *)

\* The caller makes its next call.
Call ==
  /\ pc = "out" /\ call < Calls
  /\ call' = call + 1
  /\ pending' = {r \in Rollouts : Of[r] = call + 1} /\ pending' # {}
  /\ workers' \in 1..MaxWorkers
  /\ pc' = "dispatch"
  /\ halted' = FALSE /\ draining' = FALSE
  /\ deferred' = {} /\ cancelled' = {}
  /\ count' = [r \in Rollouts |-> 0]
  /\ result' = [r \in Rollouts |-> NoResult]
  /\ UNCHANGED <<active, todo, quarantined, future, work, status, disk>>

Prepared == {r \in Rollouts : future[r] = "prepared"}
CanPrepare == /\ ~halted /\ pending # {}
              /\ Cardinality(active) + Cardinality(Prepared) < workers

With(s) == {t \in Slots : slot[t] = s}
\* The pool prefers the first free worktree to the first missing one.
Claims(s) == LET choice == IF With("free") # {} THEN With("free")
                           ELSE With("none")
             IN  s \in choice /\ \A t \in choice : s <= t

\* A free worktree is reset.  A missing one is made anew, after removing
\* what is at its path and every worktree that still has its branch.
Claim(r) ==
  \E s \in Slots :
    /\ Claims(s)
    /\ cwd' = [cwd EXCEPT ![r] = s]
    /\ slot' = [slot EXCEPT ![s] = r]
    /\ tree' = [p \in Paths |->
         CASE p = s -> "clean"
           [] p # s /\ slot[s] = "none" /\ git[p] = s -> "absent"
           [] OTHER -> tree[p]]
    /\ git' = [p \in Paths |-> IF p = s THEN s
                               ELSE IF git[p] = s THEN 0 ELSE git[p]]

\* The pool could not make its worktree: the rollout gets one of its own.
MakeOwn(r) ==
  /\ cwd' = [cwd EXCEPT ![r] = r]
  /\ tree' = [tree EXCEPT ![r] = "clean"]
  /\ git' = [git EXCEPT ![r] = r]
  /\ UNCHANGED slot

Prepare(r) ==
  /\ pc = "dispatch" /\ CanPrepare /\ r \in pending
  /\ \/ "pool" \in Workspaces /\ Claim(r)
     \/ "own" \in Workspaces /\ MakeOwn(r)
  /\ pending' = pending \ {r}
  /\ future' = [future EXCEPT ![r] = "prepared"]
  /\ UNCHANGED <<pc, calling, active, todo, halted, draining, killing,
                 verdict, edited, status, answer>>

Answer(r, entry) ==
  /\ count' = [count EXCEPT ![r] = @ + 1]
  /\ result' = [result EXCEPT ![r] = entry]

\* No workspace could be made: the request is answered at once.
SetupFails(r) ==
  /\ pc = "dispatch" /\ CanPrepare /\ r \in pending
  /\ "fails" \in Workspaces
  /\ pending' = pending \ {r}
  /\ Answer(r, Empty("setup", 0))
  /\ UNCHANGED <<pc, calling, active, todo, halted, draining, killing, future,
                 work, status, disk>>

\* The prepared rollouts are submitted; the loop goes on while some are active.
Submit ==
  /\ pc = "dispatch" /\ ~CanPrepare
  /\ future' = [r \in Rollouts |->
                  IF r \in Prepared THEN "queued" ELSE future[r]]
  /\ active' = active \cup Prepared
  /\ pc' = IF active' = {} THEN "grace" ELSE "wait"
  /\ UNCHANGED <<calling, pending, todo, halted, draining, killing, work,
                 status, disk, answer>>

----------------------------------------------------------------------------
(* The loop *)

\* wait(FIRST_COMPLETED) returns all futures done by now, or none.
Wait ==
  /\ pc = "wait"
  /\ todo' = {r \in active : Done(r)}
  /\ pc' = IF todo' = {} THEN "tick" ELSE "reap"
  /\ UNCHANGED <<calling, pending, active, halted, draining, killing, future,
                 work, status, disk, answer>>

\* Mutated form: they stay active.
AbandonActive(S, why) ==
  /\ active' = active
  /\ deferred' = deferred \cup S
  /\ cancelled' = cancelled \cup S
  /\ future' = [r \in Rollouts |->
       IF r \in S /\ future[r] = "queued" THEN "dropped" ELSE future[r]]
  /\ count' = [r \in Rollouts |-> count[r] + IF r \in S THEN 1 ELSE 0]
  /\ result' = [r \in Rollouts |->
       IF r \in S THEN Empty(why, cwd[r])
       ELSE result[r]]
  /\ UNCHANGED <<calling, quarantined, work, status, disk>>

\* The rollouts S are given up: a queued future never runs, a running one
\* is left alone.
Abandon(S, why) ==
  /\ active' = active \ S
  /\ deferred' = deferred \cup S
  /\ cancelled' = cancelled \cup S
  /\ future' = [r \in Rollouts |->
       IF r \in S /\ future[r] = "queued" THEN "dropped" ELSE future[r]]
  /\ count' = [r \in Rollouts |-> count[r] + IF r \in S THEN 1 ELSE 0]
  /\ result' = [r \in Rollouts |->
       IF r \in S THEN Empty(why, cwd[r])
       ELSE result[r]]
  /\ UNCHANGED <<calling, quarantined, work, status, disk>>

\* Mutated form: silence is measured anew and nothing is given up.
EmergencyMissed ==
  /\ pc = "tick" /\ pc' = "wait"
  /\ UNCHANGED <<calling, control, killing, future, work, status, disk, answer>>

\* The whole task has been silent for the emergency window.
Emergency ==
  /\ pc = "tick"
  /\ Abandon(active, "silent")
  /\ pc' = "grace"
  /\ UNCHANGED <<pending, todo, halted, draining>>

\* The grace of a drain is over.
DrainExpires ==
  /\ pc = "tick" /\ draining
  /\ Abandon(active, "preempted")
  /\ pending' = {} /\ draining' = FALSE
  /\ pc' = "grace"
  /\ UNCHANGED <<todo, halted>>

\* A rollout that made progress once, none for the stall window, and has
\* no terminal status.
MayStall(r) == r \in active /\ status[r] = "live"

Expire(S) ==
  /\ pc = "tick" /\ S # {} /\ \A r \in S : MayStall(r)
  /\ Abandon(S, "stalled")
  /\ pc' = "dispatch"
  /\ UNCHANGED <<pending, todo, halted, draining>>

Tick ==
  /\ pc = "tick" /\ pc' = "wait"
  /\ UNCHANGED <<calling, control, killing, future, work, status, disk, answer>>

\* A workspace that is not kept: a pool worktree is reset and freed, a
\* directory of its own is removed.
Clear(S) ==
  /\ tree' = [p \in Paths |->
       IF p \in Slots /\ slot[p] \in S THEN "clean"
       ELSE IF p \in S /\ cwd[p] = p THEN "absent" ELSE tree[p]]
  /\ git' = [p \in Paths |-> IF p \in S /\ cwd[p] = p THEN 0 ELSE git[p]]
  /\ slot' = [s \in Slots |-> IF slot[s] \in S THEN "free" ELSE slot[s]]

\* Mutated form: siblings are not answered for.
PreemptSilently(r, entry) ==
  LET S == active \ {r}
  IN  /\ active' = {}
      /\ deferred' = deferred \cup S
      /\ cancelled' = cancelled \cup S
      /\ pending' = {} /\ halted' = TRUE
      /\ future' = [q \in Rollouts |->
           IF q \in S /\ future[q] = "queued" THEN "dropped" ELSE future[q]]
      /\ Answer(r, entry)

\* A preempting stop gives up all other active rollouts, the done ones that
\* were not reaped yet among them.
Preempt(r, entry) ==
  LET S == active \ {r}
  IN  /\ active' = {}
      /\ deferred' = deferred \cup S
      /\ cancelled' = cancelled \cup S
      /\ pending' = {} /\ halted' = TRUE
      /\ future' = [q \in Rollouts |->
           IF q \in S /\ future[q] = "queued" THEN "dropped" ELSE future[q]]
      /\ count' = [q \in Rollouts |-> count[q] + IF q \in S \cup {r} THEN 1 ELSE 0]
      /\ result' = [q \in Rollouts |->
           IF q = r THEN entry
           ELSE IF q \in S
           THEN Empty("preempted", cwd[q])
           ELSE result[q]]

\* The future of r returned.  Its patch is the one it serialised, or, for a
\* verdict on the whole suite, the diff of its workspace.
Outcome(r, serialised) ==
  LET patch == IF serialised \/ Full(verdict[r]) THEN Diff(cwd[r]) ELSE "none"
  IN  [why |-> "returned", path |-> cwd[r], patch |-> patch,
       success |-> patch # "none" /\ Good(verdict[r])]

\* The caller's predicate is asked unless dispatch has stopped; a workspace
\* without a patch is cleared, except that of a preempting rollout.
Reap(r) ==
  /\ pc = "reap" /\ r \in todo /\ future[r] = "returned"
  /\ \E serialised \in BOOLEAN, answers \in (IF halted THEN {"go"} ELSE Answers) :
       LET entry == Outcome(r, serialised)
       IN  /\ answers # "raises"
           /\ IF entry.patch # "none" \/ answers = "preempt" THEN UNCHANGED disk
              ELSE Clear({r})
           /\ IF answers = "preempt"
              THEN /\ Preempt(r, entry)
                   /\ pc' = "dispatch" /\ todo' = {}
                   /\ UNCHANGED draining
              ELSE /\ Answer(r, entry)
                   /\ active' = active \ {r}
                   /\ todo' = todo \ {r}
                   /\ pc' = IF todo' = {} THEN "dispatch" ELSE "reap"
                   /\ halted' = (halted \/ answers \in {"stop", "drain"})
                   /\ draining' = (draining \/ (answers = "drain" /\ active' # {}))
                   /\ UNCHANGED <<pending, future, deferred, cancelled>>
  /\ UNCHANGED <<calling, quarantined, work, status>>

\* The worker raised, or the predicate did on its result, which is then
\* followed by a second one: the workspace is reclaimed.
Raises(r) == \/ future[r] = "raised"
             \/ future[r] = "returned" /\ "raises" \in Answers /\ ~halted
ReapRaised(r) ==
  /\ pc = "reap" /\ r \in todo /\ Raises(r)
  /\ count' = [count EXCEPT ![r] = @ + IF future[r] = "raised" THEN 1 ELSE 2]
  /\ result' = [result EXCEPT ![r] = Empty("raised", 0)]
  /\ status' = Written(r, "finished")
  /\ Clear({r})
  /\ active' = active \ {r}
  /\ todo' = todo \ {r}
  /\ pc' = IF todo' = {} THEN "dispatch" ELSE "reap"
  /\ UNCHANGED <<calling, pending, halted, draining, killing, future, work>>

----------------------------------------------------------------------------
(* The end of a call *)

\* Mutated form: the worktree stays in the pool's books.
QuarantineLeased ==
  /\ pc = "grace" /\ pc' = "recover"
  /\ LET late == {r \in deferred : ~Done(r)}
     IN  /\ quarantined' = quarantined \cup late
         /\ status' = [r \in Rollouts |->
              IF r \in late THEN "cancelled" ELSE status[r]]
  /\ UNCHANGED <<calling, control, deferred, cancelled, future, work, slot,
                 tree, git, answer>>

\* The grace for the workers that were given up is over, or all have ended.
\* Those that have not are quarantined: their worktrees leave the pool.
Quarantine ==
  /\ pc = "grace" /\ pc' = "recover"
  /\ LET late == {r \in deferred : ~Done(r)}
     IN  /\ quarantined' = quarantined \cup late
         /\ slot' = [s \in Slots |->
              IF slot[s] \in late THEN "none" ELSE slot[s]]
         /\ status' = [r \in Rollouts |->
              IF r \in late THEN "cancelled" ELSE status[r]]
  /\ UNCHANGED <<calling, control, deferred, cancelled, future, work, tree, git,
                 answer>>

Quiesced == deferred \ quarantined
TimedOut(r) == result[r].why \in {"stalled", "silent"}
Bare(r) == ~result[r].success /\ result[r].patch = "none"

\* A rollout that timed out is credited with what is in its workspace, and
\* with success if the report there is green; one that was preempted with its
\* diff, if it has a verdict on the whole suite.
Recovered(r) ==
  LET diff == Diff(result[r].path)
  IN  IF diff = "none" \/ ~Bare(r) THEN result[r]
      ELSE IF TimedOut(r)
      THEN [result[r] EXCEPT !.patch = diff, !.success = Green(verdict[diff])]
      ELSE IF r \in Quiesced /\ Full(Reported(r))
      THEN [result[r] EXCEPT !.patch = diff]
      ELSE result[r]

Recover ==
  /\ pc = "recover" /\ pc' = "late"
  /\ IF Quiesced = {} THEN UNCHANGED <<result, disk>>
     ELSE /\ result' = [r \in Rollouts |->
               IF count[r] = 0 THEN result[r] ELSE Recovered(r)]
          /\ Clear({r \in Quiesced : result'[r].patch = "none"})
  /\ UNCHANGED <<calling, control, killing, future, work, status, count>>

\* Status files of all rollouts, of earlier calls too, that are terminal,
\* not cancelled and have a verdict, and whose workspace path exists.
Terminal(r) == /\ status[r] \in {"finished", "escrowed"}
               /\ Reported(r) # "none" /\ tree[cwd[r]] # "absent"

LateEntry(r) ==
  LET base == IF count[r] = 0
              THEN [why |-> "late", success |-> TRUE, patch |-> "none",
                    path |-> cwd[r]]
              ELSE IF result[r].path = 0
              THEN [result[r] EXCEPT !.path = cwd[r]] ELSE result[r]
      patch == IF base.patch # "none" THEN base.patch ELSE Diff(base.path)
  IN  [base EXCEPT !.patch = patch,
         !.success = @ \/ (patch # "none" /\ Good(Reported(r)))]

\* A timed-out rollout without a patch then gets the diff of its workspace.
Late ==
  /\ pc = "late" /\ pc' = "promote"
  /\ LET found == {r \in Rollouts : Terminal(r)}
     IN  /\ count' = [r \in Rollouts |->
              IF r \in found /\ count[r] = 0 THEN 1 ELSE count[r]]
         /\ result' = [r \in Rollouts |->
              IF r \in found THEN LateEntry(r)
              ELSE IF TimedOut(r) /\ Bare(r)
              THEN [result[r] EXCEPT !.patch = Diff(result[r].path)]
              ELSE result[r]]
  /\ UNCHANGED <<calling, control, killing, future, work, status, disk>>

Leased(r) == \E s \in Slots : slot[s] = r
Branch(r) == CHOOSE s \in Slots : slot[s] = r

\* Mutated form: the results keep the paths in the pool.
PromoteAside ==
  /\ pc = "promote" /\ pc' = "out"
  /\ tree' = [p \in Paths |->
       IF p \in Rollouts
       THEN IF Leased(p) THEN tree[Branch(p)] ELSE tree[p]
       ELSE IF slot[p] = "none" THEN tree[p] ELSE "absent"]
  /\ slot' = [s \in Slots |-> "none"]
  /\ UNCHANGED <<calling, control, killing, future, work, status, answer, git>>

\* Worktrees still leased move from the pool to rollout_<r>; the others are
\* destroyed, and git worktree prune forgets what it does not find.
Promote ==
  /\ pc = "promote" /\ pc' = "out"
  /\ tree' = [p \in Paths |->
       IF p \in Rollouts
       THEN IF Leased(p) THEN tree[Branch(p)] ELSE tree[p]
       ELSE IF slot[p] = "none" THEN tree[p] ELSE "absent"]
  /\ git' = [p \in Paths |->
       IF ~LinksFollowed THEN 0
       ELSE IF p \in Rollouts
       THEN IF Leased(p) THEN Branch(p) ELSE git[p]
       ELSE IF slot[p] = "none" THEN git[p] ELSE 0]
  /\ result' = [r \in Rollouts |->
       IF count[r] > 0 /\ Leased(r) THEN [result[r] EXCEPT !.path = r]
       ELSE result[r]]
  /\ slot' = [s \in Slots |-> "none"]
  /\ UNCHANGED <<calling, control, killing, future, work, status, count>>

----------------------------------------------------------------------------
Worker(r) == \/ Start(r) \/ Edit(r) \/ Verify(r) \/ Finish(r)
             \/ Finalize(r) \/ Return(r) \/ Raise(r)
Ending == Quarantine \/ Recover \/ Late \/ Promote
Looping == \/ Submit \/ Wait \/ Tick \/ Emergency \/ DrainExpires
           \/ \E S \in SUBSET Rollouts : Expire(S)
           \/ \E r \in Rollouts : Prepare(r) \/ SetupFails(r)
           \/ \E r \in Rollouts : Reap(r) \/ ReapRaised(r)
Scheduler == Looping \/ Ending
Next == Call \/ Scheduler \/ \E r \in Rollouts : Worker(r)

Spec == Init /\ [][Next]_vars
\* The scheduler thread runs, and no rollout goes on for ever without the
\* task falling silent for the window (emergency_silence_window_seconds).
LiveSpec == Spec /\ WF_vars(Scheduler) /\ SF_vars(Emergency)

----------------------------------------------------------------------------
Callers == {"out", "dispatch", "wait", "tick", "reap", "grace", "recover",
            "late", "promote"}
TypeOK ==
  /\ pc \in Callers /\ call \in 0..Calls /\ workers \in 1..MaxWorkers
  /\ pending \subseteq Members /\ active \subseteq Members
  /\ todo \subseteq active
  /\ halted \in BOOLEAN /\ draining \in BOOLEAN
  /\ deferred \subseteq Members /\ quarantined \subseteq Rollouts
  /\ cancelled \subseteq Members /\ edited \subseteq Rollouts
  /\ future \in [Rollouts -> {"none", "prepared", "queued", "running",
                              "ending", "returned", "raised", "dropped"}]
  /\ cwd \in [Rollouts -> Paths \cup {0}]
  /\ verdict \in [Rollouts -> Verdicts \cup {"none"}]
  /\ status \in [Rollouts -> {"none", "live", "finished", "escrowed",
                              "cancelled"}]
  /\ slot \in [Slots -> Rollouts \cup {"none", "free"}]
  /\ tree \in [Paths -> Rollouts \cup {"absent", "clean"}]
  /\ git \in [Paths -> Paths \cup {0}]
  /\ count \in [Rollouts -> 0..2] /\ result \in [Rollouts -> Results]

\* No worker is left over from an earlier call in a pool worktree.
Settled == \A r \in quarantined : Of[r] = call

\* A worker that runs, given up or not, has in its workspace what it did
\* there and nothing else: no reset, hand-over or move takes it away while
\* the call that started it lasts.
RunningKeepsItsTree ==
  Settled => \A r \in Members : Busy(r) =>
    tree[cwd[r]] = IF r \in edited THEN r ELSE "clean"

\* A call answers each of its requests once; only one that never got a
\* workspace goes without an answer, after a stop or the emergency cap.
AnsweredOrStopped ==
  (pc = "out" /\ call > 0) =>
    \A r \in Members :
      \/ count[r] = 1
      \/ /\ count[r] = 0 /\ cwd[r] = 0
         /\ halted \/ \E q \in Members : result[q].why = "silent"

\* Edits that passed the whole suite, of a worker that ended before it was
\* quarantined, come back as a success with the workspace that has them.
PassSurvives ==
  (pc = "out" /\ Settled) =>
    \A r \in Members :
      (/\ future[r] = "returned" /\ r \notin quarantined
       /\ verdict[r] = "pass" /\ r \in edited)
        => /\ result[r].success /\ result[r].patch = r
           /\ tree[result[r].path] = r

\* A patch comes back with the workspace it was taken from.
HandedOverTreesStand ==
  (pc = "out" /\ Settled) =>
    \A r \in Members :
      result[r].patch = r => tree[result[r].path] = r

\* A call returns.
CallsReturn == pc # "out" ~> pc = "out"

\* "A scheduler/wall-clock cancel or stop-on-result preempt must NEVER
\* discard a rollout that already produced a clean local full-scope pass".
CancelKeepsPass ==
  \A r \in Rollouts :
    (/\ pc = "grace" /\ r \in deferred
     /\ verdict[r] = "pass" /\ r \in edited)
      ~> (pc = "out" /\ result[r].success)

\* "the consumer expects each RolloutResult.worktree_path to remain readable
\* AFTER execute_rollout_requests returns": no later call removes it.
HandedOverTreesStay ==
  [][\A r \in Rollouts :
       (/\ (pc = "out" \/ call > Of[r])
        /\ future[r] = "returned" /\ tree[r] = r)
         => tree'[r] = r]_vars

\* A result has no patch but the one of its own rollout.
CreditIsOwn ==
  pc = "out" => \A r \in Rollouts : result[r].patch \in {r, "none"}

\* The results of a call are those of its requests.
ResultsAreAsked ==
  pc = "out" => \A r \in Rollouts : count[r] > 0 => r \in Members
=============================================================================
