------------------------------- MODULE Engine -------------------------------
(***************************************************************************)
(* Engine.agent (apex_omega/engine/runtime.py): the journaled worker call. *)
(*                                                                         *)
(* Caller threads ask for calls.  A call the journal has settled is        *)
(* replayed; a fresh one is counted against the agent ceiling, waits for   *)
(* one of the worker slots, runs its worker, is committed and charged to   *)
(* the budget.  A watched worker that outlives its wall is abandoned: its  *)
(* caller goes on with an infra_nonresult, and a reaper gives the slot     *)
(* back once the worker ends.  The journal is reduced to what agent() sees *)
(* of it: which calls are settled, and how many agent records there are    *)
(* (module Journal shows that both survive a kill).                        *)
(***************************************************************************)
EXTENDS Integers, FiniteSets

CONSTANTS
  Calls,          \* the distinct calls (journal keys)
  Watched,        \* the calls with a heartbeat wall or a timeout
  Callers,        \* threads that call agent()
  MaxConcurrent,  \* max_concurrent: the initial value of the semaphore
  MaxTotal,       \* max_total_agents; 0 switches the ceiling off
  MaxDispatches,  \* bound: fresh calls begun by one process
  MaxCrashes      \* bound: number of kills

ASSUME ConstantsAssumption ==
  /\ Watched \subseteq Calls
  /\ IsFiniteSet(Callers)
  /\ MaxConcurrent \in Nat \ {0}
  /\ MaxTotal \in Nat
  /\ MaxDispatches \in Nat
  /\ MaxCrashes \in Nat

VARIABLES
  up,          \* is the process alive?
  pc,          \* where each caller stands in agent()
  call,        \* the call each caller is making
  res,         \* the result a caller holds, see Results
  total,       \* _total_agents
  slots,       \* _sem: the free slots
  abandoned,   \* workers that still run although their caller has left
  reaping,     \* abandoned workers that ended, their slot not yet given back
  spent,       \* budget._spent: one unit of tokens per worker result
  settled,     \* journal: the calls with a committed ok record
  recs,        \* journal: the number of committed agent records
  ran,         \* history: workers started over the whole run
  ranEarlier,  \* history: workers started by earlier processes
  lost,        \* history: workers started whose record a kill prevented
  crashes      \* number of kills so far

vars == <<up, pc, call, res, total, slots, abandoned, reaping, spent, settled,
          recs, ran, ranEarlier, lost, crashes>>
journal == <<settled, recs>>
history == <<ran, ranEarlier, lost, crashes>>

\* "fail": the worker reported a failure; "abandoned" and "refused": results
\* the engine makes up (watchdog, ceiling), which carry no usage.
Results == {"ok", "fail", "abandoned", "refused"}
PCs == {"idle", "missed", "queued", "working", "ended", "result", "committed"}

At(places) == {c \in Callers : pc[c] \in places}
\* Callers whose call is counted in _total_agents and not yet recorded.
Counted == At({"queued", "working", "ended", "result"})
\* Callers whose worker has started and is not yet recorded.
Started == At({"working", "ended"}) \cup {c \in At({"result"}) : res[c] # "refused"}
\* Callers whose worker result is not yet charged.
Uncharged == At({"working", "ended"})
               \cup {c \in At({"result", "committed"}) : res[c] \in {"ok", "fail"}}
\* Callers whose own worker holds a slot.
Holding == At({"working", "ended"})
\* Worker processes alive now.
Live == Cardinality(At({"working"})) + abandoned

----------------------------------------------------------------------------
Init ==
  /\ up = TRUE
  /\ pc = [c \in Callers |-> "idle"]
  /\ call \in [Callers -> Calls]
  /\ res = [c \in Callers |-> "ok"]
  /\ total = 0 /\ slots = MaxConcurrent /\ abandoned = 0 /\ reaping = 0
  /\ spent = 0 /\ settled = {} /\ recs = 0
  /\ ran = 0 /\ ranEarlier = 0 /\ lost = 0 /\ crashes = 0

\* Mutated form: a replayed result is charged as well.
HitCharged(c, k) ==
  /\ up /\ pc[c] = "idle" /\ k \in settled /\ spent < MaxDispatches
  /\ spent' = spent + 1
  /\ call' = [call EXCEPT ![c] = k]
  /\ res' = [res EXCEPT ![c] = "ok"]
  /\ UNCHANGED <<up, pc, total, slots, abandoned, reaping, journal, history>>

\* The journal replays a settled call: nothing is counted, run or charged.
Hit(c, k) ==
  /\ up /\ pc[c] = "idle" /\ k \in settled
  /\ call' = [call EXCEPT ![c] = k]
  /\ res' = [res EXCEPT ![c] = "ok"]
  /\ UNCHANGED <<up, pc, total, slots, abandoned, reaping, spent, journal,
                 history>>

\* The journal misses and begins the call.
Miss(c, k) ==
  /\ up /\ pc[c] = "idle" /\ k \notin settled
  /\ total + Cardinality(At({"missed"})) < MaxDispatches
  /\ pc' = [pc EXCEPT ![c] = "missed"]
  /\ call' = [call EXCEPT ![c] = k]
  /\ UNCHANGED <<up, res, total, slots, abandoned, reaping, spent, journal,
                 history>>

\* Mutated form: the ceiling is compared before the call is counted.
CountLate(c) ==
  /\ up /\ pc[c] = "missed"
  /\ total' = total + 1
  /\ IF MaxTotal # 0 /\ total > MaxTotal
     THEN /\ pc' = [pc EXCEPT ![c] = "result"]
          /\ res' = [res EXCEPT ![c] = "refused"]
     ELSE /\ pc' = [pc EXCEPT ![c] = "queued"]
          /\ UNCHANGED res
  /\ UNCHANGED <<up, call, slots, abandoned, reaping, spent, journal, history>>

\* _safe_runner counts the call first; over the ceiling no worker starts.
Count(c) ==
  /\ up /\ pc[c] = "missed"
  /\ total' = total + 1
  /\ IF MaxTotal # 0 /\ total' > MaxTotal
     THEN /\ pc' = [pc EXCEPT ![c] = "result"]
          /\ res' = [res EXCEPT ![c] = "refused"]
     ELSE /\ pc' = [pc EXCEPT ![c] = "queued"]
          /\ UNCHANGED res
  /\ UNCHANGED <<up, call, slots, abandoned, reaping, spent, journal, history>>

\* Mutated form: the worker does not wait for a slot.
AcquireBusy(c) ==
  /\ up /\ pc[c] = "queued"
  /\ slots' = slots - 1
  /\ ran' = ran + 1
  /\ pc' = [pc EXCEPT ![c] = "working"]
  /\ UNCHANGED <<up, call, res, total, abandoned, reaping, spent, journal,
                 ranEarlier, lost, crashes>>

\* _sem.acquire returns; the worker starts.
Acquire(c) ==
  /\ up /\ pc[c] = "queued" /\ slots > 0
  /\ slots' = slots - 1
  /\ ran' = ran + 1
  /\ pc' = [pc EXCEPT ![c] = "working"]
  /\ UNCHANGED <<up, call, res, total, abandoned, reaping, spent, journal,
                 ranEarlier, lost, crashes>>

\* The worker returns; an exception of its runner becomes a failed result.
Finish(c, r) ==
  /\ up /\ pc[c] = "working" /\ r \in {"ok", "fail"}
  /\ pc' = [pc EXCEPT ![c] = "ended"]
  /\ res' = [res EXCEPT ![c] = r]
  /\ UNCHANGED <<up, call, total, slots, abandoned, reaping, spent, journal,
                 history>>

\* Mutated form: a failed result returns before the slot is given back.
ReleaseOkOnly(c) ==
  /\ up /\ pc[c] = "ended"
  /\ slots' = IF res[c] = "ok" THEN slots + 1 ELSE slots
  /\ pc' = [pc EXCEPT ![c] = "result"]
  /\ UNCHANGED <<up, call, res, total, abandoned, reaping, spent, journal,
                 history>>

\* The finally clause: the owner gives the slot back.
Release(c) ==
  /\ up /\ pc[c] = "ended"
  /\ slots' = slots + 1
  /\ pc' = [pc EXCEPT ![c] = "result"]
  /\ UNCHANGED <<up, call, res, total, abandoned, reaping, spent, journal,
                 history>>

\* Mutated form: the abandoning caller gives the slot back itself.
AbandonReleasing(c) ==
  /\ up /\ pc[c] = "working" /\ call[c] \in Watched
  /\ slots' = slots + 1
  /\ abandoned' = abandoned + 1
  /\ pc' = [pc EXCEPT ![c] = "result"]
  /\ res' = [res EXCEPT ![c] = "abandoned"]
  /\ UNCHANGED <<up, call, total, reaping, spent, journal, history>>

\* Mutated form: no wall is ever set.
AbandonNever(c) == up /\ pc[c] = "nowhere" /\ UNCHANGED vars

\* The wall passes first: the caller leaves, the worker keeps its slot.
Abandon(c) ==
  /\ up /\ pc[c] = "working" /\ call[c] \in Watched
  /\ abandoned' = abandoned + 1
  /\ pc' = [pc EXCEPT ![c] = "result"]
  /\ res' = [res EXCEPT ![c] = "abandoned"]
  /\ UNCHANGED <<up, call, total, slots, reaping, spent, journal, history>>

\* An abandoned worker ends; its result is dropped.
AbandonedEnds ==
  /\ up /\ abandoned > 0
  /\ abandoned' = abandoned - 1
  /\ reaping' = reaping + 1
  /\ UNCHANGED <<up, pc, call, res, total, slots, spent, journal, history>>

\* _reap: the worker is joined, its slot given back.
Reap ==
  /\ up /\ reaping > 0
  /\ reaping' = reaping - 1
  /\ slots' = slots + 1
  /\ UNCHANGED <<up, pc, call, res, total, abandoned, spent, journal, history>>

\* The journal records the result, usable or not.
Commit(c) ==
  /\ up /\ pc[c] = "result"
  /\ recs' = recs + 1
  /\ settled' = IF res[c] = "ok" THEN settled \cup {call[c]} ELSE settled
  /\ pc' = [pc EXCEPT ![c] = "committed"]
  /\ UNCHANGED <<up, call, res, total, slots, abandoned, reaping, spent,
                 history>>

\* budget.add_usage of the fresh result; agent() returns it.
Charge(c) ==
  /\ up /\ pc[c] = "committed"
  /\ spent' = IF res[c] \in {"ok", "fail"} THEN spent + 1 ELSE spent
  /\ pc' = [pc EXCEPT ![c] = "idle"]
  /\ UNCHANGED <<up, call, res, total, slots, abandoned, reaping, journal,
                 history>>

\* kill -9: threads, semaphore, tally and budget are gone.
Kill ==
  /\ up /\ crashes < MaxCrashes
  /\ up' = FALSE
  /\ crashes' = crashes + 1
  /\ lost' = lost + Cardinality(Started)
  /\ ranEarlier' = ran
  /\ pc' = [c \in Callers |-> "idle"]
  /\ abandoned' = 0 /\ reaping' = 0
  /\ UNCHANGED <<call, res, total, slots, spent, journal, ran>>

\* A new engine on the same run directory, with n calls counted.
RestartAt(n) ==
  /\ ~up
  /\ up' = TRUE
  /\ total' = n /\ slots' = MaxConcurrent /\ spent' = 0
  /\ UNCHANGED <<pc, call, res, abandoned, reaping, journal, history>>

\* Mutated form: the tally starts from nothing in every process.
RestartFromZero == RestartAt(0)

\* The tally comes from the journal (fresh_agent_count).
Restart == RestartAt(recs)

\* What the engine itself does for caller c, once asked.
Proceed(c) ==
  Count(c) \/ Acquire(c) \/ Release(c) \/ Commit(c) \/ Charge(c)
Finishes(c) == \E r \in Results : Finish(c, r)

Next ==
  \/ \E c \in Callers :
       \/ \E k \in Calls : Hit(c, k) \/ Miss(c, k)
       \/ Proceed(c) \/ Finishes(c) \/ Abandon(c)
  \/ AbandonedEnds \/ Reap
  \/ Kill \/ Restart

Spec == Init /\ [][Next]_vars

\* The threads of a live process run, and a watched wait ends at its wall; a
\* worker may hang for ever.
FairSpec ==
  /\ Spec
  /\ WF_vars(Reap)
  /\ \A c \in Callers : WF_vars(Proceed(c)) /\ WF_vars(Abandon(c))

----------------------------------------------------------------------------
TypeOK ==
  /\ up \in BOOLEAN
  /\ pc \in [Callers -> PCs]
  /\ call \in [Callers -> Calls]
  /\ res \in [Callers -> Results]
  /\ total \in Nat /\ abandoned \in Nat /\ reaping \in Nat /\ spent \in Nat
  /\ slots \in Nat
  /\ settled \subseteq Calls
  /\ recs \in Nat
  /\ ran \in Nat /\ ranEarlier \in 0..ran /\ lost \in Nat /\ crashes \in Nat

\* "runs at most max_concurrent at once" (runtime.py:66): the workers alive,
\* the abandoned ones included, never outnumber the semaphore's slots, and a
\* slot is never given back twice.
WorkersWithinSlots == up => Live <= MaxConcurrent /\ slots <= MaxConcurrent

\* No slot leaks: once every caller has left and every abandoned worker is
\* reaped, the engine has all of its slots again.
SlotsComeBack ==
  up /\ Live = 0 /\ reaping = 0 /\ At({"ended"}) = {} => slots = MaxConcurrent

\* The rehydrated tally is the one the live process would have had: at every
\* moment it is the journal's agent records plus the dispatches in progress,
\* whatever the number of restarts behind it (runtime.py:74).
TallyIsExact == up => total = recs + Cardinality(Counted)

\* The ceiling holds over the whole run, however often it is restarted, up to
\* the workers a kill caught between their start and their record.
CeilingUpToLoss == MaxTotal # 0 => ran <= MaxTotal + lost

\* "Budget is charged ONLY on fresh (non-cached) work" (runtime.py:10), and
\* once: a process is never charged for more results than workers it started.
ResumeIsFree == up => spent + Cardinality(Uncharged) <= ran - ranEarlier

\* All that the engine does to the journal is to record one result at a time:
\* the ledger of its calls that module Journal keeps in a file.
CallLedger == INSTANCE Ledger WITH Keys <- Calls
ImplementsLedger == CallLedger!Spec

\* A vendor CLI is killed by its own hard timeout, so every worker ends.
WorkersEnd == WF_vars(AbandonedEnds) /\ \A c \in Callers : WF_vars(Finishes(c))

\* Every call is answered (or its process killed) if every worker ends, with
\* fewer slots than callers and abandoned workers holding some of them.
EveryCallAnswered ==
  WorkersEnd => \A c \in Callers : pc[c] # "idle" ~> pc[c] = "idle"

\* A hung worker does not keep its own caller: a watched call whose worker
\* runs is answered even if no worker ever ends.
WatchdogAnswers ==
  \A c \in Callers : pc[c] = "working" /\ call[c] \in Watched ~> pc[c] = "idle"

\* "a hung/non-vendor agent can never block the cell forever"
\* (runtime.py:171): with every call watched, every caller goes on.
HungNeverBlocks ==
  Watched = Calls => \A c \in Callers : pc[c] # "idle" ~> pc[c] = "idle"
=============================================================================
