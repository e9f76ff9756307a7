------------------------------- MODULE Waves -------------------------------
(***************************************************************************)
(* Journaled wave decisions (OrchestrationContext.parallel, _wave_verdict, *)
(* should_continue_waves, signals and workflow in                          *)
(* apex_omega/autogen/context.py) across kills of the process.             *)
(*                                                                         *)
(* A run executes its contexts one after the other, each with a detector   *)
(* of its own: nested workflows first, then the waves of the script that   *)
(* started them.  The script of a context is a loop of waves.  The journal *)
(* keeps the diffs of attempts that ended well, by attempt; real           *)
(* measurements, by diff; the answers to read-only questions; and the      *)
(* verdicts, by position.  A process that starts again runs the same       *)
(* script and finds these there.                                           *)
(*                                                                         *)
(* An attempt is one step: what a kill inside an attempt does is the       *)
(* subject of modules Journal and Engine.                                  *)
(***************************************************************************)
EXTENDS Governor

CONSTANTS
  Contexts,   \* sequence of [ns |-> name space, script |-> its program]
  Scripts,    \* the programs
  Width,      \* attempts of a wave
  Polls,      \* does the loop ask should_continue_waves before each wave?
  Asks,       \* does it ask a read-only question before each wave?
  Shas,       \* non-empty diffs
  Scores,     \* [gold, rate, valid]: what a measurement may give
  MaxWaves,   \* bound: waves of a context
  MaxKills    \* bound: kills

ASSUME WavesAssumption ==
  /\ Contexts \in Seq([ns : STRING, script : Scripts])
  /\ Width \in Nat \ {0}
  /\ {Polls, Asks} \subseteq BOOLEAN
  /\ {MaxWaves, MaxKills} \subseteq Nat

VARIABLES
  diffs,     \* journal: attempt -> diff of its ok record
  scores,    \* journal: diff -> its real measurement
  asked,     \* journal: the questions answered
  verdicts,  \* journal: position -> verdict
  agents,    \* agents_used: recovered from the journal by every process
  up,        \* is a process running?
  at,        \* the context it executes
  pos,       \* _wave_counter of that context
  out,       \* results of the wave in progress: slot -> result
  d,         \* the detector of that context
  spent,     \* tokens this process spent, one per agent
  halt,      \* "continue", or _halt_reason
  inputs,    \* history: position -> windows its verdict was taken on
  last,      \* history: the latest decision of the process
  clean,     \* history: every attempt gave an ok diff and a real measurement
  kills      \* number of kills

journal == <<diffs, scores, asked, verdicts, agents>>
process == <<at, pos, out, d, spent, halt, last>>
vars == <<journal, up, process, inputs, clean, kills>>

\* The function f with one more entry, or with that entry replaced.
Added(f, key, value) ==
  [k \in DOMAIN f \cup {key} |-> IF k = key THEN value ELSE f[k]]

Ctx == Contexts[at]
Wave == IF Polls THEN pos \div 2 ELSE pos
AttemptKey(slot) == <<Ctx.ns, Ctx.script, Wave * Width + slot>>
Question == <<Ctx.ns, Ctx.script, Wave>>

\* Mutated form: the name space is left out of the key.
PlaceBare == <<"", pos>>

\* The journal key of a verdict: name space and position, nothing else.
Place == <<Ctx.ns, pos>>

\* The detector without its marks in agents and tokens, which are counted
\* anew, or not at all, by a process that starts again.
Windows(det) == [det EXCEPT !.agentsAt = 0, !.tokensAt = 0]

NoDecision == [hit |-> FALSE, place |-> <<>>, windows |-> <<>>]

\* A loop that polls takes every other position for the poll.
AtPoll == Polls /\ pos % 2 = 0
Running == up /\ at <= Len(Contexts) /\ halt = "continue" /\ Wave < MaxWaves
InWave == Running /\ ~AtPoll /\ (Asks => Question \in asked)

Start ==   \* a process before its first step
  /\ at' = 1 /\ pos' = 0 /\ out' = <<>> /\ d' = Fresh
  /\ spent' = 0 /\ halt' = "continue" /\ last' = NoDecision

Init ==
  /\ diffs = <<>> /\ scores = <<>> /\ asked = {} /\ verdicts = <<>>
  /\ agents = 0 /\ up = TRUE
  /\ at = 1 /\ pos = 0 /\ out = <<>> /\ d = Fresh
  /\ spent = 0 /\ halt = "continue" /\ last = NoDecision
  /\ inputs = <<>> /\ clean = TRUE /\ kills = 0

\* Mutated form: the verdict is taken anew each time.
DecideLive(det) ==
  LET why == Verdict(WaveState(det, agents, spent), agents, spent)
  IN  /\ verdicts' = Added(verdicts, Place, why)
      /\ inputs' = Added(inputs, Place, Windows(det))
      /\ last' = [hit |-> FALSE, place |-> Place, windows |-> Windows(det)]
      /\ halt' = why
      /\ pos' = pos + 1

\* Mutated form: a replayed verdict does not halt the process.
DecideForgetful(det) ==
  LET hit == Place \in DOMAIN verdicts
      why == IF hit THEN verdicts[Place]
             ELSE Verdict(WaveState(det, agents, spent), agents, spent)
  IN  /\ verdicts' = Added(verdicts, Place, why)
      /\ inputs' = IF hit THEN inputs ELSE Added(inputs, Place, Windows(det))
      /\ last' = [hit |-> hit, place |-> Place, windows |-> Windows(det)]
      /\ halt' = IF hit THEN "continue" ELSE why
      /\ pos' = pos + 1

\* _wave_verdict: the verdict of this position from the journal, else the
\* governor's, which is journaled before it is obeyed.
Decide(det) ==
  LET hit == Place \in DOMAIN verdicts
      why == IF hit THEN verdicts[Place]
             ELSE Verdict(WaveState(det, agents, spent), agents, spent)
  IN  /\ verdicts' = Added(verdicts, Place, why)
      /\ inputs' = IF hit THEN inputs ELSE Added(inputs, Place, Windows(det))
      /\ last' = [hit |-> hit, place |-> Place, windows |-> Windows(det)]
      /\ halt' = why
      /\ pos' = pos + 1

\* should_continue_waves, before a wave.
Poll ==
  /\ Running /\ AtPoll
  /\ Decide(d)
  /\ UNCHANGED <<diffs, scores, asked, agents, up, at, out, d, spent, clean,
                 kills>>

\* signals: a question dispatches an agent, unless its answer is journaled;
\* the detector is not told.
Ask ==
  /\ Asks /\ Running /\ ~AtPoll /\ Question \notin asked
  /\ asked' = asked \cup {Question}
  /\ agents' = agents + 1 /\ spent' = spent + 1
  /\ UNCHANGED <<diffs, scores, verdicts, up, at, pos, out, d, halt, last,
                 inputs, clean, kills>>

Nothing == [none |-> TRUE, ok |-> FALSE, valid |-> FALSE, gold |-> 0,
            rate |-> 0, sha |-> NoDiff]
Result(ok, sha, score) ==
  [none |-> FALSE, ok |-> ok, valid |-> score.valid, gold |-> score.gold,
   rate |-> score.rate, sha |-> sha]

\* _scored: the journaled measurement of a diff, or a new one, which is
\* journaled if it is a real one.
Scored(sha, score) ==
  /\ IF sha \in DOMAIN scores THEN score = scores[sha] ELSE score \in Scores
  /\ scores' = IF score.valid THEN Added(scores, sha, score) ELSE scores

\* The attempt of a slot gets no worktree, or raises: no candidate.
AttemptFails(slot) ==
  /\ InWave /\ slot \notin DOMAIN out
  /\ out' = Added(out, slot, Nothing)
  /\ clean' = FALSE
  /\ UNCHANGED <<journal, up, at, pos, d, spent, halt, last, inputs, kills>>

\* The agent of an attempt is replayed from the journal, and its diff scored.
AttemptHit(slot) ==
  /\ InWave /\ slot \notin DOMAIN out
  /\ AttemptKey(slot) \in DOMAIN diffs
  /\ LET sha == diffs[AttemptKey(slot)]
     IN  \E score \in Scores :
           /\ Scored(sha, score)
           /\ out' = Added(out, slot, Result(TRUE, sha, score))
           /\ clean' = (clean /\ score.valid)
  /\ UNCHANGED <<diffs, asked, verdicts, agents, up, at, pos, d, spent, halt,
                 last, inputs, kills>>

\* The agent of an attempt is run: it ends well with some diff, which is
\* journaled, or it gives a non-result; what it left is scored.
AttemptRun(slot) ==
  /\ InWave /\ slot \notin DOMAIN out
  /\ AttemptKey(slot) \notin DOMAIN diffs
  /\ \E ok \in BOOLEAN, sha \in Shas \cup {NoDiff}, score \in Scores :
       /\ Scored(sha, score)
       /\ diffs' = IF ok THEN Added(diffs, AttemptKey(slot), sha) ELSE diffs
       /\ out' = Added(out, slot, Result(ok, sha, score))
       /\ clean' = (clean /\ ok /\ score.valid)
  /\ agents' = agents + 1 /\ spent' = spent + 1
  /\ UNCHANGED <<asked, verdicts, up, at, pos, d, halt, last, inputs, kills>>

\* The barrier of ctx.parallel: the wave is observed and judged.
EndWave ==
  /\ InWave /\ DOMAIN out = 1..Width
  /\ d' = Observe(d, out, agents, spent)
  /\ Decide(d')
  /\ out' = <<>>
  /\ UNCHANGED <<diffs, scores, asked, agents, up, at, spent, clean, kills>>

\* The context ends: the next fan-out raises and the script, or the pattern
\* it uses, catches it.  The next context has a detector of its own.
Leave ==
  /\ up /\ at <= Len(Contexts)
  /\ halt # "continue" \/ Wave = MaxWaves
  /\ at' = at + 1
  /\ pos' = 0 /\ out' = <<>> /\ d' = Fresh /\ halt' = "continue"
  /\ UNCHANGED <<journal, up, spent, last, inputs, clean, kills>>

Kill ==
  /\ up /\ at <= Len(Contexts) /\ kills < MaxKills
  /\ up' = FALSE /\ kills' = kills + 1
  /\ UNCHANGED <<journal, process, inputs, clean>>

Restart ==
  /\ ~up /\ up' = TRUE
  /\ Start
  /\ UNCHANGED <<journal, inputs, clean, kills>>

Next ==
  \/ Poll \/ Ask \/ EndWave \/ Leave \/ Kill \/ Restart
  \/ \E slot \in 1..Width :
       AttemptFails(slot) \/ AttemptHit(slot) \/ AttemptRun(slot)

Spec == Init /\ [][Next]_vars
----------------------------------------------------------------------------
Verdicts == {Reasons[i] : i \in DOMAIN Reasons}
Halting(place) == verdicts[place] # "continue"

\* Types of the variables a verdict is taken from.
TypeOK ==
  /\ at \in 1..(Len(Contexts) + 1) /\ pos \in Nat /\ agents \in Nat
  /\ spent \in 0..agents
  /\ halt \in Verdicts
  /\ \A p \in DOMAIN verdicts : verdicts[p] \in Verdicts
  /\ DOMAIN inputs = DOMAIN verdicts

\* Across kills, a verdict once journaled is never taken back: every later
\* process sees the branch the first one took.
JournaledVerdictsStand ==
  [][\A p \in DOMAIN verdicts :
       p \in DOMAIN verdicts' /\ verdicts'[p] = verdicts[p]]_vars

\* In one name space no process ever decides beyond a halt, its own or that
\* of an earlier process.
NothingAfterHalt ==
  \A p, q \in DOMAIN verdicts : p[1] = q[1] /\ p[2] < q[2] => ~Halting(p)

\* When every attempt so far ended well, a process that replays a decision
\* stands at it with the best results, windows, streaks and seen diffs that
\* it was taken on (the accounting of _observe over cached results).
ReplayRebuildsWindows ==
  last.hit /\ clean => last.windows = inputs[last.place]

\* What the code says of the first run: it takes its verdicts live.
FirstRunDecidesLive == kills = 0 => ~last.hit
=============================================================================
