---------------------------- MODULE WavesProofs ----------------------------
(***************************************************************************)
(* Proofs about module Waves: the verdicts of a name space form a prefix   *)
(* that every process walks from its start, and that ends at a halt; and   *)
(* the journal alone gives back the windows each verdict was taken on.     *)
(***************************************************************************)
EXTENDS Waves, TLAPS, SequenceTheorems, WellFoundedInduction

\* Positions are pairs of a name space and a number.
Placed ==
  /\ pos \in Nat
  /\ \A p \in DOMAIN verdicts : p = <<p[1], p[2]>> /\ p[2] \in Nat

\* The verdicts of a name space have no gaps.
NoGaps ==
  \A p \in DOMAIN verdicts : \A k \in Nat :
    k < p[2] => <<p[1], k>> \in DOMAIN verdicts

\* The process has found or taken a verdict at each position it passed, and
\* while it is not halted each was to continue.
Walked ==
  at <= Len(Contexts) =>
    \A k \in Nat : k < pos =>
      /\ <<Ctx.ns, k>> \in DOMAIN verdicts
      /\ halt = "continue" => verdicts[<<Ctx.ns, k>>] = "continue"

WavesInv == Placed /\ NoGaps /\ Walked /\ NothingAfterHalt

\* What a decision does to the journal: it adds the verdict of this position,
\* and nothing if there is one.
LEMMA DecideAdds ==
  ASSUME NEW det, Decide(det)
  PROVE  /\ DOMAIN verdicts' = DOMAIN verdicts \cup {Place}
         /\ \A p \in DOMAIN verdicts : verdicts'[p] = verdicts[p]
         /\ verdicts'[Place] = halt'
         /\ pos' = pos + 1
<1> DEFINE hit == Place \in DOMAIN verdicts
           why == IF hit THEN verdicts[Place]
                  ELSE Verdict(WaveState(det, agents, spent), agents, spent)
<1>1. /\ verdicts' = Added(verdicts, Place, why)
      /\ halt' = why /\ pos' = pos + 1
  BY DEF Decide
<1> HIDE DEF why
<1>2. /\ DOMAIN verdicts' = {Place} \cup DOMAIN verdicts
      /\ verdicts'[Place] = why
      /\ \A p \in DOMAIN verdicts : p # Place => verdicts'[p] = verdicts[p]
  BY <1>1 DEF Added
<1>3. hit => why = verdicts[Place]
  BY DEF why
<1> QED BY <1>1, <1>2, <1>3

\* A running process that decides keeps the invariant.
LEMMA DecideKeeps ==
  ASSUME WavesInv, Running, NEW det, Decide(det), at' = at
  PROVE  WavesInv'
<1>1. /\ DOMAIN verdicts' = DOMAIN verdicts \cup {Place}
      /\ \A p \in DOMAIN verdicts : verdicts'[p] = verdicts[p]
      /\ verdicts'[Place] = halt'
      /\ pos' = pos + 1
  BY DecideAdds
<1>2. /\ Place = <<Ctx.ns, pos>> /\ Ctx' = Ctx /\ pos \in Nat
      /\ at <= Len(Contexts) /\ halt = "continue"
  BY DEF Place, Ctx, Running, WavesInv, Placed
<1>3. \A k \in Nat : k < pos =>
        <<Ctx.ns, k>> \in DOMAIN verdicts /\ verdicts[<<Ctx.ns, k>>] = "continue"
  BY <1>2 DEF WavesInv, Walked
<1>4. Placed'
  BY <1>1, <1>2 DEF WavesInv, Placed
<1>5. NoGaps'
  BY <1>1, <1>2, <1>3 DEF WavesInv, NoGaps, Placed
<1>6. Walked'
  <2> SUFFICES ASSUME NEW k \in Nat, k < pos'
               PROVE  /\ <<Ctx.ns, k>> \in DOMAIN verdicts'
                      /\ halt' = "continue" =>
                           verdicts'[<<Ctx.ns, k>>] = "continue"
    BY <1>2 DEF Walked
  <2>1. CASE k < pos
    BY <2>1, <1>1, <1>3
  <2>2. CASE k = pos
    BY <2>2, <1>1, <1>2
  <2> QED BY <2>1, <2>2, <1>1, <1>2
<1>7. NothingAfterHalt'
  <2> SUFFICES ASSUME NEW p \in DOMAIN verdicts', NEW q \in DOMAIN verdicts',
                      p[1] = q[1], p[2] < q[2]
               PROVE  verdicts'[p] = "continue"
    BY DEF NothingAfterHalt, Halting
  <2>1. CASE Place \in DOMAIN verdicts
    BY <2>1, <1>1 DEF WavesInv, NothingAfterHalt, Halting
  <2>2. CASE Place \notin DOMAIN verdicts
    <3>1. p # Place
      <4> SUFFICES ASSUME p = Place PROVE FALSE
        OBVIOUS
      <4>1. p[1] = Ctx.ns /\ p[2] = pos
        BY <1>2
      <4>2. q \in DOMAIN verdicts
        BY <4>1, <1>1, <1>2
      <4>3. <<q[1], pos>> \in DOMAIN verdicts
        BY <4>1, <4>2, <1>2 DEF WavesInv, NoGaps
      <4> QED BY <2>2, <4>1, <4>3, <1>2
    <3>2. p \in DOMAIN verdicts /\ verdicts'[p] = verdicts[p]
      BY <3>1, <1>1
    <3>3. CASE q = Place
      <4>1. p = <<Ctx.ns, p[2]>> /\ p[2] \in Nat /\ p[2] < pos
        BY <3>2, <3>3, <1>2 DEF WavesInv, Placed
      <4> QED BY <4>1, <3>2, <1>3
    <3>4. CASE q # Place
      <4>1. q \in DOMAIN verdicts
        BY <3>4, <1>1
      <4> QED BY <4>1, <3>2 DEF WavesInv, NothingAfterHalt, Halting
    <3> QED BY <3>3, <3>4
  <2> QED BY <2>1, <2>2
<1> QED BY <1>4, <1>5, <1>6, <1>7 DEF WavesInv

\* A step that leaves the verdicts and the place of the process alone keeps
\* the invariant.
LEMMA StillKeeps ==
  ASSUME WavesInv, UNCHANGED <<verdicts, at, pos, halt>>
  PROVE  WavesInv'
BY DEF WavesInv, Placed, NoGaps, Walked, NothingAfterHalt, Halting, Ctx

\* A process at its first position keeps the invariant.
LEMMA FirstKeeps ==
  ASSUME WavesInv, UNCHANGED verdicts, pos' = 0
  PROVE  WavesInv'
BY DEF WavesInv, Placed, NoGaps, Walked, NothingAfterHalt, Halting

LEMMA InitHolds == Init => WavesInv
BY DEF Init, WavesInv, Placed, NoGaps, Walked, NothingAfterHalt, Halting

LEMMA StepKeeps == WavesInv /\ [Next]_vars => WavesInv'
<1> SUFFICES ASSUME WavesInv, [Next]_vars PROVE WavesInv'
  OBVIOUS
<1>1. CASE Poll
  BY <1>1, DecideKeeps DEF Poll
<1>2. CASE Ask
  BY <1>2, StillKeeps DEF Ask
<1>3. ASSUME NEW slot \in 1..Width, AttemptFails(slot) PROVE WavesInv'
  BY <1>3, StillKeeps DEF AttemptFails, journal
<1>4. ASSUME NEW slot \in 1..Width, AttemptHit(slot) PROVE WavesInv'
  BY <1>4, StillKeeps DEF AttemptHit
<1>5. ASSUME NEW slot \in 1..Width, AttemptRun(slot) PROVE WavesInv'
  BY <1>5, StillKeeps DEF AttemptRun
<1>6. CASE EndWave
  BY <1>6, DecideKeeps DEF EndWave, InWave
<1>7. CASE Leave
  BY <1>7, FirstKeeps DEF Leave, journal
<1>8. CASE Kill
  BY <1>8, StillKeeps DEF Kill, journal, process
<1>9. CASE Restart
  BY <1>9, FirstKeeps DEF Restart, Start, journal
<1>10. CASE UNCHANGED vars
  BY <1>10, StillKeeps DEF vars, journal, process
<1> QED
  BY <1>1, <1>2, <1>3, <1>4, <1>5, <1>6, <1>7, <1>8, <1>9, <1>10 DEF Next

LEMMA Invariance == Spec => []WavesInv
BY InitHolds, StepKeeps, PTL DEF Spec

\* In one name space no process ever decides beyond a halt, whatever the
\* governor's parameters, the results and the kills.
THEOREM HaltIsFinal == Spec => []NothingAfterHalt
<1>1. WavesInv => NothingAfterHalt
  BY DEF WavesInv
<1> QED BY <1>1, Invariance, PTL

\* A journaled verdict is never taken back or changed by a later process.
THEOREM VerdictsStand == Spec => JournaledVerdictsStand
<1> DEFINE Stand == \A p \in DOMAIN verdicts :
                      p \in DOMAIN verdicts' /\ verdicts'[p] = verdicts[p]
<1>1. ASSUME [Next]_vars PROVE Stand
  <2>1. CASE Poll
    BY <2>1, DecideAdds DEF Poll
  <2>2. CASE EndWave
    <3>1. PICK det : Decide(det)
      BY <2>2 DEF EndWave
    <3> QED BY <3>1, DecideAdds
  <2>3. CASE UNCHANGED verdicts
    BY <2>3
  <2>4. CASE Next /\ ~Poll /\ ~EndWave
    <3>1. UNCHANGED verdicts
      BY <2>4 DEF Next, Ask, AttemptFails, AttemptHit, AttemptRun, Leave, Kill,
                  Restart, journal
    <3> QED BY <3>1
  <2> QED BY <1>1, <2>1, <2>2, <2>3, <2>4 DEF vars, journal
<1>2. [Next]_vars => [Stand]_vars
  BY <1>1
<1> QED BY <1>2, PTL DEF Spec, JournaledVerdictsStand
----------------------------------------------------------------------------
(***************************************************************************)
(* Replays are exact.  A recorded position was decided on the windows that *)
(* the journal alone gives back: those of the position before it, and, at  *)
(* the end of a wave, the journaled diffs and measurements of its slots.   *)
(***************************************************************************)

\* Two contexts that share a name space run the same script.  Without this
\* two sibling workflows read each other's verdicts.
OneScriptPerSpace ==
  \A i, j \in DOMAIN Contexts :
    Contexts[i].ns = Contexts[j].ns => Contexts[i].script = Contexts[j].script

\* Position k of context c: is it a poll, and which attempts are its wave's?
PollAt(k) == Polls /\ k % 2 = 0
KeyAt(c, k, slot) ==
  <<c.ns, c.script, (IF Polls THEN k \div 2 ELSE k) * Width + slot>>

\* The journal alone tells the result of an attempt.
Kept(key) == key \in DOMAIN diffs /\ diffs[key] \in DOMAIN scores
Replayed(key) == Result(TRUE, diffs[key], scores[diffs[key]])

Journaled(c, k) == \A slot \in 1..Width : Kept(KeyAt(c, k, slot))
WaveOf(c, k) == [slot \in 1..Width |-> Replayed(KeyAt(c, k, slot))]

\* The windows at which a process comes to a position, and leaves it.
Before(c, k) == IF k = 0 THEN Windows(Fresh) ELSE inputs[<<c.ns, k - 1>>]
After(c, k) ==
  IF PollAt(k) THEN Before(c, k)
  ELSE Windows(Observe(Before(c, k), WaveOf(c, k), 0, 0))

IsDetector(det) ==
  det = [gold |-> det.gold, rate |-> det.rate, agentsAt |-> det.agentsAt,
         tokensAt |-> det.tokensAt, valid |-> det.valid,
         validAt |-> det.validAt, wall |-> det.wall, wallAt |-> det.wallAt,
         indet |-> det.indet, nonresult |-> det.nonresult,
         sterile |-> det.sterile, seen |-> det.seen]

Shapes ==
  /\ at \in 1..(Len(Contexts) + 1)
  /\ IsDetector(d)
  /\ DOMAIN inputs = DOMAIN verdicts

\* While every attempt ended well, every recorded position is rebuilt from
\* the journal.
Rebuilt ==
  clean => \A i \in DOMAIN Contexts : \A k \in Nat :
    <<Contexts[i].ns, k>> \in DOMAIN inputs =>
      /\ ~PollAt(k) => Journaled(Contexts[i], k)
      /\ inputs[<<Contexts[i].ns, k>>] = After(Contexts[i], k)

\* The process stands where the journal says that its position begins,
Standing ==
  clean /\ at <= Len(Contexts) => Windows(d) = Before(Ctx, pos)

\* with the results of the wave in progress that the journal gives, and with
\* none of them at a poll.
OutKept ==
  /\ PollAt(pos) => out = <<>>
  /\ out = [slot \in DOMAIN out |-> out[slot]]
  /\ clean => \A slot \in DOMAIN out :
       Kept(KeyAt(Ctx, pos, slot)) /\ out[slot] = Replayed(KeyAt(Ctx, pos, slot))

LastKept ==
  last.hit /\ clean =>
    last.place \in DOMAIN inputs /\ last.windows = inputs[last.place]

ReplayInv == WavesInv /\ Shapes /\ Rebuilt /\ Standing /\ OutKept /\ LastKept
\* Two detectors that may differ in their marks of agents and tokens.
Alike(a, b) ==
  /\ a.gold = b.gold /\ a.rate = b.rate
  /\ a.valid = b.valid /\ a.validAt = b.validAt
  /\ a.wall = b.wall /\ a.wallAt = b.wallAt
  /\ a.indet = b.indet /\ a.nonresult = b.nonresult
  /\ a.sterile = b.sterile /\ a.seen = b.seen

LEMMA FreshIsDetector == IsDetector(Fresh)
BY DEF IsDetector, Fresh

LEMMA ObserveIsDetector ==
  ASSUME NEW det, NEW results, NEW used, NEW tokens
  PROVE  IsDetector(Observe(det, results, used, tokens))
BY DEF IsDetector, Observe

LEMMA WindowsFields ==
  ASSUME NEW det, IsDetector(det)
  PROVE  Windows(det) =
           [gold |-> det.gold, rate |-> det.rate, agentsAt |-> 0,
            tokensAt |-> 0, valid |-> det.valid, validAt |-> det.validAt,
            wall |-> det.wall, wallAt |-> det.wallAt, indet |-> det.indet,
            nonresult |-> det.nonresult, sterile |-> det.sterile,
            seen |-> det.seen]
<1> DEFINE e == [gold |-> det.gold, rate |-> det.rate,
                 agentsAt |-> det.agentsAt, tokensAt |-> det.tokensAt,
                 valid |-> det.valid, validAt |-> det.validAt,
                 wall |-> det.wall, wallAt |-> det.wallAt,
                 indet |-> det.indet, nonresult |-> det.nonresult,
                 sterile |-> det.sterile, seen |-> det.seen]
<1>1. det = e
  BY DEF IsDetector
<1>2. Windows(det) = [e EXCEPT !.agentsAt = 0, !.tokensAt = 0]
  BY <1>1 DEF Windows
<1> QED BY <1>2

LEMMA WindowsIsDetector ==
  ASSUME NEW det, IsDetector(det)
  PROVE  IsDetector(Windows(det)) /\ Alike(det, Windows(det))
BY WindowsFields DEF IsDetector, Alike

LEMMA AlikeWindows ==
  ASSUME NEW a, NEW b, IsDetector(a), IsDetector(b), Alike(a, b)
  PROVE  Windows(a) = Windows(b)
BY WindowsFields DEF Alike

\* What the windows become depends on the windows and on the results alone.
LEMMA AlikeObserve ==
  ASSUME NEW a, NEW b, Alike(a, b), NEW results,
         NEW used, NEW tokens, NEW used2, NEW tokens2
  PROVE  Alike(Observe(a, results, used, tokens),
               Observe(b, results, used2, tokens2))
<1>1. /\ BestGold(a, results) = BestGold(b, results)
      /\ BestRate(a, results) = BestRate(b, results)
  BY DEF BestGold, BestRate, Alike
<1>2. Rises(a, results) = Rises(b, results)
  BY <1>1 DEF Rises, Alike
<1>3. NonresultStreak(a, results) = NonresultStreak(b, results)
  BY DEF NonresultStreak, Alike
<1>4. \A i : Sterile(a, results, i) = Sterile(b, results, i)
  BY DEF Sterile, Alike
<1>5. {i \in DOMAIN results : Sterile(a, results, i)}
        = {i \in DOMAIN results : Sterile(b, results, i)}
  BY <1>4
<1>6. SterileStreak(a, results, Rises(a, results))
        = SterileStreak(b, results, Rises(b, results))
  BY <1>2, <1>5 DEF SterileStreak, Alike
<1> QED BY <1>1, <1>2, <1>3, <1>6 DEF Observe, Alike

\* The windows after a wave are told by the windows before it.
LEMMA WindowsObserve ==
  ASSUME NEW det, IsDetector(det), NEW results, NEW used, NEW tokens
  PROVE  Windows(Observe(det, results, used, tokens))
           = Windows(Observe(Windows(det), results, 0, 0))
<1>1. Alike(Observe(det, results, used, tokens),
            Observe(Windows(det), results, 0, 0))
  BY WindowsIsDetector, AlikeObserve
<1> QED BY <1>1, ObserveIsDetector, AlikeWindows

\* A decision at a position whose windows the journal gives back.
LEMMA DecideRebuilds ==
  ASSUME OneScriptPerSpace, ReplayInv, Running, NEW det, Decide(det),
         UNCHANGED <<at, clean, diffs, scores>>,
         d' = det, IsDetector(det), out' = <<>>,
         clean => Windows(det) = After(Ctx, pos),
         clean /\ ~PollAt(pos) => Journaled(Ctx, pos)
  PROVE  Shapes' /\ Rebuilt' /\ Standing' /\ OutKept' /\ LastKept'
<1> DEFINE hit == Place \in DOMAIN verdicts
<1>1. /\ DOMAIN verdicts' = DOMAIN verdicts \cup {Place}
      /\ pos' = pos + 1
  BY DecideAdds
<1>2. /\ inputs' = IF hit THEN inputs ELSE Added(inputs, Place, Windows(det))
      /\ last' = [hit |-> hit, place |-> Place, windows |-> Windows(det)]
  BY DEF Decide
<1>3. /\ Place = <<Ctx.ns, pos>> /\ Ctx' = Ctx /\ pos \in Nat
      /\ at <= Len(Contexts) /\ at \in 1..(Len(Contexts) + 1)
      /\ Len(Contexts) \in Nat /\ DOMAIN Contexts = 1..Len(Contexts)
    BY WavesAssumption
    DEF Place, Ctx, Running, ReplayInv, WavesInv, Placed, Shapes
<1>4. at \in DOMAIN Contexts /\ Ctx = Contexts[at]
  BY <1>3 DEF Ctx
<1>5. /\ DOMAIN inputs = DOMAIN verdicts
      /\ DOMAIN inputs' = DOMAIN verdicts'
      /\ \A p \in DOMAIN inputs : inputs'[p] = inputs[p]
  BY <1>1, <1>2 DEF ReplayInv, Shapes, Added
<1>6. clean => inputs'[Place] = Windows(det)
  <2>1. CASE hit
    BY <2>1, <1>2, <1>3, <1>4, <1>5 DEF ReplayInv, Rebuilt
  <2>2. CASE ~hit
    BY <2>2, <1>2 DEF Added
  <2> QED BY <2>1, <2>2
<1>7. Shapes'
  BY <1>5 DEF ReplayInv, Shapes
<1>8. Standing'
  BY <1>1, <1>3, <1>6 DEF Standing, Before
<1>9. OutKept'
  BY DEF OutKept
<1>10. LastKept'
  BY <1>1, <1>2, <1>5, <1>6 DEF LastKept
<1>11. Rebuilt'
  <2> SUFFICES ASSUME clean, NEW i \in DOMAIN Contexts, NEW k \in Nat,
                      <<Contexts[i].ns, k>> \in DOMAIN inputs'
               PROVE  /\ ~PollAt(k) => Journaled(Contexts[i], k)'
                      /\ inputs'[<<Contexts[i].ns, k>>]
                           = After(Contexts[i], k)'
    BY DEF Rebuilt, PollAt
  <2> DEFINE c == Contexts[i]
  <2>1. Journaled(c, k)' <=> Journaled(c, k)
    BY DEF Journaled, Kept, KeyAt
  <2>2. WaveOf(c, k)' = WaveOf(c, k)
    BY DEF WaveOf, Replayed, KeyAt, Result
  <2>3. Before(c, k)' = Before(c, k)
    <3>1. k # 0 => <<c.ns, k - 1>> \in DOMAIN inputs
      <4>1. CASE <<c.ns, k>> = Place
        BY <4>1, <1>3, <1>4, <1>5 DEF ReplayInv, WavesInv, Walked
      <4>2. CASE <<c.ns, k>> # Place
        <5>1. <<c.ns, k>> \in DOMAIN verdicts
          BY <4>2, <1>1, <1>5
        <5> QED BY <5>1, <1>5 DEF ReplayInv, WavesInv, NoGaps
      <4> QED BY <4>1, <4>2
    <3> QED BY <3>1, <1>5 DEF Before
  <2>4. After(c, k)' = After(c, k)
    BY <2>2, <2>3 DEF After, PollAt
  <2>5. CASE <<c.ns, k>> \in DOMAIN inputs
    BY <2>1, <2>4, <2>5, <1>5 DEF ReplayInv, Rebuilt
  <2>6. CASE <<c.ns, k>> \notin DOMAIN inputs
    <3>1. <<c.ns, k>> = Place
      BY <2>6, <1>1, <1>5
    <3>2. k = pos /\ c.ns = Ctx.ns /\ c.script = Ctx.script
      BY <3>1, <1>3, <1>4 DEF OneScriptPerSpace
    <3>3. KeyAt(c, k, 0) = KeyAt(Ctx, pos, 0)
          /\ \A slot : KeyAt(c, k, slot) = KeyAt(Ctx, pos, slot)
      BY <3>2 DEF KeyAt
    <3>4. /\ Journaled(c, k) <=> Journaled(Ctx, pos)
          /\ WaveOf(c, k) = WaveOf(Ctx, pos)
      BY <3>3 DEF Journaled, WaveOf
    <3>5. After(c, k) = After(Ctx, pos)
      BY <3>2, <3>4 DEF After, Before
    <3> QED BY <2>1, <2>4, <3>1, <3>2, <3>4, <3>5, <1>6
  <2> QED BY <2>5, <2>6
<1> QED BY <1>7, <1>8, <1>9, <1>10, <1>11
\* What the journal tells of an attempt it tells for ever.
LEMMA JournalGrows ==
  ASSUME NEW sha, NEW score, Scored(sha, score)
  PROVE  /\ \A t \in DOMAIN scores :
              t \in DOMAIN scores' /\ scores'[t] = scores[t]
         /\ score.valid => sha \in DOMAIN scores' /\ scores'[sha] = score
BY DEF Scored, Added

\* A step that moves no process past a decision, and only adds to the journal.
LEMMA JournalKeeps ==
  ASSUME ReplayInv, UNCHANGED <<verdicts, inputs, at, pos, d, last>>,
         clean' => clean,
         \A t \in DOMAIN scores : t \in DOMAIN scores' /\ scores'[t] = scores[t],
         \A t \in DOMAIN diffs : t \in DOMAIN diffs' /\ diffs'[t] = diffs[t]
  PROVE  /\ Shapes' /\ Rebuilt' /\ Standing' /\ LastKept'
         /\ \A key : Kept(key) => Kept(key)' /\ Replayed(key)' = Replayed(key)
<1>1. \A key : Kept(key) => Kept(key)' /\ Replayed(key)' = Replayed(key)
  BY DEF Kept, Replayed, Result
<1>2. Shapes' /\ Standing' /\ LastKept'
  BY DEF ReplayInv, Shapes, Standing, LastKept, Ctx, Before
<1>3. Rebuilt'
  <2> SUFFICES ASSUME clean, NEW i \in DOMAIN Contexts, NEW k \in Nat,
                      <<Contexts[i].ns, k>> \in DOMAIN inputs
               PROVE  /\ ~PollAt(k) => Journaled(Contexts[i], k)'
                      /\ inputs[<<Contexts[i].ns, k>>]
                           = After(Contexts[i], k)'
    BY DEF Rebuilt, PollAt
  <2>1. /\ ~PollAt(k) => Journaled(Contexts[i], k)
        /\ inputs[<<Contexts[i].ns, k>>] = After(Contexts[i], k)
    BY DEF ReplayInv, Rebuilt
  <2>2. Before(Contexts[i], k)' = Before(Contexts[i], k)
    BY DEF Before
  <2>3. CASE PollAt(k)
    BY <2>1, <2>2, <2>3 DEF After, PollAt
  <2>4. CASE ~PollAt(k)
    <3>1. \A slot \in 1..Width : Kept(KeyAt(Contexts[i], k, slot))
      BY <2>1, <2>4 DEF Journaled
    <3>2. Journaled(Contexts[i], k)'
      BY <3>1, <1>1 DEF Journaled, KeyAt
    <3>3. WaveOf(Contexts[i], k)' = WaveOf(Contexts[i], k)
      BY <3>1, <1>1 DEF WaveOf, KeyAt
    <3> QED BY <2>1, <2>2, <2>4, <3>2, <3>3 DEF After, PollAt
  <2> QED BY <2>3, <2>4
<1> QED BY <1>1, <1>2, <1>3

\* A slot gets its result.
LEMMA SlotKeeps ==
  ASSUME ReplayInv, InWave,
         UNCHANGED <<verdicts, inputs, at, pos, d, last, halt>>,
         clean' => clean,
         \A t \in DOMAIN scores : t \in DOMAIN scores' /\ scores'[t] = scores[t],
         \A t \in DOMAIN diffs : t \in DOMAIN diffs' /\ diffs'[t] = diffs[t],
         NEW slot, NEW result, out' = Added(out, slot, result),
         clean' => /\ Kept(KeyAt(Ctx, pos, slot))'
                   /\ result = Replayed(KeyAt(Ctx, pos, slot))'
  PROVE  ReplayInv'
<1>1. /\ Shapes' /\ Rebuilt' /\ Standing' /\ LastKept'
      /\ \A key : Kept(key) => Kept(key)' /\ Replayed(key)' = Replayed(key)
  BY JournalKeeps
<1>2. WavesInv'
  BY StillKeeps DEF ReplayInv
<1>3. /\ DOMAIN out' = DOMAIN out \cup {slot}
      /\ \A t \in DOMAIN out' :
           out'[t] = IF t = slot THEN result ELSE out[t]
      /\ out' = [t \in DOMAIN out' |-> out'[t]]
  BY DEF Added
<1>4. ASSUME clean', NEW t \in DOMAIN out'
      PROVE  /\ Kept(KeyAt(Ctx, pos, t))'
             /\ out'[t] = Replayed(KeyAt(Ctx, pos, t))'
  <2>1. CASE t = slot
    BY <1>3, <1>4, <2>1
  <2>2. CASE t # slot
    <3>1. /\ t \in DOMAIN out /\ out'[t] = out[t]
          /\ Kept(KeyAt(Ctx, pos, t)) /\ out[t] = Replayed(KeyAt(Ctx, pos, t))
      BY <1>3, <1>4, <2>2 DEF ReplayInv, OutKept
    <3>2. KeyAt(Ctx, pos, t)' = KeyAt(Ctx, pos, t)
      BY DEF KeyAt, Ctx
    <3> QED BY <1>1, <3>1, <3>2
  <2> QED BY <2>1, <2>2
<1>5. OutKept'
  BY <1>3, <1>4 DEF OutKept, InWave, AtPoll, PollAt
<1> QED BY <1>1, <1>2, <1>5 DEF ReplayInv

LEMMA AttemptKeyIs ==
  ASSUME NEW slot PROVE AttemptKey(slot) = KeyAt(Ctx, pos, slot)
BY DEF AttemptKey, KeyAt, Wave

LEMMA ReplayInit == Init => ReplayInv
<1> SUFFICES ASSUME Init PROVE ReplayInv
  OBVIOUS
<1>1. WavesInv
  BY InitHolds
<1>2. Shapes
  <2>1. Len(Contexts) \in Nat
    BY WavesAssumption
  <2> QED BY <2>1, FreshIsDetector DEF Init, Shapes
<1>3. Rebuilt /\ Standing /\ OutKept /\ LastKept
  BY DEF Init, Rebuilt, Standing, OutKept, LastKept, NoDecision, Before
<1> QED BY <1>1, <1>2, <1>3 DEF ReplayInv

LEMMA ReplayStep ==
  OneScriptPerSpace /\ ReplayInv /\ [Next]_vars => ReplayInv'
<1> SUFFICES ASSUME OneScriptPerSpace, ReplayInv, [Next]_vars PROVE ReplayInv'
  OBVIOUS
<1>0. WavesInv'
  BY StepKeeps DEF ReplayInv
<1>1. CASE Poll
  <2>1. PollAt(pos) /\ Running /\ Decide(d)
        /\ UNCHANGED <<at, clean, diffs, scores, out, d>>
    BY <1>1 DEF Poll, AtPoll, PollAt
  <2>2. IsDetector(d) /\ out = <<>>
    BY <2>1 DEF ReplayInv, Shapes, OutKept
  <2>3. clean => Windows(d) = After(Ctx, pos)
    BY <2>1 DEF ReplayInv, Standing, After, Running
  <2>4. Shapes' /\ Rebuilt' /\ Standing' /\ OutKept' /\ LastKept'
    BY <2>1, <2>2, <2>3, DecideRebuilds
  <2> QED BY <2>4, <1>0 DEF ReplayInv
<1>2. CASE Ask
  BY <1>2, <1>0, JournalKeeps
  DEF Ask, ReplayInv, OutKept, Kept, Replayed, KeyAt, Ctx, PollAt
<1>3. ASSUME NEW slot \in 1..Width, AttemptFails(slot) PROVE ReplayInv'
  BY <1>3, SlotKeeps DEF AttemptFails, journal
<1>4. ASSUME NEW slot \in 1..Width, AttemptHit(slot) PROVE ReplayInv'
  <2> DEFINE sha == diffs[AttemptKey(slot)]
  <2>1. PICK score \in Scores :
          /\ Scored(sha, score)
          /\ out' = Added(out, slot, Result(TRUE, sha, score))
          /\ clean' = (clean /\ score.valid)
    BY <1>4 DEF AttemptHit
  <2>2. /\ InWave /\ AttemptKey(slot) \in DOMAIN diffs
        /\ UNCHANGED <<verdicts, inputs, at, pos, d, last, halt, diffs>>
    BY <1>4 DEF AttemptHit
  <2>3. KeyAt(Ctx, pos, slot)' = AttemptKey(slot)
    BY <2>2, AttemptKeyIs DEF KeyAt, Ctx
  <2>4. ASSUME clean'
        PROVE  /\ Kept(KeyAt(Ctx, pos, slot))'
               /\ Result(TRUE, sha, score) = Replayed(KeyAt(Ctx, pos, slot))'
    <3>1. sha \in DOMAIN scores' /\ scores'[sha] = score
      BY <2>1, <2>4, JournalGrows
    <3>2. AttemptKey(slot) \in DOMAIN diffs' /\ diffs'[AttemptKey(slot)] = sha
      BY <2>2
    <3> QED BY <2>3, <3>1, <3>2 DEF Kept, Replayed
  <2> QED BY <2>1, <2>2, <2>4, JournalGrows, SlotKeeps
<1>5. ASSUME NEW slot \in 1..Width, AttemptRun(slot) PROVE ReplayInv'
  <2>1. PICK ok \in BOOLEAN, sha \in Shas \cup {NoDiff}, score \in Scores :
          /\ Scored(sha, score)
          /\ diffs' = IF ok THEN Added(diffs, AttemptKey(slot), sha) ELSE diffs
          /\ out' = Added(out, slot, Result(ok, sha, score))
          /\ clean' = (clean /\ ok /\ score.valid)
    BY <1>5 DEF AttemptRun
  <2>2. /\ InWave /\ AttemptKey(slot) \notin DOMAIN diffs
        /\ UNCHANGED <<verdicts, inputs, at, pos, d, last, halt>>
    BY <1>5 DEF AttemptRun
  <2>3. KeyAt(Ctx, pos, slot)' = AttemptKey(slot)
    BY <2>2, AttemptKeyIs DEF KeyAt, Ctx
  <2>4. \A t \in DOMAIN diffs : t \in DOMAIN diffs' /\ diffs'[t] = diffs[t]
    BY <2>1, <2>2 DEF Added
  <2>5. ok => AttemptKey(slot) \in DOMAIN diffs' /\ diffs'[AttemptKey(slot)] = sha
    BY <2>1 DEF Added
  <2>6. ASSUME clean'
        PROVE  /\ Kept(KeyAt(Ctx, pos, slot))'
               /\ Result(ok, sha, score) = Replayed(KeyAt(Ctx, pos, slot))'
    <3>1. ok = TRUE /\ sha \in DOMAIN scores' /\ scores'[sha] = score
      BY <2>1, <2>6, JournalGrows
    <3> QED BY <2>3, <2>5, <3>1 DEF Kept, Replayed
  <2> QED BY <2>1, <2>2, <2>4, <2>6, JournalGrows, SlotKeeps
<1>6. CASE EndWave
  <2>1. /\ ~PollAt(pos) /\ Running /\ DOMAIN out = 1..Width /\ out' = <<>>
        /\ d' = Observe(d, out, agents, spent) /\ Decide(d')
        /\ UNCHANGED <<at, clean, diffs, scores>>
    BY <1>6 DEF EndWave, InWave, AtPoll, PollAt
  <2>2. IsDetector(d) /\ IsDetector(d')
    BY <2>1, ObserveIsDetector DEF ReplayInv, Shapes
  <2>3. clean => /\ Journaled(Ctx, pos)
                 /\ out = WaveOf(Ctx, pos)
    <3>1. out = [slot \in 1..Width |-> out[slot]]
      BY <2>1 DEF ReplayInv, OutKept
    <3>2. clean => \A slot \in 1..Width :
            /\ Kept(KeyAt(Ctx, pos, slot))
            /\ out[slot] = Replayed(KeyAt(Ctx, pos, slot))
      BY <2>1 DEF ReplayInv, OutKept
    <3> QED BY <3>1, <3>2 DEF Journaled, WaveOf
  <2>4. Windows(d') = Windows(Observe(Windows(d), out, 0, 0))
    BY <2>1, <2>2, WindowsObserve
  <2>5. clean => Windows(d') = After(Ctx, pos)
    BY <2>1, <2>3, <2>4 DEF ReplayInv, Standing, After, Running
  <2>6. Shapes' /\ Rebuilt' /\ Standing' /\ OutKept' /\ LastKept'
    BY <2>1, <2>2, <2>3, <2>5, DecideRebuilds
  <2> QED BY <2>6, <1>0 DEF ReplayInv
<1>7. ASSUME UNCHANGED <<journal, inputs, clean>>, pos' = 0, d' = Fresh,
             out' = <<>>, last' = last \/ ~last'.hit,
             at' \in 1..(Len(Contexts) + 1)
      PROVE  ReplayInv'
  <2>1. UNCHANGED <<diffs, scores, verdicts>>
    BY <1>7 DEF journal
  <2>2. Shapes'
    BY <1>7, <2>1, FreshIsDetector DEF ReplayInv, Shapes
  <2>3. Standing' /\ OutKept'
    BY <1>7 DEF Standing, OutKept, Before
  <2>4. Rebuilt'
    <3> SUFFICES ASSUME NEW i \in DOMAIN Contexts, NEW k \in Nat
                 PROVE  /\ Journaled(Contexts[i], k)' = Journaled(Contexts[i], k)
                        /\ After(Contexts[i], k)' = After(Contexts[i], k)
      BY <1>7 DEF ReplayInv, Rebuilt
    <3> QED BY <1>7, <2>1 DEF Journaled, Kept, KeyAt, After, Before, WaveOf, Replayed
  <2>5. LastKept'
    BY <1>7 DEF ReplayInv, LastKept
  <2> QED BY <1>0, <2>2, <2>3, <2>4, <2>5 DEF ReplayInv
<1>8. Len(Contexts) \in Nat
  BY WavesAssumption
<1>9. CASE Leave
  <2>1. at' \in 1..(Len(Contexts) + 1)
    BY <1>8, <1>9 DEF Leave, ReplayInv, Shapes
  <2> QED BY <1>7, <1>9, <2>1 DEF Leave
<1>10. CASE Restart
  <2>1. at' \in 1..(Len(Contexts) + 1) /\ ~last'.hit
    BY <1>8, <1>10 DEF Restart, Start, NoDecision
  <2> QED BY <1>7, <1>10, <2>1 DEF Restart, Start
<1>11. ASSUME UNCHANGED <<journal, process, inputs, clean>> PROVE ReplayInv'
  <2>1. UNCHANGED <<diffs, scores, verdicts, inputs, clean, at, pos, out, d, last>>
    BY <1>11 DEF journal, process
  <2>2. Shapes' /\ Rebuilt' /\ Standing' /\ LastKept'
    BY <2>1, JournalKeeps
  <2>3. OutKept'
    BY <2>1 DEF ReplayInv, OutKept, Kept, Replayed, KeyAt, Ctx, PollAt
  <2> QED BY <1>0, <2>2, <2>3 DEF ReplayInv
<1>12. CASE Kill
  BY <1>11, <1>12 DEF Kill
<1>13. CASE UNCHANGED vars
  BY <1>11, <1>13 DEF vars
<1> QED
  BY <1>1, <1>2, <1>3, <1>4, <1>5, <1>6, <1>9, <1>10, <1>12, <1>13 DEF Next

\* When every attempt ended well, a process that replays a decision stands at
\* it with the windows the decision was taken on, for every number of kills,
\* width, script and governor.
THEOREM ReplayIsExact ==
  ASSUME OneScriptPerSpace PROVE Spec => []ReplayRebuildsWindows
<1>1. ReplayInv => ReplayRebuildsWindows
  BY DEF ReplayInv, LastKept, ReplayRebuildsWindows
<1>2. ReplayInv /\ [Next]_vars => ReplayInv'
  BY ReplayStep
<1> QED BY <1>1, <1>2, ReplayInit, PTL DEF Spec
----------------------------------------------------------------------------
(* Types.                                                                  *)

\* The first reason that applies is one of the reasons.
LEMMA VerdictIsReason ==
  ASSUME NEW s, NEW used, NEW tokens
  PROVE  Verdict(s, used, tokens) \in Verdicts
<1> DEFINE I == {i \in 1..Len(Reasons) : Applies(Reasons[i], s, used, tokens)}
           R == {pair \in Nat \X Nat : pair[1] < pair[2]}
<1>1. Len(Reasons) = 7 /\ DOMAIN Reasons = 1..7
  BY DEF Reasons
<1>2. 7 \in I
  BY <1>1 DEF Applies, Reasons
<1>3. Verdict(s, used, tokens) = Reasons[Min(I)]
  BY <1>2 DEF Verdict, SelectInSeq
<1>4. I \subseteq 1..7 /\ I \subseteq Nat
  BY <1>1
<1> HIDE DEF I
<1>5. IsWellFoundedOn(R, Nat)
  BY NatLessThanWellFounded DEF OpToRel
<1>6. PICK m \in I : \A y \in I : <<y, m>> \notin R
  <2> HIDE DEF R
  <2> QED BY <1>2, <1>4, <1>5, WFMin
<1>7. \A y \in I : m <= y
  <2> SUFFICES ASSUME NEW y \in I PROVE m <= y
    OBVIOUS
  <2>1. m \in Nat /\ y \in Nat /\ <<y, m>> \notin R
    BY <1>4, <1>6
  <2> QED BY <2>1
<1>8. Min(I) \in I
  BY <1>6, <1>7 DEF Min
<1> QED BY <1>1, <1>3, <1>4, <1>8 DEF Verdicts

LEMMA DecideTypes ==
  ASSUME TypeOK, NEW det, Decide(det)
  PROVE  /\ pos' \in Nat /\ halt' \in Verdicts
         /\ \A p \in DOMAIN verdicts' : verdicts'[p] \in Verdicts
         /\ DOMAIN inputs' = DOMAIN verdicts'
<1> DEFINE hit == Place \in DOMAIN verdicts
           why == IF hit THEN verdicts[Place]
                  ELSE Verdict(WaveState(det, agents, spent), agents, spent)
<1>1. why \in Verdicts
  BY VerdictIsReason DEF TypeOK
<1>2. /\ verdicts' = Added(verdicts, Place, why)
      /\ inputs' = IF hit THEN inputs ELSE Added(inputs, Place, Windows(det))
      /\ halt' = why /\ pos' = pos + 1
  BY DEF Decide
<1> HIDE DEF why
<1>3. pos' \in Nat /\ halt' \in Verdicts
  BY <1>1, <1>2 DEF TypeOK
<1>4. \A p \in DOMAIN verdicts' : verdicts'[p] \in Verdicts
  BY <1>1, <1>2 DEF Added, TypeOK
<1>5. DOMAIN inputs' = DOMAIN verdicts'
  BY <1>2 DEF Added, TypeOK
<1> QED BY <1>3, <1>4, <1>5

LEMMA TypeStep == TypeOK /\ [Next]_vars => TypeOK'
<1> SUFFICES ASSUME TypeOK, [Next]_vars PROVE TypeOK'
  OBVIOUS
<1>0. Len(Contexts) \in Nat /\ agents \in Nat /\ spent \in 0..agents
  BY WavesAssumption, LenProperties DEF TypeOK
<1>c. "continue" \in Verdicts
  <2>1. Reasons[7] = "continue" /\ 7 \in DOMAIN Reasons
    BY DEF Reasons
  <2> QED BY <2>1 DEF Verdicts
<1>1. CASE Poll
  BY <1>1, DecideTypes DEF Poll, TypeOK
<1>2. CASE EndWave
  <2>1. PICK det : Decide(det)
    BY <1>2 DEF EndWave
  <2>2. UNCHANGED <<at, agents, spent>>
    BY <1>2 DEF EndWave
  <2> QED BY <2>1, <2>2, DecideTypes DEF TypeOK
<1>3. ASSUME \/ Ask
             \/ \E slot \in 1..Width : AttemptFails(slot) \/ AttemptHit(slot)
                                       \/ AttemptRun(slot)
      PROVE  TypeOK'
  <2>1. UNCHANGED <<at, pos, halt, verdicts, inputs>>
    BY <1>3 DEF Ask, AttemptFails, AttemptHit, AttemptRun, journal
  <2>2. \/ UNCHANGED <<agents, spent>>
        \/ agents' = agents + 1 /\ spent' = spent + 1
    BY <1>3 DEF Ask, AttemptFails, AttemptHit, AttemptRun, journal
  <2>3. agents' \in Nat /\ spent' \in 0..agents'
    BY <1>0, <2>2
  <2> QED BY <2>1, <2>3 DEF TypeOK
<1>4. CASE Leave
  <2>1. /\ UNCHANGED <<agents, spent, verdicts, inputs>>
        /\ at' = at + 1 /\ at <= Len(Contexts)
        /\ pos' = 0 /\ halt' = "continue"
    BY <1>4 DEF Leave, journal
  <2>2. at' \in 1..(Len(Contexts) + 1)
    BY <1>0, <2>1 DEF TypeOK
  <2> QED BY <1>c, <2>1, <2>2 DEF TypeOK
<1>5. CASE Restart
  <2>1. /\ UNCHANGED <<agents, verdicts, inputs>>
        /\ at' = 1 /\ pos' = 0 /\ spent' = 0 /\ halt' = "continue"
    BY <1>5 DEF Restart, Start, journal
  <2>2. at' \in 1..(Len(Contexts) + 1) /\ spent' \in 0..agents'
    BY <1>0, <2>1
  <2> QED BY <1>0, <1>c, <2>1, <2>2 DEF TypeOK
<1>6. CASE Kill \/ UNCHANGED vars
  BY <1>6 DEF Kill, vars, journal, process, TypeOK
<1> QED BY <1>1, <1>2, <1>3, <1>4, <1>5, <1>6 DEF Next

\* Type correctness, across kills: the tokens of a process never exceed the
\* agents of the run, every verdict is a reason of the governor, and each
\* journaled verdict has the windows it was taken on.
THEOREM TypeCorrect == Spec => []TypeOK
<1>1. Init => TypeOK
  <2> SUFFICES ASSUME Init PROVE TypeOK
    OBVIOUS
  <2>1. Reasons[7] = "continue" /\ 7 \in DOMAIN Reasons
    BY DEF Reasons
  <2>2. 1 \in 1..(Len(Contexts) + 1) /\ 0 \in 0..0
    BY WavesAssumption, LenProperties
  <2> QED BY <2>1, <2>2 DEF Init, TypeOK, Verdicts
<1> QED BY <1>1, TypeStep, PTL DEF Spec
=============================================================================
