--------------------------- MODULE DetectorProofs ---------------------------
(***************************************************************************)
(* Proofs about module Detector: the types, that a climbing wave is not    *)
(* cut for lack of progress, and that the width of the waves never makes   *)
(* the detector stricter.  The last goes through every result of a wave,   *)
(* one after the other: the detector shown the first k results as one wave *)
(* against the detector shown them one by one.                             *)
(***************************************************************************)
EXTENDS Detector, TLAPS, FiniteSetTheorems

(***************************************************************************)
(* Natural numbers: least elements, induction over sets, maxima.           *)
(***************************************************************************)

LEMMA Least ==
  ASSUME NEW T, T \subseteq Nat, T # {}
  PROVE  \E x \in T : \A y \in T : ~(y < x)
<1> DEFINE R == {pair \in Nat \X Nat : pair[1] < pair[2]}
<1>1. IsWellFoundedOn(R, Nat)
  BY NatLessThanWellFounded DEF OpToRel
<1>2. \E x \in T : \A y \in T : <<y, x>> \notin R
  <2> HIDE DEF R
  <2> QED BY <1>1, WFMin
<1>3. \A x, y \in Nat : y < x => <<y, x>> \in R
  OBVIOUS
<1> QED BY <1>2, <1>3

LEMMA SetInduction ==
  ASSUME NEW S, 0 \in S, \A n \in Nat : n \in S => n + 1 \in S
  PROVE  Nat \subseteq S
<1> DEFINE T == Nat \ S
<1> SUFFICES ASSUME T # {} PROVE FALSE
  OBVIOUS
<1>1. PICK x \in T : \A y \in T : ~(y < x)
  BY Least
<1>2. x # 0 /\ x \in Nat
  OBVIOUS
<1>3. x - 1 \in Nat /\ x - 1 \notin T
  BY <1>1, <1>2
<1> QED BY <1>2, <1>3

\* A bounded set of naturals has a maximum, and it is the only one.
LEMMA MaxIs ==
  ASSUME NEW S, S \subseteq Nat, S # {},
         NEW bound \in Nat, \A x \in S : x <= bound
  PROVE  Max(S) \in S /\ \A x \in S : x <= Max(S)
<1> DEFINE U == {u \in Nat : \A x \in S : x <= u}
<1>1. U \subseteq Nat /\ U # {}
  OBVIOUS
<1> HIDE DEF U
<1>2. PICK u \in U : \A v \in U : ~(v < u)
  BY <1>1, Least
<1>3. u \in Nat /\ \A x \in S : x <= u
  BY <1>2 DEF U
<1>4. u \in S
  <2> SUFFICES ASSUME u \notin S PROVE FALSE
    OBVIOUS
  <2>1. ASSUME NEW x \in S PROVE x \in Nat /\ x <= u - 1
    <3>1. x \in Nat /\ x <= u /\ x # u
      BY <1>3
    <3> QED BY <1>3, <3>1
  <2>2. u - 1 \in Nat
    <3>1. PICK x \in S : TRUE
      OBVIOUS
    <3> QED BY <1>3, <2>1, <3>1
  <2>3. u - 1 \in U
    BY <2>1, <2>2 DEF U
  <2> QED BY <1>2, <1>3, <2>3
<1>5. \E x \in S : \A y \in S : x >= y
  BY <1>3, <1>4
<1>6. Max(S) \in S /\ \A y \in S : Max(S) >= y
  BY <1>5 DEF Max
<1> QED BY <1>6

LEMMA MaxOf ==
  ASSUME NEW S, S \subseteq Nat, NEW m \in S, \A x \in S : x <= m
  PROVE  Max(S) = m
<1>1. m \in Nat
  OBVIOUS
<1>2. Max(S) \in S /\ \A x \in S : x <= Max(S)
  BY <1>1, MaxIs
<1>3. Max(S) <= m /\ m <= Max(S) /\ Max(S) \in Nat
  BY <1>2
<1> QED BY <1>1, <1>3

----------------------------------------------------------------------------
(***************************************************************************)
(* The verdict is a reason that applies.                                   *)
(***************************************************************************)

LEMMA VerdictApplies ==
  ASSUME NEW s, NEW used, NEW tokens
  PROVE  /\ Verdict(s, used, tokens) \in {Reasons[i] : i \in DOMAIN Reasons}
         /\ Applies(Verdict(s, used, tokens), s, used, tokens)
<1> DEFINE I == {i \in 1..Len(Reasons) : Applies(Reasons[i], s, used, tokens)}
<1>1. Len(Reasons) = 7 /\ DOMAIN Reasons = 1..7
  BY DEF Reasons
<1>2. 7 \in I
  BY <1>1 DEF Applies, Reasons
<1>3. Verdict(s, used, tokens) = Reasons[Min(I)]
  BY <1>2 DEF Verdict, SelectInSeq
<1>4. I \subseteq Nat
  BY <1>1
<1> HIDE DEF I
<1>5. PICK m \in I : \A y \in I : ~(y < m)
  BY <1>2, <1>4, Least
<1>6. \A y \in I : m <= y
  <2> SUFFICES ASSUME NEW y \in I PROVE m <= y
    OBVIOUS
  <2>1. m \in Nat /\ y \in Nat /\ ~(y < m)
    BY <1>4, <1>5
  <2> QED BY <2>1
<1>7. Min(I) \in I
  BY <1>5, <1>6 DEF Min
<1> QED BY <1>1, <1>3, <1>7 DEF I

\* What a cut for lack of new diffs, of progress or of tokens says.
LEMMA LackApplies ==
  ASSUME NEW s, NEW used, NEW tokens
  PROVE  /\ Applies("cut:sterile", s, used, tokens) <=> s.sterile >= SterileCut
         /\ Applies("cut:no-progress", s, used, tokens) =>
              s.valid >= WindowMeas \/ s.attempts >= Patience
         /\ Applies("cut:tokens", s, used, tokens) => s.tokens > TokenCut
BY DEF Applies

----------------------------------------------------------------------------
(***************************************************************************)
(* Types of detectors and of waves.                                        *)
(***************************************************************************)

\* A detector, with its marks no later than its counters.
Counts(det) ==
  /\ {det.gold, det.rate, det.agentsAt, det.tokensAt, det.valid, det.validAt,
      det.wall, det.indet, det.nonresult, det.sterile} \subseteq Nat
  /\ det.validAt <= det.valid
  /\ det.wallAt \in Nat \cup {NotStarted}
  /\ det.wallAt <= det.wall
  /\ det.wallAt = NotStarted <=> det.wall = 0
  /\ det.seen \subseteq {r.sha : r \in Results}

WaveOf(n) == [1..n -> Results]

LEMMA WaveShape ==
  ASSUME NEW out \in BoundedSeq(Results, MaxWidth)
  PROVE  \E n \in 0..MaxWidth : out \in WaveOf(n)
BY DetectorAssumption DEF BoundedSeq, SeqOf, WaveOf

LEMMA WaveLength ==
  ASSUME NEW n \in Nat, NEW out \in WaveOf(n)
  PROVE  /\ DOMAIN out = 1..n /\ Len(out) = n
         /\ \A i \in 1..n : out[i] \in Results
         /\ out = <<>> <=> n = 0
<1>1. DOMAIN out = 1..n /\ (\A i \in 1..n : out[i] \in Results)
  BY DEF WaveOf
<1>2. out \in Seq(Results) /\ Len(out) = n
  BY <1>1 DEF WaveOf
<1> QED BY <1>1, <1>2

LEMMA ResultTypes ==
  ASSUME NEW r \in Results
  PROVE  /\ r.none \in BOOLEAN /\ r.ok \in BOOLEAN /\ r.valid \in BOOLEAN
         /\ r.gold \in Nat /\ r.rate \in Nat
BY DetectorAssumption

\* The golds and the rates of a wave are bounded.
LEMMA WaveBounded ==
  ASSUME NEW n \in Nat, NEW out \in WaveOf(n)
  PROVE  \E bound \in Nat : \A i \in 1..n :
           out[i].gold <= bound /\ out[i].rate <= bound
<1> DEFINE S == {k \in Nat : k <= n => \E bound \in Nat : \A i \in 1..k :
                   out[i].gold <= bound /\ out[i].rate <= bound}
<1>1. 0 \in S
  OBVIOUS
<1>2. ASSUME NEW k \in Nat, k \in S PROVE k + 1 \in S
  <2> SUFFICES ASSUME k + 1 <= n
               PROVE  \E bound \in Nat : \A i \in 1..(k + 1) :
                        out[i].gold <= bound /\ out[i].rate <= bound
    OBVIOUS
  <2>1. PICK b \in Nat : \A i \in 1..k :
          out[i].gold <= b /\ out[i].rate <= b
    BY <1>2
  <2> DEFINE r == out[k + 1]
  <2>2. r.gold \in Nat /\ r.rate \in Nat
    BY WaveLength, ResultTypes
  <2> DEFINE c == b + r.gold + r.rate
  <2>3. c \in Nat /\ b <= c /\ r.gold <= c /\ r.rate <= c
    BY <2>2
  <2>4. ASSUME NEW i \in 1..(k + 1)
        PROVE  out[i].gold <= c /\ out[i].rate <= c
    <3>1. CASE i = k + 1
      BY <2>3, <3>1
    <3>2. CASE i # k + 1
      <4>1. i \in 1..k /\ out[i].gold \in Nat /\ out[i].rate \in Nat
        BY <3>2, WaveLength, ResultTypes
      <4> QED BY <2>1, <2>3, <4>1
    <3> QED BY <3>1, <3>2
  <2> QED BY <2>3, <2>4
<1> HIDE DEF S
<1>3. n \in S
  BY <1>1, <1>2, SetInduction
<1> QED BY <1>3 DEF S

\* The best gold count and rate are the greatest ones.
BestOf(det, n, out) ==
  /\ BestGold(det, out) \in Nat /\ BestRate(det, out) \in Nat
  /\ BestGold(det, out) >= det.gold /\ BestRate(det, out) >= det.rate
  /\ \A i \in 1..n : ~out[i].none => /\ out[i].gold <= BestGold(det, out)
                                     /\ out[i].rate <= BestRate(det, out)
  /\ \/ BestGold(det, out) = det.gold
     \/ \E i \in 1..n : ~out[i].none /\ BestGold(det, out) = out[i].gold
  /\ \/ BestRate(det, out) = det.rate
     \/ \E i \in 1..n : ~out[i].none /\ BestRate(det, out) = out[i].rate

LEMMA BestIs ==
  ASSUME NEW det, det.gold \in Nat, det.rate \in Nat,
         NEW n \in Nat, NEW out \in WaveOf(n)
  PROVE  BestOf(det, n, out)
<1> DEFINE G == {det.gold} \cup {r.gold : r \in Candidates(out)}
           T == {det.rate} \cup {r.rate : r \in Candidates(out)}
<1>1. PICK b \in Nat : \A i \in 1..n : out[i].gold <= b /\ out[i].rate <= b
  BY WaveBounded
<1>2. Candidates(out) = {out[i] : i \in {j \in 1..n : ~out[j].none}}
  BY WaveLength DEF Candidates
<1>3. \A i \in 1..n : out[i].gold \in Nat /\ out[i].rate \in Nat
  BY WaveLength, ResultTypes
<1>4. /\ G = {det.gold} \cup {out[i].gold : i \in {j \in 1..n : ~out[j].none}}
      /\ T = {det.rate} \cup {out[i].rate : i \in {j \in 1..n : ~out[j].none}}
  BY <1>2
<1> DEFINE bound == b + det.gold + det.rate
<1>5. bound \in Nat /\ b <= bound /\ det.gold <= bound /\ det.rate <= bound
  OBVIOUS
<1> HIDE DEF bound, G, T
<1>6. G \subseteq Nat /\ G # {} /\ \A x \in G : x <= bound
  BY <1>1, <1>3, <1>4, <1>5
<1>7. T \subseteq Nat /\ T # {} /\ \A x \in T : x <= bound
  BY <1>1, <1>3, <1>4, <1>5
<1>8. /\ Max(G) \in G /\ \A x \in G : x <= Max(G)
      /\ Max(T) \in T /\ \A x \in T : x <= Max(T)
  BY <1>5, <1>6, <1>7, MaxIs
<1>9. BestGold(det, out) = Max(G) /\ BestRate(det, out) = Max(T)
  BY DEF BestGold, BestRate, G, T
<1> QED BY <1>4, <1>6, <1>7, <1>8, <1>9 DEF BestOf
----------------------------------------------------------------------------
(***************************************************************************)
(* _observe, field by field, with its counts over the positions of a wave. *)
(***************************************************************************)

Good(out) == {i \in DOMAIN out : Measured(out[i])}
Bad(out) == {i \in DOMAIN out : Nonresult(out[i])}
Stale(det, out) == {i \in DOMAIN out : Sterile(det, out, i)}
News(out) == {out[i].sha : i \in {j \in DOMAIN out :
                                    ~out[j].none /\ out[j].sha # NoDiff}}

LEMMA GoodCount ==
  ASSUME NEW n \in Nat, NEW out \in WaveOf(n)
  PROVE  /\ IsFiniteSet(Good(out)) /\ IsFiniteSet(Bad(out))
         /\ Cardinality(Good(out)) \in Nat /\ Cardinality(Good(out)) <= n
         /\ Good(out) # {} <=> Cardinality(Good(out)) > 0
         /\ Cardinality(Bad(out)) = n <=> Bad(out) = DOMAIN out
<1>1. DOMAIN out = 1..n
  BY WaveLength
<1>2. IsFiniteSet(1..n) /\ Cardinality(1..n) = n
  BY FS_Interval
<1>3. Good(out) \in SUBSET (1..n) /\ Bad(out) \in SUBSET (1..n)
  BY <1>1 DEF Good, Bad
<1>4. /\ IsFiniteSet(Good(out)) /\ IsFiniteSet(Bad(out))
      /\ Cardinality(Good(out)) <= n
      /\ Cardinality(Bad(out)) = n => Bad(out) = 1..n
  BY <1>2, <1>3, FS_Subset
<1>5. Cardinality(Good(out)) \in Nat
  BY <1>4, FS_CardinalityType
<1>6. Cardinality(Good(out)) = 0 <=> Good(out) = {}
  BY <1>4, FS_EmptySet
<1> QED BY <1>1, <1>2, <1>4, <1>5, <1>6

\* The position of the last real measurement.
LEMMA LastGood ==
  ASSUME NEW n \in Nat, NEW out \in WaveOf(n), Good(out) # {}
  PROVE  /\ Max(Good(out)) \in Good(out) /\ Max(Good(out)) \in 1..n
         /\ \A i \in Good(out) : i <= Max(Good(out))
<1>1. Good(out) \subseteq 1..n
  BY WaveLength DEF Good
<1>2. Good(out) \subseteq Nat /\ \A i \in Good(out) : i <= n
  BY <1>1
<1> QED BY <1>1, <1>2, MaxIs

LEMMA StaleCount ==
  ASSUME NEW det, NEW n \in Nat, NEW out \in WaveOf(n),
         Stale(det, out) = DOMAIN out
  PROVE  Max({1, Cardinality(Stale(det, out))}) = IF n = 0 THEN 1 ELSE n
<1>1. Cardinality(Stale(det, out)) = n
  BY WaveLength, FS_Interval
<1>2. CASE n = 0
  BY <1>1, <1>2, MaxOf
<1>3. CASE n # 0
  <2>1. n \in {1, n} /\ {1, n} \subseteq Nat /\ \A x \in {1, n} : x <= n
    BY <1>3
  <2>2. Max({1, n}) = n
    BY <2>1, MaxOf
  <2> QED BY <1>1, <1>3, <2>2
<1> QED BY <1>2, <1>3

Started(det, out) ==
  IF det.wallAt = NotStarted /\ Good(out) # {} THEN 0 ELSE det.wallAt

Observed(o, det, n, out, used, tokens) ==
  /\ o.gold = BestGold(det, out) /\ o.rate = BestRate(det, out)
  /\ o.agentsAt = IF Rises(det, out) THEN used ELSE det.agentsAt
  /\ o.tokensAt = IF Rises(det, out) THEN tokens ELSE det.tokensAt
  /\ o.valid = det.valid + Cardinality(Good(out))
  /\ o.validAt = IF Rises(det, out) THEN o.valid ELSE det.validAt
  /\ o.wall = det.wall + Cardinality(Good(out))
  /\ o.wallAt = IF Rises(det, out) /\ Started(det, out) # NotStarted
                THEN o.wall ELSE Started(det, out)
  /\ o.indet = IF Good(out) = {} THEN det.indet + n ELSE n - Max(Good(out))
  /\ o.nonresult = IF n = 0 THEN det.nonresult + 1
                   ELSE IF Bad(out) = DOMAIN out THEN det.nonresult + n ELSE 0
  /\ o.sterile = IF Rises(det, out) \/ Stale(det, out) # DOMAIN out THEN 0
                 ELSE det.sterile + IF n = 0 THEN 1 ELSE n
  /\ o.seen = det.seen \cup News(out)

LEMMA ObserveFields ==
  ASSUME NEW det, NEW n \in Nat, NEW out \in WaveOf(n), NEW used, NEW tokens
  PROVE  Observed(Observe(det, out, used, tokens), det, n, out, used, tokens)
<1> DEFINE o == Observe(det, out, used, tokens)
<1>1. DOMAIN out = 1..n /\ Len(out) = n /\ (out = <<>> <=> n = 0)
  BY WaveLength
<1>2. Positions(out, Measured) = Good(out)
  BY DEF Positions, Good
<1>3. Positions(out, Nonresult) = Bad(out)
  BY DEF Positions, Bad
<1>4. o.seen = det.seen \cup News(out)
  BY DEF Observe, Positions, News
<1>5. Streak(det.indet, out) = IF Good(out) = {} THEN det.indet + n
                               ELSE n - Max(Good(out))
  BY <1>1, <1>2 DEF Streak
<1>6. NonresultStreak(det, out)
        = IF n = 0 THEN det.nonresult + 1
          ELSE IF Bad(out) = DOMAIN out THEN det.nonresult + n ELSE 0
  <2>1. Cardinality(Bad(out)) = n <=> Bad(out) = DOMAIN out
    BY GoodCount
  <2>2. CASE Bad(out) = DOMAIN out
    BY <1>1, <1>3, <2>1, <2>2 DEF NonresultStreak
  <2>3. CASE Bad(out) # DOMAIN out
    BY <1>1, <1>3, <2>1, <2>3 DEF NonresultStreak
  <2> QED BY <2>2, <2>3
<1>7. SterileStreak(det, out, Rises(det, out))
        = IF Rises(det, out) \/ Stale(det, out) # DOMAIN out
          THEN 0 ELSE det.sterile + IF n = 0 THEN 1 ELSE n
  <2>1. SterileStreak(det, out, Rises(det, out))
          = IF Rises(det, out) \/ Stale(det, out) # DOMAIN out THEN 0
            ELSE det.sterile + Max({1, Cardinality(Stale(det, out))})
    BY DEF SterileStreak, Stale
  <2> QED BY <2>1, StaleCount
<1>8. Cardinality(Good(out)) > 0 <=> Good(out) # {}
  BY GoodCount
<1> DEFINE good == Cardinality(Positions(out, Measured))
           rises == Rises(det, out)
           started == IF det.wallAt = NotStarted /\ good > 0 THEN 0
                      ELSE det.wallAt
<1>9. o = [gold |-> BestGold(det, out),
           rate |-> BestRate(det, out),
           agentsAt |-> Mark(rises, used, det.agentsAt),
           tokensAt |-> Mark(rises, tokens, det.tokensAt),
           valid |-> det.valid + good,
           validAt |-> Mark(rises, det.valid + good, det.validAt),
           wall |-> det.wall + good,
           wallAt |-> Mark(rises /\ started # NotStarted, det.wall + good,
                           started),
           indet |-> Streak(det.indet, out),
           nonresult |-> NonresultStreak(det, out),
           sterile |-> SterileStreak(det, out, rises),
           seen |-> det.seen \cup
                      {out[i].sha : i \in
                        Positions(out, LAMBDA r : ~r.none /\ r.sha # NoDiff)}]
  BY DEF Observe
<1>10. good = Cardinality(Good(out)) /\ started = Started(det, out)
  BY <1>2, <1>8 DEF Started
<1> HIDE DEF o, good, started
<1>11. /\ o.gold = BestGold(det, out) /\ o.rate = BestRate(det, out)
       /\ o.indet = Streak(det.indet, out)
       /\ o.nonresult = NonresultStreak(det, out)
       /\ o.sterile = SterileStreak(det, out, rises)
       /\ o.valid = det.valid + good /\ o.wall = det.wall + good
  BY <1>9
<1>12. /\ o.agentsAt = IF rises THEN used ELSE det.agentsAt
       /\ o.tokensAt = IF rises THEN tokens ELSE det.tokensAt
       /\ o.validAt = IF rises THEN o.valid ELSE det.validAt
       /\ o.wallAt = IF rises /\ started # NotStarted THEN o.wall ELSE started
  BY <1>9 DEF Mark
<1>13. Observed(o, det, n, out, used, tokens)
  BY <1>4, <1>5, <1>6, <1>7, <1>10, <1>11, <1>12 DEF Observed
<1> QED BY <1>13 DEF o

\* Counters stay natural numbers, with their marks no later than they are.
LEMMA ObserveCounts ==
  ASSUME NEW det, Counts(det), NEW n \in Nat, NEW out \in WaveOf(n),
         NEW used \in Nat, NEW tokens \in Nat
  PROVE  Counts(Observe(det, out, used, tokens))
<1> DEFINE o == Observe(det, out, used, tokens)
           g == Cardinality(Good(out))
           s == Started(det, out)
<1>1. /\ det.gold \in Nat /\ det.rate \in Nat /\ det.agentsAt \in Nat
      /\ det.tokensAt \in Nat /\ det.valid \in Nat /\ det.validAt \in Nat
      /\ det.wall \in Nat /\ det.indet \in Nat /\ det.nonresult \in Nat
      /\ det.sterile \in Nat /\ det.validAt <= det.valid
      /\ det.wallAt \in Nat \cup {-1} /\ det.wallAt <= det.wall
      /\ det.wallAt = -1 <=> det.wall = 0
      /\ det.seen \subseteq {r.sha : r \in Results}
  BY DEF Counts, NotStarted
<1>2. g \in Nat /\ (Good(out) # {} <=> g > 0)
  BY GoodCount
<1>3. BestGold(det, out) \in Nat /\ BestRate(det, out) \in Nat
  BY <1>1, BestIs DEF BestOf
<1>4. Good(out) # {} => Max(Good(out)) \in 1..n
  BY LastGood
<1> HIDE DEF o
<1>5. Observed(o, det, n, out, used, tokens)
  BY ObserveFields DEF o
<1>6. s = IF det.wallAt = -1 /\ g > 0 THEN 0 ELSE det.wallAt
  BY <1>2 DEF Started, NotStarted
<1>7. /\ o.gold \in Nat /\ o.rate \in Nat /\ o.agentsAt \in Nat
      /\ o.tokensAt \in Nat /\ o.nonresult \in Nat /\ o.sterile \in Nat
  BY <1>1, <1>3, <1>5 DEF Observed
<1>8. o.indet \in Nat
  BY <1>1, <1>4, <1>5 DEF Observed
<1>9. /\ o.valid \in Nat /\ o.validAt \in Nat /\ o.validAt <= o.valid
  BY <1>1, <1>2, <1>5 DEF Observed
<1>10. /\ o.wall \in Nat /\ o.wallAt \in Nat \cup {-1} /\ o.wallAt <= o.wall
       /\ o.wallAt = -1 <=> o.wall = 0
  BY <1>1, <1>2, <1>5, <1>6 DEF NotStarted, Observed
<1>11. o.seen \subseteq {r.sha : r \in Results}
  <2>1. News(out) \subseteq {r.sha : r \in Results}
    BY WaveLength DEF News
  <2> QED BY <1>1, <1>5, <2>1 DEF Observed
<1>12. Counts(o)
  BY <1>7, <1>8, <1>9, <1>10, <1>11 DEF Counts, NotStarted
<1> QED BY <1>12 DEF o

LEMMA FreshCounts == Counts(Fresh)
BY DEF Counts, Fresh, NotStarted

\* The agents of a wave: one for each attempt with a candidate.
LEMMA AgentsOfWave ==
  ASSUME NEW n \in Nat, NEW out \in WaveOf(n)
  PROVE  Cardinality(Positions(out, LAMBDA r : ~r.none)) \in Nat
<1> DEFINE S == {i \in 1..n : ~out[i].none}
<1>1. Positions(out, LAMBDA r : ~r.none) = S
  BY WaveLength DEF Positions
<1>2. IsFiniteSet(S)
  BY FS_Interval, FS_Subset
<1> HIDE DEF S
<1>3. Cardinality(S) \in Nat
  BY <1>2, FS_CardinalityType
<1> QED BY <1>1, <1>3

\* A step is a wave of at most MaxWidth results.
LEMMA StepIs ==
  ASSUME NEW out \in BoundedSeq(Results, MaxWidth), Wave(out), agents \in Nat
  PROVE  /\ \E n \in Nat : out \in WaveOf(n)
         /\ agents' \in Nat
         /\ wide' = Observe(wide, out, agents', agents')
         /\ narrow' = OneByOne(narrow, out, agents')
         /\ halt' = Verdict(WaveState(wide', agents', agents'),
                            agents', agents')
<1>1. PICK n \in 0..MaxWidth : out \in WaveOf(n)
  BY WaveShape
<1>2. n \in Nat
  OBVIOUS
<1> QED BY <1>1, <1>2, AgentsOfWave DEF Wave

Typed ==
  /\ wide = [gold |-> wide.gold, rate |-> wide.rate,
             agentsAt |-> wide.agentsAt, tokensAt |-> wide.tokensAt,
             valid |-> wide.valid, validAt |-> wide.validAt,
             wall |-> wide.wall, wallAt |-> wide.wallAt,
             indet |-> wide.indet, nonresult |-> wide.nonresult,
             sterile |-> wide.sterile, seen |-> wide.seen]
  /\ Counts(wide)
  /\ agents \in Nat
  /\ halt \in {Reasons[i] : i \in DOMAIN Reasons}

LEMMA TypedInvariant == Spec => []Typed
<1>1. Init => Typed
  <2> SUFFICES ASSUME Init PROVE Typed
    OBVIOUS
  <2>1. halt \in {Reasons[i] : i \in DOMAIN Reasons}
    <3>1. halt = Reasons[7] /\ 7 \in DOMAIN Reasons
      BY DEF Init, Reasons
    <3> QED BY <3>1
  <2>2. wide = Fresh /\ agents = 0
    BY DEF Init
  <2> QED BY <2>1, <2>2, FreshCounts DEF Typed, Fresh
<1>2. Typed /\ [Next]_vars => Typed'
  <2> SUFFICES ASSUME Typed, [Next]_vars PROVE Typed'
    OBVIOUS
  <2>1. CASE UNCHANGED vars
    BY <2>1 DEF Typed, vars
  <2>2. ASSUME NEW out \in BoundedSeq(Results, MaxWidth), Wave(out)
        PROVE  Typed'
    <3>1. /\ agents' \in Nat
          /\ wide' = Observe(wide, out, agents', agents')
          /\ halt' = Verdict(WaveState(wide', agents', agents'),
                             agents', agents')
      BY <2>2, StepIs DEF Typed
    <3>2. PICK n \in Nat : out \in WaveOf(n)
      BY <2>2, StepIs DEF Typed
    <3>3. Counts(wide')
      BY <3>1, <3>2, ObserveCounts DEF Typed
    <3>4. halt' \in {Reasons[i] : i \in DOMAIN Reasons}
      BY <3>1, VerdictApplies
    <3> QED BY <3>1, <3>3, <3>4 DEF Typed, Observe
  <2> QED BY <2>1, <2>2 DEF Next
<1> QED BY <1>1, <1>2, PTL DEF Spec

\* Type correctness: a detector of natural counters, whose wall mark is unset
\* until the first real measurement, and a verdict among the reasons.
THEOREM TypeCorrect == Spec => []TypeOK
<1>1. Typed => TypeOK
  BY DEF Typed, TypeOK, Detectors, Counts
<1> QED BY <1>1, TypedInvariant, PTL

\* A wave in which the best rose is not answered by a cut for lack of
\* progress, of tokens, or of new diffs, for all parameters of the governor.
THEOREM ClimbingRunGoesOn == Spec => ClimbIsNotCut
<1> DEFINE Climb ==
      (wide'.gold > wide.gold \/ wide'.rate > wide.rate)
        => halt' \notin {"cut:no-progress", "cut:sterile", "cut:tokens"}
<1>1. ASSUME Typed, [Next]_vars PROVE Climb
  <2>1. CASE UNCHANGED vars
    <3>1. wide' = wide /\ wide.gold \in Nat /\ wide.rate \in Nat
      BY <1>1, <2>1 DEF vars, Typed, Counts
    <3> QED BY <3>1
  <2>2. ASSUME NEW out \in BoundedSeq(Results, MaxWidth), Wave(out),
               wide'.gold > wide.gold \/ wide'.rate > wide.rate
        PROVE  halt' \notin {"cut:no-progress", "cut:sterile", "cut:tokens"}
    <3> DEFINE s == WaveState(wide', agents', agents')
    <3>1. /\ agents' \in Nat
          /\ wide' = Observe(wide, out, agents', agents')
          /\ halt' = Verdict(s, agents', agents')
      BY <1>1, <2>2, StepIs DEF Typed
    <3>2. PICK n \in Nat : out \in WaveOf(n)
      BY <1>1, <2>2, StepIs DEF Typed
    <3>3. Observed(wide', wide, n, out, agents', agents')
      BY <3>1, <3>2, ObserveFields
    <3>4. /\ wide'.agentsAt = agents' /\ wide'.tokensAt = agents'
          /\ wide'.validAt = wide'.valid /\ wide'.sterile = 0
      BY <2>2, <3>3 DEF Observed, Rises
    <3>5. Counts(wide')
      BY <1>1, <3>1, <3>2, ObserveCounts DEF Typed
    <3>6. Max({0, 0}) = 0
      BY MaxOf
    <3>7. s.attempts = 0 /\ s.tokens = 0 /\ s.valid = 0 /\ s.sterile = 0
      BY <3>1, <3>4, <3>5, <3>6 DEF WaveState, AtLeastZero, Counts
    <3> HIDE DEF s
    <3>8. Applies(halt', s, agents', agents')
      BY <3>1, VerdictApplies
    <3>9. /\ SterileCut > 0 /\ WindowMeas > 0 /\ Patience > 0
          /\ {SterileCut, WindowMeas, Patience, TokenCut} \subseteq Nat
      BY GovernorAssumption
    <3>10. /\ ~Applies("cut:no-progress", s, agents', agents')
           /\ ~Applies("cut:sterile", s, agents', agents')
           /\ ~Applies("cut:tokens", s, agents', agents')
      BY <3>7, <3>9, LackApplies
    <3> QED BY <3>8, <3>10
  <2> QED BY <1>1, <2>1, <2>2 DEF Next
<1>2. Typed /\ [Next]_vars => [Climb]_vars
  BY <1>1
<1> QED BY <1>2, TypedInvariant, PTL DEF Spec, ClimbIsNotCut

----------------------------------------------------------------------------
(***************************************************************************)
(* A wave grows by one result, r.  Coarse says what that does to the       *)
(* detector w which is shown the wave at once; Fine what it does to the    *)
(* detector v which is shown the result alone, and Fine implies Coarse.    *)
(***************************************************************************)

Grows(w, w2, r) ==
  /\ w2.gold = IF ~r.none /\ r.gold > w.gold THEN r.gold ELSE w.gold
  /\ w2.rate = IF ~r.none /\ r.rate > w.rate THEN r.rate ELSE w.rate
  /\ w2.valid = w.valid + IF Measured(r) THEN 1 ELSE 0
  /\ w2.wall = w.wall + IF Measured(r) THEN 1 ELSE 0
  /\ w2.indet = IF Measured(r) THEN 0 ELSE w.indet + 1
  /\ w2.seen = w.seen \cup IF ~r.none /\ r.sha # NoDiff THEN {r.sha} ELSE {}

Up(w, w2) == w2.gold > w.gold \/ w2.rate > w.rate
Known(seen, r) == r.none \/ r.sha = NoDiff \/ r.sha \in seen

Coarse(w, w2, r) ==
  /\ Grows(w, w2, r)
  /\ w2.nonresult = 0 \/ (Nonresult(r) /\ w2.nonresult = w.nonresult + 1)
  /\ \/ w2.sterile = 0
     \/ ~Up(w, w2) /\ Known(w.seen, r) /\ w2.sterile = w.sterile + 1
  /\ w2.validAt = w2.valid \/ (~Up(w, w2) /\ w2.validAt = w.validAt)
  /\ \/ w2.wallAt = w2.wall
     \/ Up(w, w2) /\ w2.wall = 0
     \/ ~Up(w, w2) /\ w2.wallAt = w.wallAt
     \/ ~Up(w, w2) /\ w.wallAt = NotStarted /\ w2.wallAt = 0

Fine(v, v2, r) ==
  /\ Grows(v, v2, r)
  /\ v2.nonresult = IF Nonresult(r) THEN v.nonresult + 1 ELSE 0
  /\ v2.sterile = IF Up(v, v2) \/ ~Known(v.seen, r) THEN 0 ELSE v.sterile + 1
  /\ v2.validAt = IF Up(v, v2) THEN v2.valid ELSE v.validAt
  /\ v2.wallAt = IF Up(v, v2) /\ v2.wall > 0 THEN v2.wall
                 ELSE IF v.wallAt = NotStarted /\ Measured(r) THEN 0
                 ELSE v.wallAt

LEMMA FineIsCoarse ==
  ASSUME NEW v, NEW v2, NEW r \in Results, Counts(v), Counts(v2), Fine(v, v2, r)
  PROVE  Coarse(v, v2, r)
<1>1. /\ Grows(v, v2, r)
      /\ v2.nonresult = 0 \/ (Nonresult(r) /\ v2.nonresult = v.nonresult + 1)
      /\ \/ v2.sterile = 0
         \/ ~Up(v, v2) /\ Known(v.seen, r) /\ v2.sterile = v.sterile + 1
      /\ v2.validAt = v2.valid \/ (~Up(v, v2) /\ v2.validAt = v.validAt)
  BY DEF Fine
<1>2. v2.wall \in Nat /\ v.wall \in Nat
  BY DEF Counts
<1>3. \/ v2.wallAt = v2.wall
      \/ Up(v, v2) /\ v2.wall = 0
      \/ ~Up(v, v2) /\ v2.wallAt = v.wallAt
      \/ ~Up(v, v2) /\ v.wallAt = NotStarted /\ v2.wallAt = 0
  BY <1>2 DEF Fine
<1> QED BY <1>1, <1>3 DEF Coarse

\* The detector w of the wide waves against the detector v of the narrow ones.
Wider(w, v) ==
  /\ w.gold = v.gold /\ w.rate = v.rate /\ w.indet = v.indet
  /\ w.seen = v.seen /\ w.valid = v.valid /\ w.wall = v.wall
  /\ w.nonresult <= v.nonresult /\ w.sterile <= v.sterile
  /\ w.validAt >= v.validAt /\ w.wallAt >= v.wallAt

LEMMA WiderGrows ==
  ASSUME NEW w, NEW w2, NEW v, NEW v2, NEW r \in Results,
         Counts(w), Counts(w2), Counts(v), Counts(v2),
         Wider(w, v), Coarse(w, w2, r), Fine(v, v2, r)
  PROVE  Wider(w2, v2)
<1>1. /\ w2.gold = v2.gold /\ w2.rate = v2.rate /\ w2.indet = v2.indet
      /\ w2.seen = v2.seen /\ w2.valid = v2.valid /\ w2.wall = v2.wall
  BY DEF Wider, Coarse, Fine, Grows
<1>2. (Up(w, w2) <=> Up(v, v2)) /\ (Known(w.seen, r) <=> Known(v.seen, r))
  BY <1>1 DEF Wider, Up, Known
<1>3. w2.nonresult <= v2.nonresult
  BY DEF Wider, Coarse, Fine, Counts
<1>4. w2.sterile <= v2.sterile
  BY <1>2 DEF Wider, Coarse, Fine, Counts
<1>5. w2.validAt >= v2.validAt
  BY <1>1, <1>2 DEF Wider, Coarse, Fine, Counts
<1>6. w2.wallAt >= v2.wallAt
  <2>1. /\ w2.wall \in Nat /\ w.wall \in Nat /\ v.wall = w.wall
        /\ v2.wall = w2.wall
        /\ w.wallAt \in Nat \cup {-1} /\ w2.wallAt \in Nat \cup {-1}
        /\ v.wallAt \in Nat \cup {-1} /\ v2.wallAt \in Nat \cup {-1}
        /\ w.wallAt = -1 <=> w.wall = 0
        /\ w2.wallAt = -1 <=> w2.wall = 0
        /\ v.wallAt = -1 <=> w.wall = 0
        /\ v2.wallAt = -1 <=> w2.wall = 0
        /\ v2.wallAt <= w2.wall
        /\ w.wallAt >= v.wallAt
    BY <1>1 DEF Counts, Wider, NotStarted
  <2>2. w2.wall = w.wall + IF Measured(r) THEN 1 ELSE 0
    BY DEF Coarse, Grows
  <2>3. CASE w2.wallAt = w2.wall
    BY <2>1, <2>3
  <2>4. CASE Up(w, w2) /\ w2.wall = 0
    BY <2>1, <2>4
  <2>5. CASE ~Up(w, w2) /\ w2.wallAt = w.wallAt
    BY <1>2, <2>1, <2>2, <2>5 DEF Fine, NotStarted
  <2>6. CASE ~Up(w, w2) /\ w.wallAt = NotStarted /\ w2.wallAt = 0
    BY <1>2, <2>1, <2>6 DEF Fine, NotStarted
  <2> QED BY <2>3, <2>4, <2>5, <2>6 DEF Coarse
<1> QED BY <1>1, <1>3, <1>4, <1>5, <1>6 DEF Wider

----------------------------------------------------------------------------
(***************************************************************************)
(* _observe is Coarse in one more result of the wave, Fine in one result.  *)
(***************************************************************************)

Prefix(out, k) == [j \in 1..k |-> out[j]]

LEMMA PrefixIs ==
  ASSUME NEW n \in Nat, NEW out \in WaveOf(n), NEW k \in 0..n
  PROVE  /\ k \in Nat /\ Prefix(out, k) \in WaveOf(k)
         /\ \A j \in 1..k : Prefix(out, k)[j] = out[j]
         /\ DOMAIN Prefix(out, k) = 1..k
         /\ k = n => Prefix(out, k) = out
BY DEF Prefix, WaveOf

\* The best after one more result.
LEMMA BestGrows ==
  ASSUME NEW det, Counts(det), NEW n \in Nat, NEW out \in WaveOf(n),
         NEW k \in Nat, k + 1 <= n, NEW p, NEW q, NEW r,
         p = Prefix(out, k), q = Prefix(out, k + 1), r = out[k + 1]
  PROVE  /\ BestGold(det, q) = IF ~r.none /\ r.gold > BestGold(det, p)
                               THEN r.gold ELSE BestGold(det, p)
         /\ BestRate(det, q) = IF ~r.none /\ r.rate > BestRate(det, p)
                               THEN r.rate ELSE BestRate(det, p)
<1>1. k \in 0..n /\ k + 1 \in 0..n /\ k + 1 \in Nat
  OBVIOUS
<1>2. /\ p \in WaveOf(k) /\ q \in WaveOf(k + 1)
      /\ \A j \in 1..k : p[j] = out[j] /\ q[j] = out[j]
      /\ q[k + 1] = r
  BY <1>1, PrefixIs
<1>3. /\ \A j \in 1..(k + 1) : out[j].gold \in Nat /\ out[j].rate \in Nat
      /\ r.none \in BOOLEAN /\ r.gold \in Nat /\ r.rate \in Nat
  BY WaveLength, ResultTypes
<1>4. det.gold \in Nat /\ det.rate \in Nat
  BY DEF Counts
<1>5. \A j \in 1..(k + 1) : j \in 1..k \/ j = k + 1
  OBVIOUS
<1> DEFINE gp == BestGold(det, p)
           gq == BestGold(det, q)
           tp == BestRate(det, p)
           tq == BestRate(det, q)
<1>6. BestOf(det, k, p) /\ BestOf(det, k + 1, q)
  BY <1>1, <1>2, <1>4, BestIs
<1>7. /\ gp \in Nat /\ gp >= det.gold /\ tp \in Nat /\ tp >= det.rate
      /\ \A i \in 1..k : ~p[i].none => p[i].gold <= gp /\ p[i].rate <= tp
      /\ gp = det.gold \/ \E i \in 1..k : ~p[i].none /\ gp = p[i].gold
      /\ tp = det.rate \/ \E i \in 1..k : ~p[i].none /\ tp = p[i].rate
  BY <1>6 DEF BestOf
<1>8. /\ gq \in Nat /\ gq >= det.gold /\ tq \in Nat /\ tq >= det.rate
      /\ \A i \in 1..(k + 1) : ~q[i].none => q[i].gold <= gq /\ q[i].rate <= tq
      /\ gq = det.gold \/ \E i \in 1..(k + 1) : ~q[i].none /\ gq = q[i].gold
      /\ tq = det.rate \/ \E i \in 1..(k + 1) : ~q[i].none /\ tq = q[i].rate
  BY <1>6 DEF BestOf
<1> HIDE DEF gp, gq, tp, tq
<1>9. /\ gq >= gp /\ tq >= tp
      /\ ~r.none => gq >= r.gold /\ tq >= r.rate
  <2>1. \A i \in 1..k : i \in 1..(k + 1) /\ p[i] = q[i]
    BY <1>2
  <2>2. k + 1 \in 1..(k + 1)
    OBVIOUS
  <2> QED BY <1>2, <1>3, <1>4, <1>7, <1>8, <2>1, <2>2
<1>10. /\ gq <= gp \/ (~r.none /\ gq = r.gold)
       /\ tq <= tp \/ (~r.none /\ tq = r.rate)
  BY <1>2, <1>3, <1>4, <1>5, <1>7, <1>8
<1>11. /\ gq = IF ~r.none /\ r.gold > gp THEN r.gold ELSE gp
       /\ tq = IF ~r.none /\ r.rate > tp THEN r.rate ELSE tp
  BY <1>3, <1>7, <1>8, <1>9, <1>10
<1> QED BY <1>11 DEF gp, gq, tp, tq

\* The positions and the diffs that count, after one more result.
Counted(det, k, p, q, r) ==
  /\ Good(q) = Good(p) \cup IF Measured(r) THEN {k + 1} ELSE {}
  /\ Cardinality(Good(q))
       = Cardinality(Good(p)) + IF Measured(r) THEN 1 ELSE 0
  /\ Bad(q) = DOMAIN q <=> (Bad(p) = DOMAIN p /\ Nonresult(r))
  /\ Stale(det, q) = DOMAIN q <=>
       (Stale(det, p) = DOMAIN p /\ Known(det.seen \cup News(p), r))
  /\ News(q) = News(p) \cup IF ~r.none /\ r.sha # NoDiff THEN {r.sha} ELSE {}

LEMMA CountsGrow ==
  ASSUME NEW det, NEW n \in Nat, NEW out \in WaveOf(n),
         NEW k \in Nat, k + 1 <= n, NEW p, NEW q, NEW r,
         p = Prefix(out, k), q = Prefix(out, k + 1), r = out[k + 1]
  PROVE  Counted(det, k, p, q, r)
<1>1. k \in 0..n /\ k + 1 \in 0..n /\ k + 1 \in Nat
  OBVIOUS
<1>2. /\ p \in WaveOf(k) /\ DOMAIN p = 1..k /\ DOMAIN q = 1..(k + 1)
      /\ \A j \in 1..k : p[j] = out[j] /\ q[j] = out[j]
      /\ q[k + 1] = r
  BY <1>1, PrefixIs
<1>3. /\ 1..(k + 1) = (1..k) \cup {k + 1} /\ k + 1 \notin 1..k
      /\ \A j \in 1..k : p[j] = q[j]
  BY <1>2
<1>4. Good(q) = Good(p) \cup IF Measured(r) THEN {k + 1} ELSE {}
  BY <1>2, <1>3 DEF Good
<1>5. Cardinality(Good(q))
        = Cardinality(Good(p)) + IF Measured(r) THEN 1 ELSE 0
  <2>1. IsFiniteSet(Good(p)) /\ Cardinality(Good(p)) \in Nat
    BY <1>2, GoodCount
  <2>2. CASE Measured(r)
    <3>1. k + 1 \notin Good(p)
      BY <1>2, <1>3 DEF Good
    <3> QED BY <1>4, <2>1, <2>2, <3>1, FS_AddElement
  <2>3. CASE ~Measured(r)
    BY <1>4, <2>1, <2>3
  <2> QED BY <2>2, <2>3
<1>6. Bad(q) = DOMAIN q <=> (Bad(p) = DOMAIN p /\ Nonresult(r))
  <2>1. Bad(q) = DOMAIN q <=> \A j \in 1..(k + 1) : Nonresult(q[j])
    BY <1>2 DEF Bad
  <2>2. Bad(p) = DOMAIN p <=> \A j \in 1..k : Nonresult(p[j])
    BY <1>2 DEF Bad
  <2> QED BY <2>1, <2>2, <1>2, <1>3
<1>7. Stale(det, q) = DOMAIN q <=>
        (Stale(det, p) = DOMAIN p /\ Known(det.seen \cup News(p), r))
  <2>1. Stale(det, q) = DOMAIN q <=> \A j \in 1..(k + 1) : Sterile(det, q, j)
    BY <1>2 DEF Stale
  <2>2. Stale(det, p) = DOMAIN p <=> \A j \in 1..k : Sterile(det, p, j)
    BY <1>2 DEF Stale
  <2>3. ASSUME NEW j \in 1..k PROVE Sterile(det, q, j) <=> Sterile(det, p, j)
    <3>1. \A i \in 1..(j - 1) : i \in 1..k /\ p[i] = q[i]
      BY <1>3
    <3> QED BY <1>3, <3>1 DEF Sterile
  <2>4. Sterile(det, q, k + 1) <=> Known(det.seen \cup News(p), r)
    <3>1. (k + 1) - 1 = k
      OBVIOUS
    <3>2. \A x : x \in News(p) <=>
            \E j \in 1..k : ~p[j].none /\ p[j].sha # NoDiff /\ x = p[j].sha
      BY <1>2 DEF News
    <3>3. Sterile(det, q, k + 1) <=>
            \/ r.none \/ r.sha = NoDiff \/ r.sha \in det.seen
            \/ \E j \in 1..k : ~p[j].none /\ p[j].sha = r.sha
      BY <1>2, <1>3, <3>1 DEF Sterile
    <3> QED BY <3>2, <3>3 DEF Known
  <2> QED BY <2>1, <2>2, <2>3, <2>4, <1>3
<1>8. News(q) = News(p) \cup IF ~r.none /\ r.sha # NoDiff THEN {r.sha} ELSE {}
  <2>1. \A x : x \in News(q) <=>
          \E j \in 1..(k + 1) : ~q[j].none /\ q[j].sha # NoDiff /\ x = q[j].sha
    BY <1>2 DEF News
  <2>2. \A x : x \in News(p) <=>
          \E j \in 1..k : ~p[j].none /\ p[j].sha # NoDiff /\ x = p[j].sha
    BY <1>2 DEF News
  <2>3. \A x : x \in News(q) <=>
          x \in News(p) \/ (~r.none /\ r.sha # NoDiff /\ x = r.sha)
    BY <2>1, <2>2, <1>2, <1>3
  <2> QED BY <2>3
<1> QED BY <1>4, <1>5, <1>6, <1>7, <1>8 DEF Counted

\* The last real measurement of a wave that ends with one.
LEMMA LastGoodGrows ==
  ASSUME NEW n \in Nat, NEW out \in WaveOf(n),
         NEW k \in Nat, k + 1 <= n, NEW p, NEW q, NEW r,
         p = Prefix(out, k), q = Prefix(out, k + 1), r = out[k + 1]
  PROVE  /\ Measured(r) => Good(q) # {} /\ Max(Good(q)) = k + 1
         /\ ~Measured(r) => Good(q) = Good(p)
<1>1. k \in 0..n /\ k + 1 \in 0..n
  OBVIOUS
<1>2. p \in WaveOf(k) /\ DOMAIN p = 1..k
  BY <1>1, PrefixIs
<1>3. Good(q) = Good(p) \cup IF Measured(r) THEN {k + 1} ELSE {}
  <2>1. Counted(Fresh, k, p, q, r)
    BY CountsGrow
  <2> QED BY <2>1 DEF Counted
<1>4. Good(p) \subseteq 1..k
  BY <1>2 DEF Good
<1>5. ASSUME Measured(r) PROVE Max(Good(q)) = k + 1
  <2>1. k + 1 \in Good(q) /\ Good(q) \subseteq Nat
    BY <1>3, <1>4, <1>5
  <2>2. \A x \in Good(q) : x <= k + 1
    BY <1>3, <1>4
  <2> QED BY <2>1, <2>2, MaxOf
<1> QED BY <1>3, <1>5

LEMMA ObserveCoarse ==
  ASSUME NEW det, Counts(det), NEW n \in Nat, NEW out \in WaveOf(n),
         NEW used \in Nat, NEW tokens \in Nat,
         NEW k \in Nat, k # 0, k + 1 <= n
  PROVE  Coarse(Observe(det, Prefix(out, k), used, tokens),
                Observe(det, Prefix(out, k + 1), used, tokens), out[k + 1])
<1> DEFINE p == Prefix(out, k)
           q == Prefix(out, k + 1)
           r == out[k + 1]
           w == Observe(det, p, used, tokens)
           w2 == Observe(det, q, used, tokens)
<1>1. k \in 0..n /\ k + 1 \in 0..n /\ k + 1 \in Nat
  OBVIOUS
<1>2. p \in WaveOf(k) /\ q \in WaveOf(k + 1) /\ r \in Results
  BY <1>1, PrefixIs, WaveLength
<1>3. /\ Observed(w, det, k, p, used, tokens)
      /\ Observed(w2, det, k + 1, q, used, tokens)
      /\ Counts(w) /\ Counts(w2)
  BY <1>1, <1>2, ObserveFields, ObserveCounts
<1>4. /\ BestGold(det, q) = IF ~r.none /\ r.gold > BestGold(det, p)
                            THEN r.gold ELSE BestGold(det, p)
      /\ BestRate(det, q) = IF ~r.none /\ r.rate > BestRate(det, p)
                            THEN r.rate ELSE BestRate(det, p)
  BY BestGrows
<1>5. Counted(det, k, p, q, r)
  BY CountsGrow
<1>6. /\ Measured(r) => Good(q) # {} /\ Max(Good(q)) = k + 1
      /\ ~Measured(r) => Good(q) = Good(p)
  BY LastGoodGrows
<1>7. /\ Cardinality(Good(p)) \in Nat
      /\ Good(p) # {} <=> Cardinality(Good(p)) > 0
      /\ Good(p) # {} => Max(Good(p)) \in 1..k
  BY <1>2, GoodCount, LastGood
<1>8. r.none \in BOOLEAN /\ r.gold \in Nat /\ r.rate \in Nat
  BY <1>2, ResultTypes
<1>9. /\ BestGold(det, p) \in Nat /\ BestGold(det, p) >= det.gold
      /\ BestRate(det, p) \in Nat /\ BestRate(det, p) >= det.rate
      /\ det.gold \in Nat /\ det.rate \in Nat
  BY <1>2, BestIs DEF BestOf, Counts
<1> HIDE DEF p, q, r, w, w2
<1>10. w.gold = BestGold(det, p) /\ w.rate = BestRate(det, p)
       /\ w2.gold = BestGold(det, q) /\ w2.rate = BestRate(det, q)
  BY <1>3 DEF Observed
<1>11. Rises(det, q) <=> Rises(det, p) \/ Up(w, w2)
  BY <1>4, <1>8, <1>9, <1>10 DEF Rises, Up
<1>12. Grows(w, w2, r)
  <2>1. /\ w2.gold = IF ~r.none /\ r.gold > w.gold THEN r.gold ELSE w.gold
        /\ w2.rate = IF ~r.none /\ r.rate > w.rate THEN r.rate ELSE w.rate
    BY <1>4, <1>10
  <2>2. /\ w2.valid = w.valid + IF Measured(r) THEN 1 ELSE 0
        /\ w2.wall = w.wall + IF Measured(r) THEN 1 ELSE 0
    BY <1>3, <1>5, <1>7 DEF Observed, Counts, Counted
  <2>3. w2.indet = IF Measured(r) THEN 0 ELSE w.indet + 1
    BY <1>3, <1>6, <1>7 DEF Observed, Counts
  <2>4. w2.seen = w.seen \cup IF ~r.none /\ r.sha # NoDiff THEN {r.sha} ELSE {}
    BY <1>3, <1>5 DEF Observed, Counted
  <2> QED BY <2>1, <2>2, <2>3, <2>4 DEF Grows
<1>13. w2.nonresult = 0 \/ (Nonresult(r) /\ w2.nonresult = w.nonresult + 1)
  BY <1>3, <1>5 DEF Observed, Counts, Counted
<1>14. \/ w2.sterile = 0
       \/ ~Up(w, w2) /\ Known(w.seen, r) /\ w2.sterile = w.sterile + 1
  <2>1. w.seen = det.seen \cup News(p)
    BY <1>3 DEF Observed
  <2> QED BY <1>3, <1>5, <1>11, <2>1 DEF Observed, Counts, Counted
<1>15. w2.validAt = w2.valid \/ (~Up(w, w2) /\ w2.validAt = w.validAt)
  BY <1>3, <1>11 DEF Observed
<1>16. \/ w2.wallAt = w2.wall
       \/ Up(w, w2) /\ w2.wall = 0
       \/ ~Up(w, w2) /\ w2.wallAt = w.wallAt
       \/ ~Up(w, w2) /\ w.wallAt = NotStarted /\ w2.wallAt = 0
  <2>1. /\ w2.wallAt = IF Rises(det, q) /\ Started(det, q) # -1
                       THEN w2.wall ELSE Started(det, q)
        /\ w.wallAt = IF Rises(det, p) /\ Started(det, p) # -1
                      THEN w.wall ELSE Started(det, p)
    BY <1>3 DEF Observed, NotStarted
  <2>2. /\ w2.wallAt = -1 <=> w2.wall = 0
        /\ w.wallAt = -1 <=> w.wall = 0
    BY <1>3 DEF Counts, NotStarted
  <2>3. /\ Started(det, p) = IF det.wallAt = -1 /\ Good(p) # {} THEN 0
                             ELSE det.wallAt
        /\ Started(det, q) = IF det.wallAt = -1 /\ Good(q) # {} THEN 0
                             ELSE det.wallAt
    BY DEF Started, NotStarted
  <2>4. Good(p) # {} => Good(q) # {}
    BY <1>5 DEF Counted
  <2> QED BY <1>11, <2>1, <2>2, <2>3, <2>4 DEF NotStarted
<1>17. Coarse(w, w2, r)
  BY <1>12, <1>13, <1>14, <1>15, <1>16 DEF Coarse
<1> QED BY <1>17 DEF w, w2, p, q, r

LEMMA ObserveFine ==
  ASSUME NEW v, Counts(v), NEW r \in Results,
         NEW used \in Nat, NEW tokens \in Nat
  PROVE  Fine(v, Observe(v, <<r>>, used, tokens), r)
<1> DEFINE out == <<r>>
           p == Prefix(out, 0)
           v2 == Observe(v, out, used, tokens)
<1>1. out \in WaveOf(1) /\ out[1] = r
  BY DEF WaveOf
<1> HIDE DEF out, p
<1>2. p \in WaveOf(0) /\ DOMAIN p = 1..0 /\ Prefix(out, 1) = out
  BY <1>1, PrefixIs DEF p
<1>3. Observed(v2, v, 1, out, used, tokens) /\ Counts(v2)
  BY <1>1, ObserveFields, ObserveCounts
<1>4. Counted(v, 0, p, out, r)
  BY <1>1, <1>2, CountsGrow DEF p
<1>5. /\ BestGold(v, out) = IF ~r.none /\ r.gold > BestGold(v, p)
                            THEN r.gold ELSE BestGold(v, p)
      /\ BestRate(v, out) = IF ~r.none /\ r.rate > BestRate(v, p)
                            THEN r.rate ELSE BestRate(v, p)
  BY <1>1, <1>2, BestGrows DEF p
<1>6. BestGold(v, p) = v.gold /\ BestRate(v, p) = v.rate
  BY <1>2, BestIs DEF BestOf, Counts
<1>7. /\ Good(p) = {} /\ News(p) = {}
      /\ Bad(p) = DOMAIN p /\ Stale(v, p) = DOMAIN p
  BY <1>2 DEF Good, News, Bad, Stale
<1>8. Cardinality(Good(p)) = 0
  BY <1>7, FS_EmptySet
<1>9. /\ Measured(r) => Good(out) # {} /\ Max(Good(out)) = 1
      /\ ~Measured(r) => Good(out) = {}
  BY <1>1, <1>2, <1>7, LastGoodGrows DEF p
<1>10. /\ v.valid \in Nat /\ v.wall \in Nat /\ v.indet \in Nat
       /\ v.nonresult \in Nat /\ v.sterile \in Nat
       /\ v.wallAt \in Nat \cup {-1} /\ (v.wallAt = -1 <=> v.wall = 0)
  BY DEF Counts, NotStarted
<1> HIDE DEF v2
<1>11. /\ v2.gold = IF ~r.none /\ r.gold > v.gold THEN r.gold ELSE v.gold
       /\ v2.rate = IF ~r.none /\ r.rate > v.rate THEN r.rate ELSE v.rate
  BY <1>3, <1>5, <1>6 DEF Observed
<1>12. /\ v2.valid = v.valid + IF Measured(r) THEN 1 ELSE 0
       /\ v2.wall = v.wall + IF Measured(r) THEN 1 ELSE 0
  BY <1>3, <1>4, <1>8, <1>10 DEF Observed, Counted
<1>13. v2.indet = IF Measured(r) THEN 0 ELSE v.indet + 1
  BY <1>3, <1>9, <1>10 DEF Observed
<1>14. v2.seen = v.seen \cup IF ~r.none /\ r.sha # NoDiff THEN {r.sha} ELSE {}
  BY <1>3, <1>4, <1>7 DEF Observed, Counted
<1>15. Grows(v, v2, r)
  BY <1>11, <1>12, <1>13, <1>14 DEF Grows
<1>16. Rises(v, out) <=> Up(v, v2)
  BY <1>3 DEF Observed, Rises, Up
<1>17. v2.nonresult = IF Nonresult(r) THEN v.nonresult + 1 ELSE 0
  BY <1>3, <1>4, <1>7 DEF Observed, Counted
<1>18. v2.sterile = IF Up(v, v2) \/ ~Known(v.seen, r) THEN 0
                    ELSE v.sterile + 1
  <2>1. v.seen \cup News(p) = v.seen
    BY <1>7
  <2> QED BY <1>3, <1>4, <1>7, <1>16, <2>1 DEF Observed, Counted
<1>19. v2.validAt = IF Up(v, v2) THEN v2.valid ELSE v.validAt
  BY <1>3, <1>16 DEF Observed
<1>20. v2.wallAt = IF Up(v, v2) /\ v2.wall > 0 THEN v2.wall
                   ELSE IF v.wallAt = NotStarted /\ Measured(r) THEN 0
                   ELSE v.wallAt
  <2>1. Started(v, out) = IF v.wallAt = -1 /\ Measured(r) THEN 0 ELSE v.wallAt
    BY <1>9 DEF Started, NotStarted
  <2>2. v2.wallAt = IF Up(v, v2) /\ Started(v, out) # -1 THEN v2.wall
                    ELSE Started(v, out)
    BY <1>3, <1>16 DEF Observed, NotStarted
  <2>3. Measured(r) \in BOOLEAN
    BY DEF Measured
  <2> QED BY <1>10, <1>12, <2>1, <2>2, <2>3 DEF NotStarted
<1>21. Fine(v, v2, r)
  BY <1>15, <1>17, <1>18, <1>19, <1>20 DEF Fine
<1> QED BY <1>21 DEF v2, out

\* An empty wave is the same for both.
LEMMA WiderEmpty ==
  ASSUME NEW w, NEW v, Counts(w), Counts(v), Wider(w, v),
         NEW used \in Nat, NEW tokens \in Nat
  PROVE  Wider(Observe(w, <<>>, used, tokens), Observe(v, <<>>, used, tokens))
<1> DEFINE out == <<>>
           w2 == Observe(w, out, used, tokens)
           v2 == Observe(v, out, used, tokens)
<1>1. out \in WaveOf(0) /\ DOMAIN out = {}
  BY DEF WaveOf
<1> HIDE DEF out
<1>2. /\ Observed(w2, w, 0, out, used, tokens)
      /\ Observed(v2, v, 0, out, used, tokens)
  BY <1>1, ObserveFields
<1>3. /\ BestGold(w, out) = w.gold /\ BestRate(w, out) = w.rate
      /\ BestGold(v, out) = v.gold /\ BestRate(v, out) = v.rate
  <2>1. BestOf(w, 0, out) /\ BestOf(v, 0, out)
    BY <1>1, BestIs DEF Counts
  <2> QED BY <2>1 DEF BestOf
<1>4. ~Rises(w, out) /\ ~Rises(v, out)
  BY <1>3 DEF Rises, Counts
<1>5. /\ Good(out) = {} /\ Stale(w, out) = DOMAIN out
      /\ Stale(v, out) = DOMAIN out
  BY <1>1 DEF Good, Stale
<1>6. Cardinality(Good(out)) = 0
  BY <1>5, FS_EmptySet
<1>7. Started(w, out) = w.wallAt /\ Started(v, out) = v.wallAt
  BY <1>5 DEF Started
<1> HIDE DEF w2, v2
<1>8. /\ w2.gold = v2.gold /\ w2.rate = v2.rate /\ w2.indet = v2.indet
      /\ w2.seen = v2.seen /\ w2.valid = v2.valid /\ w2.wall = v2.wall
  BY <1>2, <1>3, <1>5 DEF Observed, Wider
<1>9. w2.nonresult <= v2.nonresult /\ w2.sterile <= v2.sterile
  BY <1>2, <1>4, <1>5 DEF Observed, Wider, Counts
<1>10. w2.validAt >= v2.validAt /\ w2.wallAt >= v2.wallAt
  BY <1>2, <1>4, <1>7 DEF Observed, Wider, Counts
<1>11. Wider(w2, v2)
  BY <1>8, <1>9, <1>10 DEF Wider
<1> QED BY <1>11 DEF w2, v2, out

----------------------------------------------------------------------------
(***************************************************************************)
(* The results of a wave one by one: the recursion is defined, and each of *)
(* its steps is Fine.                                                      *)
(***************************************************************************)

Stepwise(f, v, n, out, used) ==
  /\ f[0] = v
  /\ \A k \in 1..n : f[k] = Observe(f[k - 1], <<out[k]>>, used, used)
  /\ OneByOne(v, out, used) = f[n]

LEMMA OneByOneSteps ==
  ASSUME NEW v, NEW n \in Nat, n # 0, NEW out \in WaveOf(n), NEW used
  PROVE  \E f : Stepwise(f, v, n, out, used)
<1> DEFINE Is(f, m) == f = [i \in 0..m |->
             IF i = 0 THEN v ELSE Observe(f[i - 1], <<out[i]>>, used, used)]
           S == {m \in Nat : \E f : Is(f, m)}
<1>1. 0 \in S
  <2> DEFINE f == [i \in 0..0 |-> v]
  <2>1. f = [i \in 0..0 |-> IF i = 0 THEN v
               ELSE Observe(f[i - 1], <<out[i]>>, used, used)]
    OBVIOUS
  <2> QED BY <2>1
<1>2. ASSUME NEW m \in Nat, m \in S PROVE m + 1 \in S
  <2>1. PICK f : Is(f, m)
    BY <1>2
  <2> DEFINE g == [i \in 0..(m + 1) |->
               IF i = m + 1 THEN Observe(f[m], <<out[m + 1]>>, used, used)
               ELSE f[i]]
  <2>2. ASSUME NEW i \in 0..(m + 1)
        PROVE  g[i] = IF i = 0 THEN v
                      ELSE Observe(g[i - 1], <<out[i]>>, used, used)
    <3>1. CASE i = m + 1
      <4>1. i # 0 /\ i - 1 = m /\ m \in 0..(m + 1) /\ m # m + 1
        BY <3>1
      <4>2. g[i - 1] = f[m] /\ g[i] = Observe(f[m], <<out[m + 1]>>, used, used)
        BY <3>1, <4>1
      <4> QED BY <3>1, <4>1, <4>2
    <3>2. CASE i # m + 1
      <4>1. i \in 0..m /\ g[i] = f[i]
        BY <3>2
      <4>2. i # 0 => i - 1 \in 0..(m + 1) /\ g[i - 1] = f[i - 1]
        BY <4>1
      <4>3. f[i] = IF i = 0 THEN v
                   ELSE Observe(f[i - 1], <<out[i]>>, used, used)
        BY <2>1, <4>1
      <4> QED BY <4>1, <4>2, <4>3
    <3> QED BY <3>1, <3>2
  <2>3. Is(g, m + 1)
    <3>1. g = [i \in 0..(m + 1) |-> g[i]]
      OBVIOUS
    <3> HIDE DEF g
    <3> QED BY <2>2, <3>1
  <2> HIDE DEF g
  <2>4. \E h : Is(h, m + 1)
    BY <2>3
  <2> QED BY <2>4
<1> HIDE DEF S
<1>3. n \in S
  BY <1>1, <1>2, SetInduction
<1>4. \E f : Is(f, n)
  BY <1>3 DEF S
<1> DEFINE f == CHOOSE f : Is(f, n)
<1>5. Is(f, n)
  BY <1>4
<1>6. OneByOne(v, out, used) = f[n]
  <2>1. out # <<>> /\ Len(out) = n
    BY WaveLength
  <2> QED BY <2>1 DEF OneByOne
<1> HIDE DEF f
<1>7. f[0] = v
  BY <1>5
<1>8. ASSUME NEW k \in 1..n
      PROVE  f[k] = Observe(f[k - 1], <<out[k]>>, used, used)
  <2>1. k \in 0..n /\ k # 0
    OBVIOUS
  <2> QED BY <1>5, <2>1
<1>9. Stepwise(f, v, n, out, used)
  BY <1>6, <1>7, <1>8 DEF Stepwise
<1> QED BY <1>9

\* Whatever the results of a wave, the wide detector stays no stricter.
LEMMA WiderWave ==
  ASSUME NEW w, NEW v, Counts(w), Counts(v), Wider(w, v),
         NEW n \in Nat, NEW out \in WaveOf(n), NEW used \in Nat
  PROVE  /\ Counts(OneByOne(v, out, used))
         /\ Wider(Observe(w, out, used, used), OneByOne(v, out, used))
<1>1. CASE n = 0
  <2>1. out = <<>> /\ OneByOne(v, out, used) = Observe(v, out, used, used)
    BY <1>1, WaveLength DEF OneByOne
  <2>2. Counts(Observe(v, out, used, used))
    BY ObserveCounts
  <2>3. Wider(Observe(w, <<>>, used, used), Observe(v, <<>>, used, used))
    BY WiderEmpty
  <2> QED BY <2>1, <2>2, <2>3
<1>2. CASE n # 0
  <2>0. PICK f : Stepwise(f, v, n, out, used)
    BY <1>2, OneByOneSteps
  <2>1. /\ f[0] = v
        /\ \A k \in 1..n : f[k] = Observe(f[k - 1], <<out[k]>>, used, used)
        /\ OneByOne(v, out, used) = f[n]
    BY <2>0 DEF Stepwise
  <2> DEFINE W(k) == Observe(w, Prefix(out, k), used, used)
             S == {k \in Nat : k + 1 <= n =>
                     Counts(f[k + 1]) /\ Wider(W(k + 1), f[k + 1])}
  <2>2. ASSUME NEW k \in Nat, k + 1 <= n, Counts(f[k])
        PROVE  /\ out[k + 1] \in Results
               /\ Counts(f[k + 1]) /\ Fine(f[k], f[k + 1], out[k + 1])
    <3>1. k + 1 \in 1..n /\ (k + 1) - 1 = k
      BY <2>2
    <3>2. f[k + 1] = Observe(f[k], <<out[k + 1]>>, used, used)
      BY <2>1, <3>1
    <3>3. out[k + 1] \in Results
      BY <3>1, WaveLength
    <3>4. <<out[k + 1]>> \in WaveOf(1)
      BY <3>3 DEF WaveOf
    <3> QED BY <2>2, <3>2, <3>3, <3>4, ObserveCounts, ObserveFine
  <2>3. ASSUME NEW k \in Nat, k <= n PROVE Counts(W(k))
    <3>1. Prefix(out, k) \in WaveOf(k)
      BY <2>3, PrefixIs
    <3> QED BY <3>1, ObserveCounts
  <2>4. 0 \in S
    <3>1. Counts(f[1]) /\ Fine(v, f[1], out[1]) /\ out[1] \in Results
      BY <1>2, <2>1, <2>2
    <3>2. Prefix(out, 1) = <<out[1]>>
      BY DEF Prefix
    <3>3. Fine(w, W(1), out[1])
      BY <3>1, <3>2, ObserveFine
    <3>4. Counts(W(1))
      BY <1>2, <2>3
    <3>5. Coarse(w, W(1), out[1])
      BY <3>1, <3>3, <3>4, FineIsCoarse
    <3> HIDE DEF W
    <3>6. Wider(W(1), f[1])
      BY <3>1, <3>4, <3>5, WiderGrows
    <3> QED BY <3>1, <3>6
  <2>5. ASSUME NEW k \in Nat, k \in S PROVE k + 1 \in S
    <3> SUFFICES ASSUME (k + 1) + 1 <= n
                 PROVE  /\ Counts(f[(k + 1) + 1])
                        /\ Wider(W((k + 1) + 1), f[(k + 1) + 1])
      OBVIOUS
    <3> DEFINE i == k + 1
    <3>1. i \in Nat /\ i # 0 /\ i <= n /\ i + 1 <= n /\ i + 1 \in Nat
      OBVIOUS
    <3>2. Counts(f[i]) /\ Wider(W(i), f[i])
      BY <2>5
    <3> HIDE DEF i
    <3>3. /\ out[i + 1] \in Results
          /\ Counts(f[i + 1]) /\ Fine(f[i], f[i + 1], out[i + 1])
      BY <2>2, <3>1, <3>2
    <3>4. Coarse(W(i), W(i + 1), out[i + 1])
      BY <3>1, ObserveCoarse
    <3>5. Counts(W(i)) /\ Counts(W(i + 1))
      BY <2>3, <3>1
    <3> HIDE DEF W
    <3>6. Wider(W(i + 1), f[i + 1])
      BY <3>2, <3>3, <3>4, <3>5, WiderGrows
    <3> QED BY <3>3, <3>6 DEF i
  <2> HIDE DEF S
  <2>6. n - 1 \in S
    <3>1. n - 1 \in Nat
      BY <1>2
    <3> QED BY <2>4, <2>5, <3>1, SetInduction
  <2>7. Counts(f[n]) /\ Wider(W(n), f[n])
    <3>1. (n - 1) + 1 = n
      OBVIOUS
    <3> HIDE DEF W
    <3> QED BY <2>6, <3>1 DEF S
  <2>8. Prefix(out, n) = out
    BY PrefixIs
  <2> QED BY <2>1, <2>7, <2>8
<1> QED BY <1>1, <1>2

----------------------------------------------------------------------------
Compared ==
  /\ Counts(wide) /\ Counts(narrow) /\ Wider(wide, narrow)
  /\ agents \in Nat

LEMMA ComparedInvariant == Spec => []Compared
<1>1. Init => Compared
  BY FreshCounts DEF Init, Compared, Wider, Fresh, NotStarted
<1>2. Compared /\ [Next]_vars => Compared'
  <2> SUFFICES ASSUME Compared, [Next]_vars PROVE Compared'
    OBVIOUS
  <2>1. CASE UNCHANGED vars
    BY <2>1 DEF Compared, vars
  <2>2. ASSUME NEW out \in BoundedSeq(Results, MaxWidth), Wave(out)
        PROVE  Compared'
    <3>1. /\ agents' \in Nat
          /\ wide' = Observe(wide, out, agents', agents')
          /\ narrow' = OneByOne(narrow, out, agents')
      BY <2>2, StepIs DEF Compared
    <3>2. PICK n \in Nat : out \in WaveOf(n)
      BY <2>2, StepIs DEF Compared
    <3>3. /\ Counts(wide) /\ Counts(narrow) /\ Wider(wide, narrow)
      BY DEF Compared
    <3>4. Counts(wide')
      BY <3>1, <3>2, <3>3, ObserveCounts
    <3>5. Counts(narrow') /\ Wider(wide', narrow')
      BY <3>1, <3>2, <3>3, WiderWave
    <3> QED BY <3>1, <3>4, <3>5 DEF Compared
  <2> QED BY <2>1, <2>2 DEF Next
<1> QED BY <1>1, <1>2, PTL DEF Spec

\* Widening the waves never makes the run be cut sooner: whatever the results
\* and however the script groups them, each streak and window of the detector
\* is at most that of the detector which judges every attempt.
THEOREM WidthNeverCutsSooner == Spec => []WideIsNeverStricter
<1>1. ASSUME Compared PROVE WideIsNeverStricter
  <2>1. /\ wide.nonresult <= narrow.nonresult
        /\ wide.sterile <= narrow.sterile
        /\ wide.indet = narrow.indet /\ wide.gold = narrow.gold
    BY <1>1 DEF Compared, Wider
  <2>2. State(wide).valid <= State(narrow).valid
    BY <1>1 DEF Compared, Wider, Counts, State, WaveState
  <2>3. State(wide).seconds <= State(narrow).seconds
    BY <1>1 DEF Compared, Wider, Counts, State, WaveState, NotStarted
  <2> QED BY <2>1, <2>2, <2>3 DEF WideIsNeverStricter
<1>2. Compared => WideIsNeverStricter
  BY <1>1
<1> QED BY <1>2, ComparedInvariant, PTL
=============================================================================
