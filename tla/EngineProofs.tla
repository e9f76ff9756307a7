---------------------------- MODULE EngineProofs ----------------------------
(***************************************************************************)
(* Proofs about Engine.agent, for any callers, calls, slots and ceiling.   *)
(*                                                                         *)
(* The slots are conserved: each is free, held by a caller's own worker,   *)
(* held by an abandoned worker, or about to be reaped.  The other facts    *)
(* count callers: every step moves one caller between places, which adds   *)
(* it to, or removes it from, some of five sets.                           *)
(***************************************************************************)
EXTENDS Engine, TLAPS, FiniteSetTheorems

Queued == At({"queued"})

\* Where each slot is.
SlotInv == up => slots + Cardinality(Holding) + abandoned + reaping = MaxConcurrent

\* A dead process has no threads; an ended worker has a result of its own.
PlaceInv ==
  /\ ~up => /\ pc = [c \in Callers |-> "idle"]
            /\ abandoned = 0 /\ reaping = 0 /\ ranEarlier = ran
  /\ \A c \in Callers : pc[c] = "ended" => res[c] \in {"ok", "fail"}

\* A started worker is recorded, on its way to be, or lost to a kill.
RunInv == ran <= lost + recs + Cardinality(Started)

\* The workers that started or will start once they have a slot.
CeilInv == MaxTotal # 0 => ran + Cardinality(Queued) <= lost + MaxTotal

EngineInv ==
  /\ TypeOK /\ PlaceInv /\ SlotInv /\ TallyIsExact
  /\ RunInv /\ CeilInv /\ ResumeIsFree

----------------------------------------------------------------------------
\* The sets the invariants count are sets of callers.
LEMMA Subsets ==
  /\ Holding \subseteq Callers /\ Counted \subseteq Callers
  /\ Queued \subseteq Callers /\ Started \subseteq Callers
  /\ Uncharged \subseteq Callers
BY DEF Holding, Counted, Queued, Started, Uncharged, At

\* The size of a set of callers, one caller added or removed.
LEMMA Sizes ==
  ASSUME NEW S, NEW c, S \subseteq Callers, c \in Callers
  PROVE  /\ Cardinality(S) \in Nat
         /\ c \notin S => Cardinality(S \cup {c}) = Cardinality(S) + 1
         /\ c \in S => /\ Cardinality(S \ {c}) = Cardinality(S) - 1
                       /\ Cardinality(S) >= 1
<1>1. IsFiniteSet(S)  BY FS_Subset, ConstantsAssumption
<1>2. Cardinality(S) \in Nat /\ Cardinality(S \ {c}) \in Nat
  BY <1>1, FS_CardinalityType, FS_Subset
<1>3. c \notin S => Cardinality(S \cup {c}) = Cardinality(S) + 1
  BY <1>1, FS_AddElement
<1>4. c \in S => Cardinality(S \ {c}) = Cardinality(S) - 1
  BY <1>1, FS_RemoveElement
<1>5. QED  BY <1>2, <1>3, <1>4

\* Sizes are natural numbers.
LEMMA SizeTypes ==
  /\ Cardinality(Holding) \in Nat /\ Cardinality(Counted) \in Nat
  /\ Cardinality(Queued) \in Nat /\ Cardinality(Started) \in Nat
  /\ Cardinality(Uncharged) \in Nat
BY Subsets, ConstantsAssumption, FS_Subset, FS_CardinalityType

\* Where nobody is, the sets are empty.
LEMMA AllIdle ==
  ASSUME pc = [c \in Callers |-> "idle"]
  PROVE  /\ Cardinality(Holding) = 0 /\ Cardinality(Counted) = 0
         /\ Cardinality(Queued) = 0 /\ Cardinality(Started) = 0
         /\ Cardinality(Uncharged) = 0
<1>1. /\ Holding = {} /\ Counted = {} /\ Queued = {} /\ Started = {}
      /\ Uncharged = {}
  BY DEF Holding, Counted, Queued, Started, Uncharged, At
<1>2. QED  BY <1>1, FS_EmptySet

\* Nobody moves and no result changes but an idle caller's.
LEMMA NobodyMoves ==
  ASSUME TypeOK, UNCHANGED pc,
         \A c \in Callers : pc[c] # "idle" => res'[c] = res[c]
  PROVE  /\ Holding' = Holding /\ Counted' = Counted /\ Queued' = Queued
         /\ Started' = Started /\ Uncharged' = Uncharged
BY DEF TypeOK, Holding, Counted, Queued, Started, Uncharged, At

----------------------------------------------------------------------------
\* How each step of a caller moves it.
LEMMA Moves ==
  ASSUME TypeOK, PlaceInv, NEW c \in Callers
  PROVE  /\ \A k \in Calls : Miss(c, k) =>
              /\ Holding' = Holding /\ Counted' = Counted /\ Queued' = Queued
              /\ Started' = Started /\ Uncharged' = Uncharged
         /\ Count(c) /\ pc'[c] = "queued" =>
              /\ c \notin Counted /\ c \notin Queued
              /\ Holding' = Holding /\ Counted' = Counted \cup {c}
              /\ Queued' = Queued \cup {c}
              /\ Started' = Started /\ Uncharged' = Uncharged
         /\ Count(c) /\ pc'[c] = "result" =>
              /\ c \notin Counted
              /\ Holding' = Holding /\ Counted' = Counted \cup {c}
              /\ Queued' = Queued
              /\ Started' = Started /\ Uncharged' = Uncharged
         /\ Acquire(c) =>
              /\ c \notin Holding /\ c \in Queued
              /\ c \notin Started /\ c \notin Uncharged
              /\ Holding' = Holding \cup {c} /\ Counted' = Counted
              /\ Queued' = Queued \ {c}
              /\ Started' = Started \cup {c} /\ Uncharged' = Uncharged \cup {c}
         /\ \A r \in Results : Finish(c, r) =>
              /\ Holding' = Holding /\ Counted' = Counted /\ Queued' = Queued
              /\ Started' = Started /\ Uncharged' = Uncharged
         /\ Release(c) =>
              /\ c \in Holding
              /\ Holding' = Holding \ {c} /\ Counted' = Counted
              /\ Queued' = Queued
              /\ Started' = Started /\ Uncharged' = Uncharged
         /\ Abandon(c) =>
              /\ c \in Holding /\ c \in Uncharged
              /\ Holding' = Holding \ {c} /\ Counted' = Counted
              /\ Queued' = Queued
              /\ Started' = Started /\ Uncharged' = Uncharged \ {c}
         /\ Commit(c) =>
              /\ c \in Counted
              /\ Holding' = Holding /\ Counted' = Counted \ {c}
              /\ Queued' = Queued
              /\ Started' = Started \ {c} /\ Uncharged' = Uncharged
         /\ Charge(c) =>
              /\ res[c] \in {"ok", "fail"} => c \in Uncharged
              /\ Holding' = Holding /\ Counted' = Counted /\ Queued' = Queued
              /\ Started' = Started
              /\ Uncharged' = Uncharged \ {c}
<1> USE DEF TypeOK, PlaceInv, Holding, Counted, Queued, Started, Uncharged, At
<1>1. ASSUME NEW k \in Calls, Miss(c, k)
      PROVE  /\ Holding' = Holding /\ Counted' = Counted /\ Queued' = Queued
             /\ Started' = Started /\ Uncharged' = Uncharged
  BY <1>1 DEF Miss
<1>2. ASSUME Count(c), pc'[c] = "queued"
      PROVE  /\ c \notin Counted /\ c \notin Queued
             /\ Holding' = Holding /\ Counted' = Counted \cup {c}
             /\ Queued' = Queued \cup {c}
             /\ Started' = Started /\ Uncharged' = Uncharged
  <2>1. pc' = [pc EXCEPT ![c] = "queued"] /\ pc[c] = "missed" /\ res' = res
    BY <1>2 DEF Count
  <2>2. QED  BY <2>1
<1>3. ASSUME Count(c), pc'[c] = "result"
      PROVE  /\ c \notin Counted
             /\ Holding' = Holding /\ Counted' = Counted \cup {c}
             /\ Queued' = Queued
             /\ Started' = Started /\ Uncharged' = Uncharged
  <2>1. /\ pc' = [pc EXCEPT ![c] = "result"] /\ pc[c] = "missed"
        /\ res' = [res EXCEPT ![c] = "refused"]
    BY <1>3 DEF Count
  <2>2. QED  BY <2>1
<1>4. ASSUME Acquire(c)
      PROVE  /\ c \notin Holding /\ c \in Queued
             /\ c \notin Started /\ c \notin Uncharged
             /\ Holding' = Holding \cup {c} /\ Counted' = Counted
             /\ Queued' = Queued \ {c}
             /\ Started' = Started \cup {c} /\ Uncharged' = Uncharged \cup {c}
  BY <1>4 DEF Acquire
<1>5. ASSUME NEW r \in Results, Finish(c, r)
      PROVE  /\ Holding' = Holding /\ Counted' = Counted /\ Queued' = Queued
             /\ Started' = Started /\ Uncharged' = Uncharged
  BY <1>5 DEF Finish
<1>6. ASSUME Release(c)
      PROVE  /\ c \in Holding
             /\ Holding' = Holding \ {c} /\ Counted' = Counted
             /\ Queued' = Queued
             /\ Started' = Started /\ Uncharged' = Uncharged
  BY <1>6 DEF Release
<1>7. ASSUME Abandon(c)
      PROVE  /\ c \in Holding /\ c \in Uncharged
             /\ Holding' = Holding \ {c} /\ Counted' = Counted
             /\ Queued' = Queued
             /\ Started' = Started /\ Uncharged' = Uncharged \ {c}
  BY <1>7 DEF Abandon
<1>8. ASSUME Commit(c)
      PROVE  /\ c \in Counted
             /\ Holding' = Holding /\ Counted' = Counted \ {c}
             /\ Queued' = Queued
             /\ Started' = Started \ {c} /\ Uncharged' = Uncharged
  BY <1>8 DEF Commit
<1>9. ASSUME Charge(c)
      PROVE  /\ res[c] \in {"ok", "fail"} => c \in Uncharged
             /\ Holding' = Holding /\ Counted' = Counted /\ Queued' = Queued
             /\ Started' = Started /\ Uncharged' = Uncharged \ {c}
  BY <1>9 DEF Charge
<1> QED  BY <1>1, <1>2, <1>3, <1>4, <1>5, <1>6, <1>7, <1>8, <1>9

----------------------------------------------------------------------------
LEMMA InitInv == Init => EngineInv
<1> SUFFICES ASSUME Init PROVE EngineInv  OBVIOUS
<1>1. TypeOK  BY ConstantsAssumption DEF Init, TypeOK, PCs, Results
<1>2. pc = [c \in Callers |-> "idle"]  BY DEF Init
<1>3. QED
  BY <1>1, <1>2, AllIdle, ConstantsAssumption
  DEF Init, EngineInv, PlaceInv, SlotInv, TallyIsExact, RunInv, CeilInv,
      ResumeIsFree

\* Types, and what a place says of its result.
LEMMA TypeStep == TypeOK /\ PlaceInv /\ [Next]_vars => TypeOK' /\ PlaceInv'
<1> SUFFICES ASSUME TypeOK, PlaceInv, [Next]_vars PROVE TypeOK' /\ PlaceInv'
  OBVIOUS
<1> USE DEF TypeOK, PlaceInv, PCs, Results, journal, history
<1>1. ASSUME NEW c \in Callers, NEW k \in Calls, Hit(c, k) \/ Miss(c, k)
      PROVE  TypeOK' /\ PlaceInv'
  BY <1>1 DEF Hit, Miss
<1>2. ASSUME NEW c \in Callers, Count(c)  PROVE TypeOK' /\ PlaceInv'
  BY <1>2 DEF Count
<1>3. ASSUME NEW c \in Callers, Acquire(c)  PROVE TypeOK' /\ PlaceInv'
  BY <1>3 DEF Acquire
<1>4. ASSUME NEW c \in Callers, Release(c)  PROVE TypeOK' /\ PlaceInv'
  BY <1>4 DEF Release
<1>5. ASSUME NEW c \in Callers, Commit(c)  PROVE TypeOK' /\ PlaceInv'
  BY <1>5 DEF Commit
<1>6. ASSUME NEW c \in Callers, Charge(c)  PROVE TypeOK' /\ PlaceInv'
  BY <1>6 DEF Charge
<1>7. ASSUME NEW c \in Callers, Finishes(c)  PROVE TypeOK' /\ PlaceInv'
  BY <1>7 DEF Finishes, Finish
<1>8. ASSUME NEW c \in Callers, Abandon(c)  PROVE TypeOK' /\ PlaceInv'
  BY <1>8 DEF Abandon
<1>9. ASSUME AbandonedEnds \/ Reap  PROVE TypeOK' /\ PlaceInv'
  BY <1>9 DEF AbandonedEnds, Reap
<1>10. ASSUME Kill  PROVE TypeOK' /\ PlaceInv'
  <2>1. Cardinality(Started) \in Nat  BY SizeTypes
  <2>2. lost' \in Nat  BY <1>10, <2>1 DEF Kill
  <2>3. (pc = [c \in Callers |-> "idle"])'  BY <1>10 DEF Kill
  <2>4. TypeOK'
    <3>1. pc' \in [Callers -> PCs]  BY <2>3
    <3>2. ranEarlier' \in 0 .. ran' /\ ran' \in Nat /\ crashes' \in Nat
      BY <1>10 DEF Kill
    <3>3. /\ total' \in Nat /\ abandoned' \in Nat /\ reaping' \in Nat
          /\ spent' \in Nat /\ slots' \in Nat /\ recs' \in Nat
      BY <1>10 DEF Kill
    <3>4. /\ up' \in BOOLEAN /\ call' \in [Callers -> Calls]
          /\ res' \in [Callers -> Results] /\ settled' \subseteq Calls
      BY <1>10 DEF Kill
    <3>5. QED  BY <2>2, <3>1, <3>2, <3>3, <3>4
  <2>5. PlaceInv'  BY <1>10, <2>3 DEF Kill
  <2>6. QED  BY <2>4, <2>5
<1>11. ASSUME Restart  PROVE TypeOK' /\ PlaceInv'
  BY <1>11, ConstantsAssumption DEF Restart, RestartAt
<1>12. ASSUME UNCHANGED vars  PROVE TypeOK' /\ PlaceInv'
  BY <1>12 DEF vars
<1> QED
  BY <1>1, <1>2, <1>3, <1>4, <1>5, <1>6, <1>7, <1>8, <1>9, <1>10, <1>11, <1>12
  DEF Next, Proceed

\* The counting invariants.
Counts ==
  /\ SlotInv /\ TallyIsExact /\ RunInv /\ CeilInv /\ ResumeIsFree

LEMMA CountsStep ==
  TypeOK /\ PlaceInv /\ Counts /\ [Next]_vars => Counts'
<1> SUFFICES ASSUME TypeOK, PlaceInv, Counts, [Next]_vars PROVE Counts'
  OBVIOUS
<1> USE SizeTypes, ConstantsAssumption
    DEF Counts, SlotInv, TallyIsExact, RunInv, CeilInv, ResumeIsFree, journal,
        history
<1>0. /\ total \in Nat /\ abandoned \in Nat /\ reaping \in Nat /\ spent \in Nat
      /\ slots \in Nat /\ recs \in Nat /\ ran \in Nat /\ ranEarlier \in 0 .. ran
      /\ lost \in Nat /\ up \in BOOLEAN
  BY DEF TypeOK
<1> DEFINE Stay == /\ Holding' = Holding /\ Counted' = Counted
                   /\ Queued' = Queued /\ Started' = Started
                   /\ Uncharged' = Uncharged
<1>1. ASSUME NEW c \in Callers, NEW k \in Calls, Hit(c, k)  PROVE Counts'
  <2>1. Stay  BY <1>1, NobodyMoves DEF Hit, TypeOK
  <2>2. QED  BY <1>0, <1>1, <2>1 DEF Hit
<1>2. ASSUME NEW c \in Callers, NEW k \in Calls, Miss(c, k)  PROVE Counts'
  <2>1. Stay  BY <1>2, Moves
  <2>2. QED  BY <1>0, <1>2, <2>1 DEF Miss
<1>3. ASSUME NEW c \in Callers, Count(c)  PROVE Counts'
  <2>1. CASE MaxTotal # 0 /\ total' > MaxTotal
    <3>1. pc'[c] = "result"  BY <1>3, <2>1 DEF Count, TypeOK
    <3>2. /\ c \notin Counted
          /\ Holding' = Holding /\ Counted' = Counted \cup {c}
          /\ Queued' = Queued
          /\ Started' = Started /\ Uncharged' = Uncharged
      BY <1>3, <3>1, Moves
    <3>3. Cardinality(Counted') = Cardinality(Counted) + 1
      BY <3>2, Sizes, Subsets
    <3>4. QED  BY <1>0, <1>3, <3>2, <3>3 DEF Count
  <2>2. CASE ~(MaxTotal # 0 /\ total' > MaxTotal)
    <3>1. pc'[c] = "queued"  BY <1>3, <2>2 DEF Count, TypeOK
    <3>2. /\ c \notin Counted /\ c \notin Queued
          /\ Holding' = Holding /\ Counted' = Counted \cup {c}
          /\ Queued' = Queued \cup {c}
          /\ Started' = Started /\ Uncharged' = Uncharged
      BY <1>3, <3>1, Moves
    <3>3. /\ Cardinality(Counted') = Cardinality(Counted) + 1
          /\ Cardinality(Queued') = Cardinality(Queued) + 1
      BY <3>2, Sizes, Subsets
    <3>4. Cardinality(Queued) + Cardinality(Started) <= Cardinality(Counted)
      <4>1. Queued \cup Started \subseteq Counted /\ Queued \cap Started = {}
        BY DEF Queued, Started, Counted, At
      <4>2. IsFiniteSet(Queued) /\ IsFiniteSet(Started) /\ IsFiniteSet(Counted)
        BY Subsets, FS_Subset
      <4>3. Cardinality(Queued \cup Started)
              = Cardinality(Queued) + Cardinality(Started) - Cardinality({})
        BY <4>1, <4>2, FS_Union
      <4>4. Cardinality(Queued \cup Started) <= Cardinality(Counted)
        BY <4>1, <4>2, FS_Subset
      <4>5. QED  BY <4>3, <4>4, FS_EmptySet
    <3>5. CeilInv'
      BY <1>0, <1>3, <2>2, <3>2, <3>3, <3>4 DEF Count
    <3>6. QED  BY <1>0, <1>3, <3>2, <3>3, <3>5 DEF Count
  <2>3. QED  BY <2>1, <2>2
<1>4. ASSUME NEW c \in Callers, Acquire(c)  PROVE Counts'
  <2>1. /\ c \notin Holding /\ c \in Queued
        /\ c \notin Started /\ c \notin Uncharged
        /\ Holding' = Holding \cup {c} /\ Counted' = Counted
        /\ Queued' = Queued \ {c}
        /\ Started' = Started \cup {c} /\ Uncharged' = Uncharged \cup {c}
    BY <1>4, Moves
  <2>2. /\ Cardinality(Holding') = Cardinality(Holding) + 1
        /\ Cardinality(Queued') = Cardinality(Queued) - 1
        /\ Cardinality(Started') = Cardinality(Started) + 1
        /\ Cardinality(Uncharged') = Cardinality(Uncharged) + 1
    BY <2>1, Sizes, Subsets
  <2>3. QED  BY <1>0, <1>4, <2>1, <2>2 DEF Acquire
<1>5. ASSUME NEW c \in Callers, Release(c)  PROVE Counts'
  <2>1. /\ c \in Holding /\ Holding' = Holding \ {c} /\ Counted' = Counted
        /\ Queued' = Queued /\ Started' = Started /\ Uncharged' = Uncharged
    BY <1>5, Moves
  <2>2. Cardinality(Holding') = Cardinality(Holding) - 1
    BY <2>1, Sizes, Subsets
  <2>3. QED  BY <1>0, <1>5, <2>1, <2>2 DEF Release
<1>6. ASSUME NEW c \in Callers, Commit(c)  PROVE Counts'
  <2>1. /\ c \in Counted /\ Holding' = Holding /\ Counted' = Counted \ {c}
        /\ Queued' = Queued
        /\ Started' = Started \ {c} /\ Uncharged' = Uncharged
    BY <1>6, Moves
  <2>2. Cardinality(Counted') = Cardinality(Counted) - 1
    BY <2>1, Sizes, Subsets
  <2>3. /\ Cardinality(Started') \in Nat
        /\ Cardinality(Started') >= Cardinality(Started) - 1
    <3>1. CASE c \in Started  BY <2>1, <3>1, Sizes, Subsets
    <3>2. CASE c \notin Started
      <4>1. Started' = Started  BY <2>1, <3>2
      <4>2. QED  BY <4>1
    <3>3. QED  BY <3>1, <3>2
  <2>4. QED  BY <1>0, <1>6, <2>1, <2>2, <2>3 DEF Commit
<1>7. ASSUME NEW c \in Callers, Charge(c)  PROVE Counts'
  <2>1. /\ res[c] \in {"ok", "fail"} => c \in Uncharged
        /\ Holding' = Holding /\ Counted' = Counted /\ Queued' = Queued
        /\ Started' = Started /\ Uncharged' = Uncharged \ {c}
    BY <1>7, Moves
  <2>2. /\ c \in Uncharged => Cardinality(Uncharged') = Cardinality(Uncharged) - 1
        /\ c \notin Uncharged => Uncharged' = Uncharged
    BY <2>1, Sizes, Subsets
  <2>3. QED  BY <1>0, <1>7, <2>1, <2>2 DEF Charge
<1>8. ASSUME NEW c \in Callers, Finishes(c)  PROVE Counts'
  <2>1. PICK r \in Results : Finish(c, r)  BY <1>8 DEF Finishes
  <2>2. Stay  BY <2>1, Moves
  <2>3. QED  BY <1>0, <2>1, <2>2 DEF Finish
<1>9. ASSUME NEW c \in Callers, Abandon(c)  PROVE Counts'
  <2>1. /\ c \in Holding /\ c \in Uncharged
        /\ Holding' = Holding \ {c} /\ Counted' = Counted /\ Queued' = Queued
        /\ Started' = Started /\ Uncharged' = Uncharged \ {c}
    BY <1>9, Moves
  <2>2. /\ Cardinality(Holding') = Cardinality(Holding) - 1
        /\ Cardinality(Uncharged') = Cardinality(Uncharged) - 1
    BY <2>1, Sizes, Subsets
  <2>3. QED  BY <1>0, <1>9, <2>1, <2>2 DEF Abandon
<1>10. ASSUME AbandonedEnds \/ Reap  PROVE Counts'
  <2>1. Stay  BY <1>10, NobodyMoves DEF AbandonedEnds, Reap
  <2>2. QED  BY <1>0, <1>10, <2>1 DEF AbandonedEnds, Reap
<1>11. ASSUME Kill  PROVE Counts'
  <2>1. (pc = [c \in Callers |-> "idle"])'  BY <1>11 DEF Kill
  <2>2. /\ Cardinality(Queued') = 0 /\ Cardinality(Started') = 0
        /\ Cardinality(Holding') = 0
    <3>1. Queued' = {} /\ Started' = {} /\ Holding' = {}
      BY <2>1 DEF Queued, Started, Holding, At
    <3>2. QED  BY <3>1, FS_EmptySet
  <2>3. QED  BY <1>0, <1>11, <2>2 DEF Kill
<1>12. ASSUME Restart  PROVE Counts'
  <2>1. Stay  BY <1>12, NobodyMoves DEF Restart, RestartAt
  <2>2. /\ ~up /\ pc = [c \in Callers |-> "idle"]
        /\ abandoned = 0 /\ reaping = 0 /\ ranEarlier = ran
    BY <1>12 DEF PlaceInv, Restart, RestartAt
  <2>3. /\ Cardinality(Holding) = 0 /\ Cardinality(Counted) = 0
        /\ Cardinality(Uncharged) = 0
    BY <2>2, AllIdle
  <2>4. QED  BY <1>0, <1>12, <2>1, <2>2, <2>3 DEF Restart, RestartAt
<1>13. ASSUME UNCHANGED vars  PROVE Counts'
  <2>1. Stay  BY <1>13, NobodyMoves DEF vars
  <2>2. QED  BY <1>0, <1>13, <2>1 DEF vars
<1> QED
  BY <1>1, <1>2, <1>3, <1>4, <1>5, <1>6, <1>7, <1>8, <1>9, <1>10, <1>11, <1>12,
     <1>13
  DEF Next, Proceed

LEMMA Inductive == Spec => []EngineInv
<1>1. Init => EngineInv  BY InitInv
<1>2. EngineInv /\ [Next]_vars => EngineInv'
  BY TypeStep, CountsStep DEF EngineInv, Counts
<1>3. QED  BY <1>1, <1>2, PTL DEF Spec

----------------------------------------------------------------------------
\* The variables of the engine keep their types.
THEOREM EngineType == Spec => []TypeOK
<1>1. EngineInv => TypeOK  BY DEF EngineInv
<1>2. QED  BY <1>1, Inductive, PTL

\* At most max_concurrent workers are alive, abandoned ones included, however
\* calls, watchdogs and reapers interleave (Engine.agent, runtime.py:166-205).
THEOREM Concurrency == Spec => []WorkersWithinSlots
<1>1. EngineInv => WorkersWithinSlots
  <2> SUFFICES ASSUME EngineInv, up PROVE Live <= MaxConcurrent /\ slots <= MaxConcurrent
    BY DEF WorkersWithinSlots
  <2>1. At({"working"}) \subseteq Holding /\ IsFiniteSet(Holding)
    BY Subsets, FS_Subset, ConstantsAssumption DEF Holding, At
  <2>2. /\ Cardinality(At({"working"})) <= Cardinality(Holding)
        /\ Cardinality(At({"working"})) \in Nat
    BY <2>1, FS_Subset, FS_CardinalityType
  <2>3. QED
    BY <2>2, SizeTypes, ConstantsAssumption
    DEF EngineInv, SlotInv, TypeOK, Live
<1>2. QED  BY <1>1, Inductive, PTL

\* No slot leaks (the finally clause and the reaper, runtime.py:190-205).
THEOREM NoLeak == Spec => []SlotsComeBack
<1>1. EngineInv => SlotsComeBack
  <2> SUFFICES ASSUME EngineInv, up, Live = 0, reaping = 0, At({"ended"}) = {}
               PROVE  slots = MaxConcurrent
    BY DEF SlotsComeBack
  <2>1. IsFiniteSet(At({"working"}))
    BY FS_Subset, ConstantsAssumption DEF At
  <2>2. Cardinality(At({"working"})) = 0 /\ abandoned = 0
    BY <2>1, FS_CardinalityType DEF Live, EngineInv, TypeOK
  <2>3. At({"working"}) = {}  BY <2>1, <2>2, FS_EmptySet
  <2>4. Holding = {}  BY <2>3 DEF Holding, At
  <2>5. Cardinality(Holding) = 0  BY <2>4, FS_EmptySet
  <2>6. QED  BY <2>2, <2>5, ConstantsAssumption DEF EngineInv, SlotInv, TypeOK
<1>2. QED  BY <1>1, Inductive, PTL

\* The tally a restarted engine starts from is exact (runtime.py:77).
THEOREM Tally == Spec => []TallyIsExact
<1>1. EngineInv => TallyIsExact  BY DEF EngineInv
<1>2. QED  BY <1>1, Inductive, PTL

\* The agent ceiling bounds the whole run up to what kills lost
\* (runtime.py:149-154).
THEOREM Ceiling == Spec => []CeilingUpToLoss
<1>1. EngineInv => CeilingUpToLoss
  BY SizeTypes, ConstantsAssumption
  DEF EngineInv, CeilInv, CeilingUpToLoss, TypeOK
<1>2. QED  BY <1>1, Inductive, PTL

\* Replays charge nothing, fresh work at most once (runtime.py:210).
THEOREM FreeResume == Spec => []ResumeIsFree
<1>1. EngineInv => ResumeIsFree  BY DEF EngineInv
<1>2. QED  BY <1>1, Inductive, PTL

\* The engine touches the ledger only by recording the result of a call: it
\* is a client of the ledger that the journal keeps (JournalProofs,
\* KeepsTheLedger), which is why it can be checked with two variables for it.
THEOREM RecordsInTheLedger == Spec => ImplementsLedger
<1>1. Init => CallLedger!Init
  BY DEF Init, CallLedger!Init
<1>2. EngineInv /\ [Next]_vars => [CallLedger!Next]_<<settled, recs>>
  <2> SUFFICES ASSUME EngineInv, [Next]_vars
               PROVE  CallLedger!Next \/ UNCHANGED <<settled, recs>>
    OBVIOUS
  <2>1. ASSUME NEW c \in Callers, Commit(c)  PROVE CallLedger!Next
    <3>1. CallLedger!Note(call[c], res[c] = "ok")
      BY <2>1 DEF Commit, CallLedger!Note
    <3>2. call[c] \in Calls /\ (res[c] = "ok") \in BOOLEAN
      BY DEF EngineInv, TypeOK
    <3>3. QED  BY <3>1, <3>2 DEF CallLedger!Next
  <2>2. ASSUME NEW c \in Callers,
               \/ \E k \in Calls : Hit(c, k) \/ Miss(c, k)
               \/ Count(c) \/ Acquire(c) \/ Release(c) \/ Charge(c)
               \/ Finishes(c) \/ Abandon(c)
        PROVE  UNCHANGED <<settled, recs>>
    BY <2>2 DEF Hit, Miss, Count, Acquire, Release, Charge, Finishes, Finish,
                Abandon, journal
  <2>3. ASSUME AbandonedEnds \/ Reap \/ Kill \/ Restart \/ UNCHANGED vars
        PROVE  UNCHANGED <<settled, recs>>
    BY <2>3 DEF AbandonedEnds, Reap, Kill, Restart, RestartAt, journal, vars
  <2>4. QED  BY <2>1, <2>2, <2>3 DEF Next, Proceed
<1>3. QED
  BY <1>1, <1>2, Inductive, PTL DEF Spec, ImplementsLedger, CallLedger!Spec
=============================================================================
