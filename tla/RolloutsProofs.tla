--------------------------- MODULE RolloutsProofs ---------------------------
(***************************************************************************)
(* Proofs about Rollouts, for any rollouts, calls, slots and number of     *)
(* threads: the scheduler keeps its hands off the workspaces of running    *)
(* workers, answers every request that it dispatched, hands a patch over   *)
(* with the workspace it is in, and loses no pass.                         *)
(***************************************************************************)
EXTENDS Rollouts, TLAPS, FiniteSetTheorems

Early == {"dispatch", "wait", "tick", "reap", "grace"}
Later == {"recover", "late", "promote", "out"}
Idle == {"none", "prepared", "queued"}

\* The future of r is, or may become, a running worker.
Holds(r) == future[r] \in {"prepared", "queued", "running", "ending"}

\* Who may still run is on the books of the call, or quarantined.
FuturesKept ==
  /\ \A r \in Rollouts :
       /\ future[r] = "prepared" => pc = "dispatch" /\ r \in Members
       /\ future[r] = "queued" => r \in active
       /\ Busy(r) => r \in active \cup deferred \cup quarantined
       /\ r \in pending => future[r] = "none"
       /\ r \in active => future[r] \notin {"none", "prepared"}
       /\ r \in edited => future[r] \notin Idle
       /\ Of[r] > call => future[r] = "none" /\ r \notin quarantined
       /\ r \in deferred /\ pc \in Later => Done(r) \/ r \in quarantined
       /\ r \in quarantined /\ pc \in Early => r \notin Members
       /\ r \in deferred => future[r] \notin Idle
       /\ pc \in Early /\ (r \in pending \cup active \/ future[r] = "prepared")
            => count[r] = 0
  /\ pc \in Later \cup {"grace"} => active = {}
  /\ pc # "reap" => todo = {}

\* A lease is that of the rollout in the worktree; who may run has a
\* workspace of its own, or its lease, or is quarantined in a slot without.
Leases ==
  /\ \A s \in Slots : slot[s] \in Rollouts =>
       /\ slot[s] \in Members /\ cwd[slot[s]] = s
       /\ future[slot[s]] # "none"
  /\ pc = "out" => \A s \in Slots : slot[s] = "none"
  /\ \A r \in Members : Holds(r) =>
       \/ cwd[r] = r
       \/ /\ cwd[r] \in Slots
          /\ slot[cwd[r]] = IF r \in quarantined THEN "none" ELSE r
  /\ \A r, q \in Members : Holds(r) /\ Holds(q) /\ cwd[r] = cwd[q] => r = q
  /\ \A r \in Members : Holds(r) => git[cwd[r]] \in {cwd[r], 0}

HoldersKeepTheirTrees ==
  Settled => \A r \in Members : Holds(r) =>
    tree[cwd[r]] = IF r \in edited THEN r ELSE "clean"

Inv == TypeOK /\ FuturesKept /\ Leases /\ HoldersKeepTheirTrees

\* Without a predicate that raises: a request has no answer exactly while it
\* waits or runs, or when it was dropped before it got a workspace.
Open(r) == r \in pending \cup active \/ future[r] = "prepared"
Silent == \E q \in Members : result[q].why = "silent"
Answered ==
  /\ \A r \in Members :
       /\ count[r] \in {0, 1}
       /\ count[r] = 0 => Open(r) \/ (cwd[r] = 0 /\ halted)
       /\ r \in pending => cwd[r] = 0
       /\ result[r].why = "silent" => count[r] = 1
  /\ \A r \in Rollouts : Of[r] > call => cwd[r] = 0
  /\ draining => halted
  /\ pc \in Later \cup {"grace"} => pending = {} \/ halted \/ Silent
  /\ pc \in {"wait", "tick"} => active # {}

\* A step that leaves the workspaces alone and makes nobody a holder.
LEMMA Quiet ==
  ASSUME Inv, UNCHANGED <<call, quarantined, cwd, edited, disk>>,
         \A r \in Rollouts :
           /\ Holds(r)' => Holds(r)
           /\ future[r] # "none" => future'[r] # "none",
         pc' \in {pc} \cup (Callers \ {"out"})
  PROVE  Leases' /\ HoldersKeepTheirTrees'
  BY DEF disk, Inv, Leases, HoldersKeepTheirTrees, Settled, Members

LEMMA Entries ==
  /\ \A why \in Whys, p \in Paths \cup {0} : Empty(why, p) \in Results
  /\ \A p \in Paths \cup {0} : Diff(p) \in Rollouts \cup {"none"}
  /\ \A why, p : Empty(why, p).why = why
  BY DEF Empty, Results, Whys, Diff

LEMMA Abandoned ==
  ASSUME Inv, pc = "tick", NEW S \in SUBSET active, NEW why \in Whys,
         Abandon(S, why)
  PROVE  /\ active' \subseteq active /\ deferred' = deferred \cup S
         /\ deferred' \subseteq Members /\ cancelled' \subseteq Members
         /\ result' \in [Rollouts -> Results]
         /\ count' \in [Rollouts -> 0..2]
         /\ \A r \in Rollouts : r \notin S => count'[r] = count[r]
         /\ future' \in [Rollouts -> {"none", "prepared", "queued", "running",
                              "ending", "returned", "raised", "dropped"}]
         /\ todo = {}
<1> USE DEF Inv
<1>1. result' \in [Rollouts -> Results]
  BY Entries DEF Abandon, TypeOK
<1>2. \A r \in Rollouts : count'[r] = IF r \in S THEN 1 ELSE count[r]
  <2>1. \A r \in S : count[r] = 0
    BY DEF TypeOK, FuturesKept, Early, Members
  <2> TAKE r \in Rollouts
  <2>2. CASE r \in S
    <3>1. count'[r] = count[r] + 1
      BY <2>2 DEF Abandon
    <3> QED  BY <3>1, <2>1, <2>2
  <2>3. CASE r \notin S
    <3>1. count'[r] = count[r] + 0
      BY <2>3 DEF Abandon
    <3> QED  BY <3>1, <2>3 DEF TypeOK
  <2> QED  BY <2>2, <2>3
<1>3. count' \in [Rollouts -> 0..2]
  <2>1. count' = [r \in Rollouts |-> count'[r]]
    BY DEF Abandon
  <2> QED  BY <1>2, <2>1 DEF TypeOK
<1>4. future' \in [Rollouts -> {"none", "prepared", "queued", "running",
                              "ending", "returned", "raised", "dropped"}]
  BY DEF Abandon, TypeOK
<1>5. todo = {}
  BY DEF FuturesKept
<1> QED  BY <1>1, <1>2, <1>3, <1>4, <1>5 DEF Abandon, TypeOK, Members

LEMMA StartStep ==
  ASSUME Inv, NEW r \in Rollouts, Start(r)
  PROVE  Inv'
<1> USE RolloutsAssumption DEF Inv
<1>1. TypeOK'
  BY DEF Start, Written, calling, control, killing, work, disk, answer,
     TypeOK, Members, Callers
<1>2. FuturesKept'
  BY DEF Start, Written, calling, control, killing, work, disk, answer,
     TypeOK, Members, Callers, FuturesKept, Early, Later, Idle, Busy, Done
<1>3. Leases' /\ HoldersKeepTheirTrees'
  <2>1. /\ UNCHANGED <<call, quarantined, cwd, edited, disk>>
        /\ pc' \in {pc} \cup (Callers \ {"out"})
    BY DEF Start, Written, calling, control, killing, work, disk, answer,
       Callers
  <2>2. \A q \in Rollouts :
          /\ Holds(q)' => Holds(q)
          /\ future[q] # "none" => future'[q] # "none"
    BY DEF Start, Written, calling, control, killing, work, disk, answer,
       TypeOK, Holds
  <2> QED  BY <2>1, <2>2, Quiet
<1> QED  BY <1>1, <1>2, <1>3

LEMMA VerifyStep ==
  ASSUME Inv, NEW r \in Rollouts, Verify(r)
  PROVE  Inv'
<1> USE RolloutsAssumption DEF Inv
<1>1. TypeOK'
  BY DEF Verify, calling, control, killing, work, disk, answer, TypeOK,
     Members, Callers
<1>2. FuturesKept'
  BY DEF Verify, calling, control, killing, work, disk, answer, TypeOK,
     Members, Callers, FuturesKept, Early, Later, Idle, Busy, Done
<1>3. Leases' /\ HoldersKeepTheirTrees'
  <2>1. /\ UNCHANGED <<call, quarantined, cwd, edited, disk>>
        /\ pc' \in {pc} \cup (Callers \ {"out"})
    BY DEF Verify, calling, control, killing, work, disk, answer, Callers
  <2>2. \A q \in Rollouts :
          /\ Holds(q)' => Holds(q)
          /\ future[q] # "none" => future'[q] # "none"
    BY DEF Verify, calling, control, killing, work, disk, answer, TypeOK,
       Holds
  <2> QED  BY <2>1, <2>2, Quiet
<1> QED  BY <1>1, <1>2, <1>3

LEMMA FinishStep ==
  ASSUME Inv, NEW r \in Rollouts, Finish(r)
  PROVE  Inv'
<1> USE RolloutsAssumption DEF Inv
<1>1. TypeOK'
  BY DEF Finish, Written, calling, control, killing, work, disk, answer,
     TypeOK, Members, Callers
<1>2. FuturesKept'
  BY DEF Finish, Written, calling, control, killing, work, disk, answer,
     TypeOK, Members, Callers, FuturesKept, Early, Later, Idle, Busy, Done
<1>3. Leases' /\ HoldersKeepTheirTrees'
  <2>1. /\ UNCHANGED <<call, quarantined, cwd, edited, disk>>
        /\ pc' \in {pc} \cup (Callers \ {"out"})
    BY DEF Finish, Written, calling, control, killing, work, disk, answer,
       Callers
  <2>2. \A q \in Rollouts :
          /\ Holds(q)' => Holds(q)
          /\ future[q] # "none" => future'[q] # "none"
    BY DEF Finish, Written, calling, control, killing, work, disk, answer,
       TypeOK, Holds
  <2> QED  BY <2>1, <2>2, Quiet
<1> QED  BY <1>1, <1>2, <1>3

LEMMA FinalizeStep ==
  ASSUME Inv, NEW r \in Rollouts, Finalize(r)
  PROVE  Inv'
<1> USE RolloutsAssumption DEF Inv
<1>1. TypeOK'
  BY DEF Finalize, Written, calling, control, killing, work, disk, answer,
     TypeOK, Members, Callers
<1>2. FuturesKept'
  BY DEF Finalize, Written, calling, control, killing, work, disk, answer,
     TypeOK, Members, Callers, FuturesKept, Early, Later, Idle, Busy, Done
<1>3. Leases' /\ HoldersKeepTheirTrees'
  <2>1. /\ UNCHANGED <<call, quarantined, cwd, edited, disk>>
        /\ pc' \in {pc} \cup (Callers \ {"out"})
    BY DEF Finalize, Written, calling, control, killing, work, disk, answer,
       Callers
  <2>2. \A q \in Rollouts :
          /\ Holds(q)' => Holds(q)
          /\ future[q] # "none" => future'[q] # "none"
    BY DEF Finalize, Written, calling, control, killing, work, disk, answer,
       TypeOK, Holds
  <2> QED  BY <2>1, <2>2, Quiet
<1> QED  BY <1>1, <1>2, <1>3

LEMMA ReturnStep ==
  ASSUME Inv, NEW r \in Rollouts, Return(r)
  PROVE  Inv'
<1> USE RolloutsAssumption DEF Inv
<1>1. TypeOK'
  BY DEF Return, calling, control, killing, work, disk, answer, TypeOK,
     Members, Callers
<1>2. FuturesKept'
  BY DEF Return, calling, control, killing, work, disk, answer, TypeOK,
     Members, Callers, FuturesKept, Early, Later, Idle, Busy, Done
<1>3. Leases' /\ HoldersKeepTheirTrees'
  <2>1. /\ UNCHANGED <<call, quarantined, cwd, edited, disk>>
        /\ pc' \in {pc} \cup (Callers \ {"out"})
    BY DEF Return, calling, control, killing, work, disk, answer, Callers
  <2>2. \A q \in Rollouts :
          /\ Holds(q)' => Holds(q)
          /\ future[q] # "none" => future'[q] # "none"
    BY DEF Return, calling, control, killing, work, disk, answer, TypeOK,
       Holds
  <2> QED  BY <2>1, <2>2, Quiet
<1> QED  BY <1>1, <1>2, <1>3

LEMMA RaiseStep ==
  ASSUME Inv, NEW r \in Rollouts, Raise(r)
  PROVE  Inv'
<1> USE RolloutsAssumption DEF Inv
<1>1. TypeOK'
  BY DEF Raise, calling, control, killing, work, disk, answer, TypeOK,
     Members, Callers
<1>2. FuturesKept'
  BY DEF Raise, calling, control, killing, work, disk, answer, TypeOK,
     Members, Callers, FuturesKept, Early, Later, Idle, Busy, Done
<1>3. Leases' /\ HoldersKeepTheirTrees'
  <2>1. /\ UNCHANGED <<call, quarantined, cwd, edited, disk>>
        /\ pc' \in {pc} \cup (Callers \ {"out"})
    BY DEF Raise, calling, control, killing, work, disk, answer, Callers
  <2>2. \A q \in Rollouts :
          /\ Holds(q)' => Holds(q)
          /\ future[q] # "none" => future'[q] # "none"
    BY DEF Raise, calling, control, killing, work, disk, answer, TypeOK, Holds
  <2> QED  BY <2>1, <2>2, Quiet
<1> QED  BY <1>1, <1>2, <1>3

LEMMA SetupFailsStep ==
  ASSUME Inv, NEW r \in Rollouts, SetupFails(r)
  PROVE  Inv'
<1> USE RolloutsAssumption DEF Inv
<1>1. TypeOK'
  <2>1. count[r] = 0
    BY DEF SetupFails, FuturesKept, Early
  <2>2. count' \in [Rollouts -> 0..2]
    BY <2>1 DEF SetupFails, Answer, TypeOK
  <2>3. result' \in [Rollouts -> Results]
    BY Entries DEF SetupFails, Answer, TypeOK, Whys
  <2> QED  BY <2>2, <2>3 DEF SetupFails, calling, killing, work, disk, TypeOK,
     Members, Callers
<1>2. FuturesKept'
  BY DEF SetupFails, Answer, calling, control, killing, work, disk, answer,
     TypeOK, Members, Callers, FuturesKept, Early, Later, Idle, Busy, Done
<1>3. Leases' /\ HoldersKeepTheirTrees'
  <2>1. /\ UNCHANGED <<call, quarantined, cwd, edited, disk>>
        /\ pc' \in {pc} \cup (Callers \ {"out"})
    BY DEF SetupFails, Answer, calling, control, killing, work, disk, answer,
       Callers
  <2>2. \A q \in Rollouts :
          /\ Holds(q)' => Holds(q)
          /\ future[q] # "none" => future'[q] # "none"
    BY DEF SetupFails, Answer, calling, control, killing, work, disk, answer,
       TypeOK, Holds
  <2> QED  BY <2>1, <2>2, Quiet
<1> QED  BY <1>1, <1>2, <1>3

LEMMA SubmitStep ==
  ASSUME Inv, Submit
  PROVE  Inv'
<1> USE RolloutsAssumption DEF Inv
<1>1. TypeOK'
  <2>1. future' \in [Rollouts -> {"none", "prepared", "queued", "running",
                              "ending", "returned", "raised", "dropped"}]
    BY DEF Submit, TypeOK
  <2>2. active' \subseteq Members
    BY DEF Submit, Prepared, TypeOK, FuturesKept
  <2> QED  BY <2>1, <2>2 DEF Submit, Prepared, calling, control, killing,
     work, disk, answer, TypeOK, Members, Callers
<1>2. FuturesKept'
  BY DEF Submit, Prepared, calling, control, killing, work, disk, answer,
     TypeOK, Members, Callers, FuturesKept, Early, Later, Idle, Busy, Done
<1>3. Leases' /\ HoldersKeepTheirTrees'
  <2>1. /\ UNCHANGED <<call, quarantined, cwd, edited, disk>>
        /\ pc' \in {pc} \cup (Callers \ {"out"})
    BY DEF Submit, Prepared, calling, control, killing, work, disk, answer,
       Callers
  <2>2. \A q \in Rollouts :
          /\ Holds(q)' => Holds(q)
          /\ future[q] # "none" => future'[q] # "none"
    BY DEF Submit, Prepared, calling, control, killing, work, disk, answer,
       TypeOK, Holds
  <2> QED  BY <2>1, <2>2, Quiet
<1> QED  BY <1>1, <1>2, <1>3

LEMMA WaitStep ==
  ASSUME Inv, Wait
  PROVE  Inv'
<1> USE RolloutsAssumption DEF Inv
<1>1. TypeOK'
  BY DEF Wait, calling, control, killing, work, disk, answer, TypeOK, Members,
     Callers
<1>2. FuturesKept'
  BY DEF Wait, calling, control, killing, work, disk, answer, TypeOK, Members,
     Callers, FuturesKept, Early, Later, Idle, Busy, Done
<1>3. Leases' /\ HoldersKeepTheirTrees'
  <2>1. /\ UNCHANGED <<call, quarantined, cwd, edited, disk>>
        /\ pc' \in {pc} \cup (Callers \ {"out"})
    BY DEF Wait, calling, control, killing, work, disk, answer, Callers
  <2>2. \A q \in Rollouts :
          /\ Holds(q)' => Holds(q)
          /\ future[q] # "none" => future'[q] # "none"
    BY DEF Wait, calling, control, killing, work, disk, answer, TypeOK, Holds
  <2> QED  BY <2>1, <2>2, Quiet
<1> QED  BY <1>1, <1>2, <1>3

LEMMA EmergencyStep ==
  ASSUME Inv, Emergency
  PROVE  Inv'
<1> USE RolloutsAssumption DEF Inv
<1>a. active \in SUBSET active /\ pc = "tick" /\ "silent" \in Whys
      /\ Abandon(active, "silent")
  BY DEF Emergency, Whys, MayStall
<1>b. /\ active' \subseteq active /\ deferred' = deferred \cup active
      /\ deferred' \subseteq Members /\ cancelled' \subseteq Members
      /\ result' \in [Rollouts -> Results]
      /\ count' \in [Rollouts -> 0..2]
      /\ \A r \in Rollouts : r \notin active => count'[r] = count[r]
      /\ future' \in [Rollouts -> {"none", "prepared", "queued", "running",
                              "ending", "returned", "raised", "dropped"}]
      /\ todo = {}
  BY <1>a, Abandoned
<1>c. /\ active' = active \ active
      /\ cancelled' = cancelled \cup active
      /\ \A r \in Rollouts : future'[r] =
           IF r \in active /\ future[r] = "queued" THEN "dropped" ELSE future[r]
      /\ UNCHANGED <<calling, quarantined, work, status, disk>>
  BY <1>a DEF Abandon
<1>1. TypeOK'
  BY <1>a, <1>b, <1>c DEF Emergency, calling, control, killing, work, disk,
     answer, TypeOK, Members, Callers
<1>2. FuturesKept'
  <2>1. /\ active' = active \ active /\ todo' = {}
        /\ pc' \in Later \cup {"grace"} => active' = {}
    BY <1>a, <1>b, <1>c DEF Emergency, Later
  <2>2. \A r \in Rollouts : count'[r] = count[r] \/ r \in active
    BY <1>b
  <2> QED  BY <1>a, <1>b, <1>c, <2>1, <2>2 DEF Emergency, calling, control,
     killing, work, disk, answer, TypeOK, Members, Callers, FuturesKept,
     Early, Later, Idle, Busy, Done
<1>3. Leases' /\ HoldersKeepTheirTrees'
  <2>1. /\ UNCHANGED <<call, quarantined, cwd, edited, disk>>
        /\ pc' \in {pc} \cup (Callers \ {"out"})
    BY <1>c DEF Emergency, calling, control, killing, work, disk, answer,
       Callers
  <2>2. \A q \in Rollouts :
          /\ Holds(q)' => Holds(q)
          /\ future[q] # "none" => future'[q] # "none"
    BY <1>c DEF Emergency, calling, control, killing, work, disk, answer,
       TypeOK, Holds
  <2> QED  BY <2>1, <2>2, Quiet
<1> QED  BY <1>1, <1>2, <1>3

LEMMA DrainExpiresStep ==
  ASSUME Inv, DrainExpires
  PROVE  Inv'
<1> USE RolloutsAssumption DEF Inv
<1>a. active \in SUBSET active /\ pc = "tick" /\ "preempted" \in Whys
      /\ Abandon(active, "preempted")
  BY DEF DrainExpires, Whys, MayStall
<1>b. /\ active' \subseteq active /\ deferred' = deferred \cup active
      /\ deferred' \subseteq Members /\ cancelled' \subseteq Members
      /\ result' \in [Rollouts -> Results]
      /\ count' \in [Rollouts -> 0..2]
      /\ \A r \in Rollouts : r \notin active => count'[r] = count[r]
      /\ future' \in [Rollouts -> {"none", "prepared", "queued", "running",
                              "ending", "returned", "raised", "dropped"}]
      /\ todo = {}
  BY <1>a, Abandoned
<1>c. /\ active' = active \ active
      /\ cancelled' = cancelled \cup active
      /\ \A r \in Rollouts : future'[r] =
           IF r \in active /\ future[r] = "queued" THEN "dropped" ELSE future[r]
      /\ UNCHANGED <<calling, quarantined, work, status, disk>>
  BY <1>a DEF Abandon
<1>1. TypeOK'
  BY <1>a, <1>b, <1>c DEF DrainExpires, calling, control, killing, work, disk,
     answer, TypeOK, Members, Callers
<1>2. FuturesKept'
  <2>1. /\ active' = active \ active /\ todo' = {}
        /\ pc' \in Later \cup {"grace"} => active' = {}
    BY <1>a, <1>b, <1>c DEF DrainExpires, Later
  <2>2. \A r \in Rollouts : count'[r] = count[r] \/ r \in active
    BY <1>b
  <2> QED  BY <1>a, <1>b, <1>c, <2>1, <2>2 DEF DrainExpires, calling, control,
     killing, work, disk, answer, TypeOK, Members, Callers, FuturesKept,
     Early, Later, Idle, Busy, Done
<1>3. Leases' /\ HoldersKeepTheirTrees'
  <2>1. /\ UNCHANGED <<call, quarantined, cwd, edited, disk>>
        /\ pc' \in {pc} \cup (Callers \ {"out"})
    BY <1>c DEF DrainExpires, calling, control, killing, work, disk, answer,
       Callers
  <2>2. \A q \in Rollouts :
          /\ Holds(q)' => Holds(q)
          /\ future[q] # "none" => future'[q] # "none"
    BY <1>c DEF DrainExpires, calling, control, killing, work, disk, answer,
       TypeOK, Holds
  <2> QED  BY <2>1, <2>2, Quiet
<1> QED  BY <1>1, <1>2, <1>3

LEMMA ExpireStep ==
  ASSUME Inv, NEW S \in SUBSET Rollouts, Expire(S)
  PROVE  Inv'
<1> USE RolloutsAssumption DEF Inv
<1>a. S \in SUBSET active /\ pc = "tick" /\ "stalled" \in Whys
      /\ Abandon(S, "stalled")
  BY DEF Expire, Whys, MayStall
<1>b. /\ active' \subseteq active /\ deferred' = deferred \cup S
      /\ deferred' \subseteq Members /\ cancelled' \subseteq Members
      /\ result' \in [Rollouts -> Results]
      /\ count' \in [Rollouts -> 0..2]
      /\ \A r \in Rollouts : r \notin S => count'[r] = count[r]
      /\ future' \in [Rollouts -> {"none", "prepared", "queued", "running",
                              "ending", "returned", "raised", "dropped"}]
      /\ todo = {}
  BY <1>a, Abandoned
<1>c. /\ active' = active \ S
      /\ cancelled' = cancelled \cup S
      /\ \A r \in Rollouts : future'[r] =
           IF r \in S /\ future[r] = "queued" THEN "dropped" ELSE future[r]
      /\ UNCHANGED <<calling, quarantined, work, status, disk>>
  BY <1>a DEF Abandon
<1>1. TypeOK'
  BY <1>a, <1>b, <1>c DEF Expire, MayStall, calling, control, killing, work,
     disk, answer, TypeOK, Members, Callers
<1>2. FuturesKept'
  <2>1. /\ active' = active \ S /\ todo' = {}
        /\ pc' \in Later \cup {"grace"} => active' = {}
    BY <1>a, <1>b, <1>c DEF Expire, Later
  <2>2. \A r \in Rollouts : count'[r] = count[r] \/ r \in S
    BY <1>b
  <2> QED  BY <1>a, <1>b, <1>c, <2>1, <2>2 DEF Expire, MayStall, calling,
     control, killing, work, disk, answer, TypeOK, Members, Callers,
     FuturesKept, Early, Later, Idle, Busy, Done
<1>3. Leases' /\ HoldersKeepTheirTrees'
  <2>1. /\ UNCHANGED <<call, quarantined, cwd, edited, disk>>
        /\ pc' \in {pc} \cup (Callers \ {"out"})
    BY <1>c DEF Expire, MayStall, calling, control, killing, work, disk,
       answer, Callers
  <2>2. \A q \in Rollouts :
          /\ Holds(q)' => Holds(q)
          /\ future[q] # "none" => future'[q] # "none"
    BY <1>c DEF Expire, MayStall, calling, control, killing, work, disk,
       answer, TypeOK, Holds
  <2> QED  BY <2>1, <2>2, Quiet
<1> QED  BY <1>1, <1>2, <1>3

LEMMA TickStep ==
  ASSUME Inv, Tick
  PROVE  Inv'
<1> USE RolloutsAssumption DEF Inv
<1>1. TypeOK'
  BY DEF Tick, calling, control, killing, work, disk, answer, TypeOK, Members,
     Callers
<1>2. FuturesKept'
  BY DEF Tick, calling, control, killing, work, disk, answer, TypeOK, Members,
     Callers, FuturesKept, Early, Later, Idle, Busy, Done
<1>3. Leases' /\ HoldersKeepTheirTrees'
  <2>1. /\ UNCHANGED <<call, quarantined, cwd, edited, disk>>
        /\ pc' \in {pc} \cup (Callers \ {"out"})
    BY DEF Tick, calling, control, killing, work, disk, answer, Callers
  <2>2. \A q \in Rollouts :
          /\ Holds(q)' => Holds(q)
          /\ future[q] # "none" => future'[q] # "none"
    BY DEF Tick, calling, control, killing, work, disk, answer, TypeOK, Holds
  <2> QED  BY <2>1, <2>2, Quiet
<1> QED  BY <1>1, <1>2, <1>3

LEMMA LateStep ==
  ASSUME Inv, Late
  PROVE  Inv'
<1> USE RolloutsAssumption DEF Inv
<1>1. TypeOK'
  <2>1. \A r \in Rollouts : LateEntry(r) \in Results
    <3> TAKE r \in Rollouts
    <3> DEFINE base == IF count[r] = 0
                       THEN [why |-> "late", success |-> TRUE,
                             patch |-> "none", path |-> cwd[r]]
                       ELSE IF result[r].path = 0
                       THEN [result[r] EXCEPT !.path = cwd[r]] ELSE result[r]
               patch == IF base.patch # "none" THEN base.patch
                        ELSE Diff(base.path)
               good == base.success \/ (patch # "none" /\ Good(Reported(r)))
    <3>1. base \in Results
      BY DEF TypeOK, Results, Whys
    <3>2. patch \in Rollouts \cup {"none"}
      <4> HIDE DEF base
      <4> QED  BY <3>1, Entries DEF Results
    <3>3. good \in BOOLEAN
      <4> HIDE DEF base, patch
      <4>1. base.success \in BOOLEAN
        BY <3>1 DEF Results
      <4> QED  BY <4>1
    <3>4. LateEntry(r) = [base EXCEPT !.patch = patch, !.success = good]
      BY DEF LateEntry
    <3> HIDE DEF base, patch, good
    <3> QED  BY <3>1, <3>2, <3>3, <3>4 DEF Results
  <2>2. \A r \in Rollouts :
          [result[r] EXCEPT !.patch = Diff(result[r].path)] \in Results
    BY Entries DEF TypeOK, Results
  <2>3. result' \in [Rollouts -> Results]
    BY <2>1, <2>2 DEF Late, TypeOK
  <2>4. count' \in [Rollouts -> 0..2]
    BY DEF Late, TypeOK
  <2> QED  BY <2>3, <2>4 DEF Late, calling, control, killing, work, disk,
     TypeOK, Members, Callers
<1>2. FuturesKept'
  BY DEF Late, calling, control, killing, work, disk, answer, TypeOK, Members,
     Callers, FuturesKept, Early, Later, Idle, Busy, Done
<1>3. Leases' /\ HoldersKeepTheirTrees'
  <2>1. /\ UNCHANGED <<call, quarantined, cwd, edited, disk>>
        /\ pc' \in {pc} \cup (Callers \ {"out"})
    BY DEF Late, calling, control, killing, work, disk, answer, Callers
  <2>2. \A q \in Rollouts :
          /\ Holds(q)' => Holds(q)
          /\ future[q] # "none" => future'[q] # "none"
    BY DEF Late, calling, control, killing, work, disk, answer, TypeOK, Holds
  <2> QED  BY <2>1, <2>2, Quiet
<1> QED  BY <1>1, <1>2, <1>3

LEMMA EditStep ==
  ASSUME Inv, NEW r \in Rollouts, Edit(r)
  PROVE  Inv'
<1> USE RolloutsAssumption DEF Inv
<1>1. TypeOK'
  <2>1. /\ tree \in [Paths -> Rollouts \cup {"absent", "clean"}]
        /\ edited \subseteq Rollouts
    BY DEF TypeOK
  <2> DEFINE Trees == [Paths -> Rollouts \cup {"absent", "clean"}]
  <2>2. tree' \in Trees /\ edited' \subseteq Rollouts
    <3> HIDE DEF Inv
    <3> QED  BY <2>1 DEF Edit
  <2>3. UNCHANGED <<pc, calling, control, killing, future, cwd, verdict,
                    status, slot, git, answer>>
    BY DEF Edit
  <2> QED  BY <2>2, <2>3
        DEF calling, control, killing, answer, TypeOK, Members, Callers
<1>2. FuturesKept'
  BY DEF Edit, calling, control, killing, answer, TypeOK, Members,
     FuturesKept, Early, Later, Idle, Busy, Done
<1>3. Leases'
  BY DEF Edit, calling, control, killing, answer, Leases, Holds, Members
<1>4. HoldersKeepTheirTrees'
  <2> SUFFICES ASSUME Settled, NEW q \in Members, Holds(q)
               PROVE  tree'[cwd[q]] = IF q \in edited' THEN q ELSE "clean"
    BY DEF Edit, calling, killing, HoldersKeepTheirTrees, Settled, Members,
       Holds
  <2>1. r \in Members
    BY DEF Edit, FuturesKept, Busy, Settled, Members, TypeOK
  <2>2. Holds(r) /\ cwd[q] \in Paths
    BY DEF Edit, Holds, Leases, Members, Paths
  <2>3. CASE q = r
    BY <2>2, <2>3 DEF Edit, TypeOK
  <2>4. CASE q # r
    <3>1. cwd[q] # cwd[r]
      BY <2>1, <2>2, <2>4 DEF Leases
    <3> QED  BY <3>1, <2>2, <2>4 DEF Edit, TypeOK, HoldersKeepTheirTrees
  <2> QED  BY <2>3, <2>4
<1> QED  BY <1>1, <1>2, <1>3, <1>4

LEMMA CallStep ==
  ASSUME Inv, Call
  PROVE  Inv'
<1> USE RolloutsAssumption DEF Inv
<1>1. TypeOK'
  <2>1. call' \in 0..Calls /\ active = {} /\ todo = {}
    BY DEF Call, TypeOK, FuturesKept, Later
  <2>2. result' \in [Rollouts -> Results]
    BY Entries DEF Call, NoResult, Whys
  <2>3. count' \in [Rollouts -> 0..2]
    BY DEF Call
  <2> QED  BY <2>1, <2>2, <2>3 DEF Call, work, disk, TypeOK, Members, Callers
<1>2. FuturesKept'
  BY DEF Call, work, disk, TypeOK, Members, FuturesKept, Early, Later, Idle,
     Busy, Done
<1>3. \A r \in Members' : ~Holds(r)'
  BY DEF Call, Members, FuturesKept, Holds, TypeOK
<1>4. Leases' /\ HoldersKeepTheirTrees'
  BY <1>3 DEF Call, disk, Leases, HoldersKeepTheirTrees
<1> QED  BY <1>1, <1>2, <1>4

LEMMA PrepareStep ==
  ASSUME Inv, NEW r \in Rollouts, Prepare(r)
  PROVE  Inv'
<1> USE RolloutsAssumption DEF Inv
<1>1. /\ pc = "dispatch" /\ r \in Members /\ r \in pending
      /\ future[r] = "none" /\ r \notin edited /\ r \notin quarantined
      /\ count[r] = 0
  BY DEF Prepare, TypeOK, Members, FuturesKept, Idle, Early
<1>2. \A q \in Members : Holds(q) => q # r /\ q \notin quarantined
  BY <1>1 DEF FuturesKept, Early, Holds, Members
<1>3. \A s \in Slots : slot[s] # r
  BY <1>1 DEF Leases
<1>4. \A q \in Members :
        Holds(q) => \/ cwd[q] = q
                    \/ cwd[q] \in Slots /\ slot[cwd[q]] = q
  BY <1>2 DEF Leases
<1>5. \A q \in Rollouts : /\ q # r => future'[q] = future[q]
                          /\ future'[r] = "prepared"
                          /\ Holds(q)' => q = r \/ Holds(q)
  BY DEF Prepare, TypeOK, Holds
<1>6. UNCHANGED <<pc, calling, quarantined, edited>>
  BY DEF Prepare, killing
<1>7. FuturesKept'
  BY <1>1, <1>5 DEF Prepare, calling, killing, answer, TypeOK, Members,
     FuturesKept, Early, Later, Idle, Busy, Done
<1>8. CASE "pool" \in Workspaces /\ Claim(r)
  <2>1. PICK s \in Slots :
    /\ Claims(s)
    /\ cwd' = [cwd EXCEPT ![r] = s]
    /\ slot' = [slot EXCEPT ![s] = r]
    /\ tree' = [p \in Paths |->
         CASE p = s -> "clean"
           [] p # s /\ slot[s] = "none" /\ git[p] = s -> "absent"
           [] OTHER -> tree[p]]
    /\ git' = [p \in Paths |-> IF p = s THEN s
                               ELSE IF git[p] = s THEN 0 ELSE git[p]]
    BY <1>8 DEF Claim
  <2>2. slot[s] \notin Rollouts
    BY <2>1 DEF Claims, With
  <2>3. TypeOK'
    <3>1. tree' \in [Paths -> Rollouts \cup {"absent", "clean"}]
      BY <2>1 DEF TypeOK, Paths
    <3>2. git' \in [Paths -> Paths \cup {0}]
      BY <2>1 DEF TypeOK, Paths
    <3> QED  BY <2>1, <3>1, <3>2 DEF Prepare, calling, killing, answer,
       TypeOK, Members, Callers, Paths
  <2>4. \A q \in Members : Holds(q) => /\ cwd[q] # s /\ cwd[q] \in Paths
                                       /\ cwd'[q] = cwd[q]
                                       /\ git[cwd[q]] # s
    BY <2>1, <2>2, <1>2, <1>4 DEF Holds, Leases, Members, Paths, TypeOK
  <2>5. \A q \in Members : Holds(q) => /\ tree'[cwd[q]] = tree[cwd[q]]
                                       /\ git'[cwd[q]] = git[cwd[q]]
    BY <2>1, <2>4
  <2>6. /\ cwd'[r] = s /\ tree'[s] = "clean" /\ git'[s] = s /\ slot'[s] = r
        /\ \A t \in Slots : t # s => slot'[t] = slot[t]
    BY <2>1 DEF TypeOK, Paths
  <2>7. Leases'
    <3>1. \A t \in Slots : slot'[t] \in Rollouts =>
            /\ slot'[t] \in Members' /\ cwd'[slot'[t]] = t
            /\ future'[slot'[t]] # "none"
      BY <1>1, <1>3, <1>5, <1>6, <2>1, <2>6 DEF Holds, Leases, Members,
         calling, TypeOK
    <3>2. \A q \in Members' : Holds(q)' =>
            \/ cwd'[q] = q
            \/ /\ cwd'[q] \in Slots
               /\ slot'[cwd'[q]] = IF q \in quarantined' THEN "none" ELSE q
      BY <1>1, <1>2, <1>4, <1>5, <1>6, <2>1, <2>4, <2>6 DEF Holds, Leases,
         Members, calling, TypeOK
    <3>3. \A q, p \in Members' : Holds(q)' /\ Holds(p)' /\ cwd'[q] = cwd'[p] => q = p
      BY <1>5, <1>6, <2>4, <2>6 DEF Holds, Leases, Members, calling, TypeOK
    <3>4. \A q \in Members' : Holds(q)' => git'[cwd'[q]] \in {cwd'[q], 0}
      BY <1>5, <1>6, <2>4, <2>5, <2>6 DEF Holds, Leases, Members, calling,
         TypeOK
    <3> QED  BY <1>1, <1>6, <3>1, <3>2, <3>3, <3>4 DEF Leases
  <2>8. HoldersKeepTheirTrees'
    <3> SUFFICES ASSUME Settled', NEW q \in Members', Holds(q)'
                 PROVE  tree'[cwd'[q]] = IF q \in edited' THEN q ELSE "clean"
      BY DEF HoldersKeepTheirTrees, Holds
    <3>1. Settled /\ q \in Members /\ edited' = edited
      BY <1>6 DEF Settled, Members, calling
    <3>2. CASE q = r
      BY <1>1, <3>1, <3>2, <2>6
    <3>3. CASE q # r
      BY <1>5, <3>1, <3>3, <2>4, <2>5 DEF Holds, HoldersKeepTheirTrees,
         Members
    <3> QED  BY <3>2, <3>3
  <2> QED  BY <1>7, <2>3, <2>7, <2>8
<1>9. CASE "own" \in Workspaces /\ MakeOwn(r)
  <2>1. TypeOK'
    BY <1>9 DEF Prepare, MakeOwn, calling, killing, answer, TypeOK, Members,
       Callers, Paths
  <2>2. \A q \in Members : Holds(q) => /\ cwd[q] # r /\ cwd[q] \in Paths
                                       /\ cwd'[q] = cwd[q]
    BY <1>9, <1>2, <1>4 DEF MakeOwn, Members, Paths, TypeOK
  <2>3. \A q \in Members : Holds(q) => /\ tree'[cwd[q]] = tree[cwd[q]]
                                       /\ git'[cwd[q]] = git[cwd[q]]
    BY <1>9, <2>2 DEF MakeOwn, TypeOK
  <2>4. cwd'[r] = r /\ tree'[r] = "clean" /\ git'[r] = r /\ slot' = slot
    BY <1>9 DEF MakeOwn, TypeOK, Paths
  <2>5. Leases'
    <3>1. \A t \in Slots : slot'[t] \in Rollouts =>
            /\ slot'[t] \in Members' /\ cwd'[slot'[t]] = t
            /\ future'[slot'[t]] # "none"
      BY <1>1, <1>3, <1>5, <1>6, <1>9, <2>4 DEF Holds, MakeOwn, Leases,
         Members, calling, TypeOK
    <3>2. \A q \in Members' : Holds(q)' =>
            \/ cwd'[q] = q
            \/ /\ cwd'[q] \in Slots
               /\ slot'[cwd'[q]] = IF q \in quarantined' THEN "none" ELSE q
      BY <1>1, <1>2, <1>4, <1>5, <1>6, <2>2, <2>4 DEF Holds, Leases, Members,
         calling, TypeOK
    <3>3. \A q, p \in Members' : Holds(q)' /\ Holds(p)' /\ cwd'[q] = cwd'[p] => q = p
      BY <1>5, <1>6, <2>2, <2>4 DEF Holds, Leases, Members, calling, TypeOK
    <3>4. \A q \in Members' : Holds(q)' => git'[cwd'[q]] \in {cwd'[q], 0}
      BY <1>5, <1>6, <2>2, <2>3, <2>4 DEF Holds, Leases, Members, calling,
         TypeOK
    <3> QED  BY <1>1, <1>6, <3>1, <3>2, <3>3, <3>4 DEF Leases
  <2>6. HoldersKeepTheirTrees'
    <3> SUFFICES ASSUME Settled', NEW q \in Members', Holds(q)'
                 PROVE  tree'[cwd'[q]] = IF q \in edited' THEN q ELSE "clean"
      BY DEF HoldersKeepTheirTrees, Holds
    <3>1. Settled /\ q \in Members /\ edited' = edited
      BY <1>6 DEF Settled, Members, calling
    <3>2. CASE q = r
      BY <1>1, <3>1, <3>2, <2>4
    <3>3. CASE q # r
      BY <1>5, <3>1, <3>3, <2>2, <2>3 DEF Holds, HoldersKeepTheirTrees,
         Members
    <3> QED  BY <3>2, <3>3
  <2> QED  BY <1>7, <2>1, <2>5, <2>6
<1> QED  BY <1>8, <1>9 DEF Prepare

\* Clearing the workspaces of rollouts that run no more disturbs nobody.
LEMMA Cleared ==
  ASSUME Inv, NEW S \in SUBSET Rollouts, Clear(S), \A r \in S : ~Holds(r),
         UNCHANGED <<call, quarantined, cwd, edited>>,
         \A r \in Rollouts :
           /\ Holds(r)' => Holds(r)
           /\ future[r] # "none" => future'[r] # "none",
         pc' # "out"
  PROVE  /\ Leases' /\ HoldersKeepTheirTrees'
         /\ slot' \in [Slots -> Rollouts \cup {"none", "free"}]
         /\ tree' \in [Paths -> Rollouts \cup {"absent", "clean"}]
         /\ git' \in [Paths -> Paths \cup {0}]
<1> USE RolloutsAssumption DEF Inv
<1>1. \A q \in Members : Holds(q) =>
        /\ cwd[q] \in Paths
        /\ tree'[cwd[q]] = tree[cwd[q]] /\ git'[cwd[q]] = git[cwd[q]]
        /\ cwd[q] \in Slots => slot'[cwd[q]] = slot[cwd[q]]
  <2> SUFFICES ASSUME NEW q \in Members, Holds(q)
               PROVE  /\ cwd[q] \in Paths
                      /\ tree'[cwd[q]] = tree[cwd[q]]
                      /\ git'[cwd[q]] = git[cwd[q]]
                      /\ cwd[q] \in Slots => slot'[cwd[q]] = slot[cwd[q]]
    OBVIOUS
  <2>1. q \notin S /\ q \in Rollouts /\ "none" \notin S
    BY DEF Members
  <2>2. CASE cwd[q] = q
    BY <2>1, <2>2 DEF Clear, Paths
  <2>3. CASE cwd[q] \in Slots /\ slot[cwd[q]] \in {"none", q}
    BY <2>1, <2>3 DEF Clear, Paths
  <2> QED  BY <2>2, <2>3 DEF Leases
<1>2. Leases'
  <2>1. \A s \in Slots : slot'[s] \in Rollouts => slot'[s] = slot[s]
    BY DEF Clear
  <2> QED  BY <1>1, <2>1 DEF Leases, Members
<1>3. HoldersKeepTheirTrees'
  BY <1>1 DEF HoldersKeepTheirTrees, Settled, Members
<1>4. /\ slot' \in [Slots -> Rollouts \cup {"none", "free"}]
      /\ tree' \in [Paths -> Rollouts \cup {"absent", "clean"}]
      /\ git' \in [Paths -> Paths \cup {0}]
  BY DEF Clear, TypeOK
<1> QED  BY <1>2, <1>3, <1>4

LEMMA QuarantineStep ==
  ASSUME Inv, Quarantine
  PROVE  Inv'
<1> USE RolloutsAssumption DEF Inv
<1> DEFINE late == {r \in deferred : ~Done(r)}
<1>1. TypeOK'
  BY DEF Quarantine, calling, control, work, answer, TypeOK, Members, Callers
<1>2. FuturesKept'
  BY DEF Quarantine, calling, control, work, answer, TypeOK, Members,
     FuturesKept, Early, Later, Idle, Busy, Done
<1>3. \A r \in Members : Holds(r) => r \in late
  BY DEF Quarantine, FuturesKept, Early, Holds, Busy, Done, Members
<1>4. Leases'
  BY <1>3 DEF Quarantine, calling, work, Leases, Holds, Members, FuturesKept,
     Early, TypeOK
<1>5. HoldersKeepTheirTrees'
  BY DEF Quarantine, calling, work, HoldersKeepTheirTrees, Settled, Holds,
     Members
<1> QED  BY <1>1, <1>2, <1>4, <1>5

LEMMA RecoverStep ==
  ASSUME Inv, Recover
  PROVE  Inv'
<1> USE RolloutsAssumption DEF Inv
<1> DEFINE S == {r \in Quiesced : result'[r].patch = "none"}
<1>1. \A q \in Rollouts : /\ Holds(q)' => Holds(q)
                          /\ future[q] # "none" => future'[q] # "none"
  BY DEF Recover, Holds
<1>2. /\ Leases' /\ HoldersKeepTheirTrees'
      /\ slot' \in [Slots -> Rollouts \cup {"none", "free"}]
      /\ tree' \in [Paths -> Rollouts \cup {"absent", "clean"}]
      /\ git' \in [Paths -> Paths \cup {0}]
  <2>1. CASE Quiesced = {}
    <3>1. /\ UNCHANGED <<call, quarantined, cwd, edited, disk>>
          /\ pc' \in {pc} \cup (Callers \ {"out"})
      BY <2>1 DEF Recover, calling, killing, work, Callers
    <3>2. /\ slot' \in [Slots -> Rollouts \cup {"none", "free"}]
          /\ tree' \in [Paths -> Rollouts \cup {"absent", "clean"}]
          /\ git' \in [Paths -> Paths \cup {0}]
      BY <3>1 DEF disk, TypeOK
    <3> QED  BY <1>1, <3>1, <3>2, Quiet DEF Holds
  <2>2. CASE Quiesced # {}
    <3>1. S \in SUBSET Rollouts /\ \A r \in S : ~Holds(r)
      BY DEF Recover, Quiesced, TypeOK, Members, FuturesKept, Later, Done,
         Holds
    <3>2. Clear(S) /\ UNCHANGED <<call, quarantined, cwd, edited>>
          /\ pc' # "out"
      BY <2>2 DEF Recover, calling, killing, work
    <3> HIDE DEF S
    <3> QED  BY <3>1, <3>2, <1>1, Cleared DEF Holds
  <2> QED  BY <2>1, <2>2
<1>3. result' \in [Rollouts -> Results]
  <2>1. \A r \in Rollouts : Recovered(r) \in Results
    <3> TAKE r \in Rollouts
    <3> DEFINE diff == Diff(result[r].path)
               good == Green(verdict[diff])
    <3>1. result[r] \in Results /\ diff \in Rollouts \cup {"none"}
      BY Entries DEF TypeOK, Results
    <3>2. good \in BOOLEAN
      BY DEF Green, Good
    <3>3. Recovered(r) \in
            {result[r], [result[r] EXCEPT !.patch = diff, !.success = good],
             [result[r] EXCEPT !.patch = diff]}
      BY DEF Recovered
    <3> HIDE DEF diff, good
    <3>4. /\ [result[r] EXCEPT !.patch = diff] \in Results
          /\ [result[r] EXCEPT !.patch = diff, !.success = good] \in Results
      BY <3>1, <3>2 DEF Results
    <3> QED  BY <3>1, <3>3, <3>4
  <2>2. CASE Quiesced = {}
    BY <2>2 DEF Recover, TypeOK
  <2>3. CASE Quiesced # {}
    <3>1. result' = [r \in Rollouts |->
                      IF count[r] = 0 THEN result[r] ELSE Recovered(r)]
      BY <2>3 DEF Recover
    <3> QED  BY <2>1, <3>1 DEF TypeOK
  <2> QED  BY <2>2, <2>3
<1>4. TypeOK'
  BY <1>2, <1>3 DEF Recover, calling, control, killing, work, TypeOK, Members,
     Callers
<1>5. FuturesKept'
  BY DEF Recover, calling, control, killing, work, TypeOK, Members,
     FuturesKept, Early, Later, Idle, Busy, Done
<1> QED  BY <1>2, <1>4, <1>5

LEMMA PromoteStep ==
  ASSUME Inv, Promote
  PROVE  Inv'
<1> USE RolloutsAssumption DEF Inv
<1>1. \A r \in Rollouts : Leased(r) => Branch(r) \in Slots
  BY DEF Leased, Branch
<1>2. TypeOK'
  <2>1. tree' \in [Paths -> Rollouts \cup {"absent", "clean"}]
    BY <1>1 DEF Promote, TypeOK, Paths
  <2>2. git' \in [Paths -> Paths \cup {0}]
    BY <1>1 DEF Promote, TypeOK, Paths
  <2>3. result' \in [Rollouts -> Results]
    <3>1. \A r \in Rollouts :
            result[r] \in Results /\ [result[r] EXCEPT !.path = r] \in Results
      BY DEF TypeOK, Results, Paths
    <3> QED  BY <3>1 DEF Promote
  <2> QED  BY <2>1, <2>2, <2>3 DEF Promote, calling, control, killing, work,
     TypeOK, Members, Callers
<1>3. FuturesKept'
  BY DEF Promote, calling, control, killing, work, TypeOK, Members,
     FuturesKept, Early, Later, Idle, Busy, Done
<1>4. \A r \in Members : Holds(r) => r \in quarantined
  BY DEF Promote, FuturesKept, Later, Holds, Busy, Done, Members
<1>5. \A r \in Members : Holds(r) =>
        /\ cwd[r] \in Paths /\ tree'[cwd[r]] = tree[cwd[r]]
        /\ git'[cwd[r]] \in {git[cwd[r]], 0}
  <2> SUFFICES ASSUME NEW r \in Members, Holds(r)
               PROVE  /\ cwd[r] \in Paths /\ tree'[cwd[r]] = tree[cwd[r]]
                      /\ git'[cwd[r]] \in {git[cwd[r]], 0}
    OBVIOUS
  <2>1. CASE cwd[r] = r
    <3>1. ~Leased(r) /\ r \in Rollouts
      BY <2>1 DEF Leased, Leases, Members
    <3> QED  BY <2>1, <3>1 DEF Promote, Paths
  <2>2. CASE cwd[r] \in Slots /\ slot[cwd[r]] = "none"
    BY <2>2 DEF Promote, Paths
  <2> QED  BY <1>4, <2>1, <2>2 DEF Leases
<1>a. /\ UNCHANGED <<call, quarantined, edited, cwd, future>>
      /\ Members' = Members /\ \A q \in Rollouts : Holds(q)' => Holds(q)
  BY DEF Promote, calling, killing, work, Members, Holds
<1>6. Leases'
  <2>1. \A t \in Slots : slot'[t] \in Rollouts =>
          /\ slot'[t] \in Members' /\ cwd'[slot'[t]] = t
          /\ future'[slot'[t]] # "none"
    BY <1>a DEF Promote
  <2>2. \A q \in Members' : Holds(q)' =>
          \/ cwd'[q] = q
          \/ /\ cwd'[q] \in Slots
             /\ slot'[cwd'[q]] = IF q \in quarantined' THEN "none" ELSE q
    BY <1>a, <1>4 DEF Promote, Leases, Members
  <2>3. \A q, p \in Members' : Holds(q)' /\ Holds(p)' /\ cwd'[q] = cwd'[p] => q = p
    BY <1>a DEF Leases, Members
  <2>4. \A q \in Members' : Holds(q)' => git'[cwd'[q]] \in {cwd'[q], 0}
    BY <1>a, <1>5 DEF Leases, Members
  <2> QED  BY <1>a, <2>1, <2>2, <2>3, <2>4 DEF Promote, Leases
<1>7. HoldersKeepTheirTrees'
  BY <1>5 DEF Promote, calling, killing, work, HoldersKeepTheirTrees, Settled,
     Holds, Members
<1> QED  BY <1>2, <1>3, <1>6, <1>7

LEMMA ReapRaisedStep ==
  ASSUME Inv, NEW r \in Rollouts, ReapRaised(r)
  PROVE  Inv'
<1> USE RolloutsAssumption DEF Inv
<1>1. /\ pc = "reap" /\ r \in active /\ r \in Members /\ count[r] = 0
      /\ future[r] \in {"returned", "raised"}
  BY DEF ReapRaised, Raises, TypeOK, FuturesKept, Early, Members
<1>2. {r} \in SUBSET Rollouts /\ \A q \in {r} : ~Holds(q)
  BY <1>1 DEF Holds
<1>3. /\ Leases' /\ HoldersKeepTheirTrees'
      /\ slot' \in [Slots -> Rollouts \cup {"none", "free"}]
      /\ tree' \in [Paths -> Rollouts \cup {"absent", "clean"}]
      /\ git' \in [Paths -> Paths \cup {0}]
  <2>1. /\ Clear({r}) /\ UNCHANGED <<call, quarantined, cwd, edited>>
        /\ pc' # "out" /\ UNCHANGED future
    BY DEF ReapRaised, calling, killing, work
  <2>2. \A q \in Rollouts : /\ Holds(q)' => Holds(q)
                            /\ future[q] # "none" => future'[q] # "none"
    BY <2>1 DEF Holds
  <2> QED  BY <1>2, <2>1, <2>2, Cleared DEF Holds
<1>4. TypeOK'
  <2>1. count' \in [Rollouts -> 0..2]
    BY <1>1 DEF ReapRaised, TypeOK
  <2>2. result' \in [Rollouts -> Results]
    BY Entries DEF ReapRaised, TypeOK, Whys
  <2> QED  BY <1>3, <2>1, <2>2 DEF ReapRaised, Written, calling, killing,
     work, TypeOK, Members, Callers
<1>5. FuturesKept'
  BY <1>1 DEF ReapRaised, calling, killing, work, TypeOK, Members,
     FuturesKept, Early, Later, Idle, Busy, Done
<1> QED  BY <1>3, <1>4, <1>5

\* What a reaped rollout leaves, by the caller's answer.
LEMMA ReapStep ==
  ASSUME Inv, NEW r \in Rollouts, Reap(r)
  PROVE  Inv'
<1> USE RolloutsAssumption DEF Inv
<1>1. /\ pc = "reap" /\ r \in todo /\ r \in active /\ r \in Members
      /\ count[r] = 0 /\ future[r] = "returned"
      /\ UNCHANGED <<call, workers, quarantined, cwd, verdict, edited, status>>
  BY DEF Reap, TypeOK, FuturesKept, Early, Members, calling, work
<1>2. PICK serialised \in BOOLEAN,
           answers \in (IF halted THEN {"go"} ELSE Answers) :
        LET entry == Outcome(r, serialised)
        IN  /\ answers # "raises"
            /\ IF entry.patch # "none" \/ answers = "preempt"
               THEN UNCHANGED disk ELSE Clear({r})
            /\ IF answers = "preempt"
               THEN /\ Preempt(r, entry)
                    /\ pc' = "dispatch" /\ todo' = {}
                    /\ UNCHANGED draining
               ELSE /\ Answer(r, entry)
                    /\ active' = active \ {r}
                    /\ todo' = todo \ {r}
                    /\ pc' = IF todo' = {} THEN "dispatch" ELSE "reap"
                    /\ halted' = (halted \/ answers \in {"stop", "drain"})
                    /\ draining' = (draining \/ (answers = "drain" /\ active' # {}))
                    /\ UNCHANGED <<pending, future, deferred, cancelled>>
  BY DEF Reap
<1> DEFINE entry == Outcome(r, serialised)
<1>3. entry \in Results
  <2> DEFINE patch == IF serialised \/ Full(verdict[r]) THEN Diff(cwd[r])
                      ELSE "none"
             good == patch # "none" /\ Good(verdict[r])
  <2>1. patch \in Rollouts \cup {"none"} /\ cwd[r] \in Paths \cup {0}
    BY Entries DEF TypeOK
  <2>2. good \in BOOLEAN
    OBVIOUS
  <2>3. entry = [why |-> "returned", path |-> cwd[r], patch |-> patch,
                 success |-> good]
    BY DEF Outcome
  <2> HIDE DEF patch, good
  <2> QED  BY <2>1, <2>2, <2>3 DEF Results, Whys
<1> HIDE DEF entry
<1>4. UNCHANGED disk \/ Clear({r})
  BY <1>2
<1>5. CASE answers = "preempt"
  <2> DEFINE S == active \ {r}
  <2>1. /\ active' = {} /\ deferred' = deferred \cup S /\ todo' = {}
        /\ cancelled' = cancelled \cup S /\ pending' = {} /\ halted' = TRUE
        /\ pc' = "dispatch" /\ draining' = draining
        /\ future' = [q \in Rollouts |->
             IF q \in S /\ future[q] = "queued" THEN "dropped" ELSE future[q]]
        /\ count' = [q \in Rollouts |->
             count[q] + IF q \in S \cup {r} THEN 1 ELSE 0]
        /\ result' = [q \in Rollouts |->
             IF q = r THEN entry
             ELSE IF q \in S THEN Empty("preempted", cwd[q]) ELSE result[q]]
    BY <1>2, <1>5 DEF Preempt, entry
  <2>2. \A q \in Rollouts : count'[q] \in 0..2
    <3> TAKE q \in Rollouts
    <3>1. CASE q \in active
      <4>1. count'[q] = 0 + 1
        BY <1>1, <2>1, <3>1 DEF FuturesKept, Early
      <4> QED  BY <4>1
    <3>2. CASE q \notin active
      <4>1. count'[q] = count[q] + 0
        BY <1>1, <2>1, <3>2
      <4> QED  BY <4>1 DEF TypeOK
    <3> QED  BY <3>1, <3>2
  <2>3. count' \in [Rollouts -> 0..2]
    <3>1. count' = [q \in Rollouts |-> count'[q]]
      BY <2>1
    <3> QED  BY <2>2, <3>1
  <2>4. result' \in [Rollouts -> Results]
    BY <1>3, <2>1, Entries DEF TypeOK, Whys
  <2>5. UNCHANGED disk
    BY <1>2, <1>5
  <2>6. TypeOK'
    BY <1>1, <2>1, <2>3, <2>4, <2>5 DEF disk, TypeOK, Members, Callers
  <2>7. FuturesKept'
    BY <1>1, <2>1 DEF TypeOK, Members, FuturesKept, Early, Later, Idle, Busy,
       Done
  <2>8. \A q \in Rollouts : /\ Holds(q)' => Holds(q)
                            /\ future[q] # "none" => future'[q] # "none"
    BY <2>1 DEF Holds
  <2>9. Leases' /\ HoldersKeepTheirTrees'
    BY <1>1, <2>1, <2>5, <2>8, Quiet DEF Holds, Callers
  <2> QED  BY <2>6, <2>7, <2>9
<1>6. CASE answers # "preempt"
  <2>1. /\ Answer(r, entry)
        /\ active' = active \ {r} /\ todo' = todo \ {r}
        /\ pc' = IF todo' = {} THEN "dispatch" ELSE "reap"
        /\ halted' = (halted \/ answers \in {"stop", "drain"})
        /\ draining' = (draining \/ (answers = "drain" /\ active' # {}))
        /\ UNCHANGED <<pending, future, deferred, cancelled>>
    BY <1>2, <1>6 DEF entry
  <2>2. \A q \in Rollouts : /\ Holds(q)' => Holds(q)
                            /\ future[q] # "none" => future'[q] # "none"
    BY <2>1 DEF Holds
  <2>3. /\ Leases' /\ HoldersKeepTheirTrees'
        /\ slot' \in [Slots -> Rollouts \cup {"none", "free"}]
        /\ tree' \in [Paths -> Rollouts \cup {"absent", "clean"}]
        /\ git' \in [Paths -> Paths \cup {0}]
    <3>1. CASE UNCHANGED disk
      <4>1. Leases' /\ HoldersKeepTheirTrees'
        BY <1>1, <2>1, <2>2, <3>1, Quiet DEF Holds, Callers
      <4> QED  BY <3>1, <4>1 DEF disk, TypeOK
    <3>2. CASE Clear({r})
      <4>1. {r} \in SUBSET Rollouts /\ \A q \in {r} : ~Holds(q)
        BY <1>1 DEF Holds
      <4> QED  BY <1>1, <2>1, <2>2, <3>2, <4>1, Cleared DEF Holds
    <3> QED  BY <1>4, <3>1, <3>2
  <2>4. count' \in [Rollouts -> 0..2] /\ result' \in [Rollouts -> Results]
    BY <1>1, <1>3, <2>1 DEF Answer, TypeOK
  <2>5. halted' \in BOOLEAN /\ draining' \in BOOLEAN
    BY <2>1
  <2>6. TypeOK'
    BY <1>1, <2>1, <2>3, <2>4, <2>5 DEF TypeOK, Members, Callers
  <2>7. FuturesKept'
    BY <1>1, <2>1 DEF Answer, TypeOK, Members, FuturesKept, Early, Later,
       Idle, Busy, Done
  <2> QED  BY <2>3, <2>6, <2>7
<1> QED  BY <1>5, <1>6

LEMMA InitInv == Init => Inv
<1> USE RolloutsAssumption
<1> SUFFICES ASSUME Init PROVE Inv
  OBVIOUS
<1>1. TypeOK
  <2>1. result \in [Rollouts -> Results]
    BY Entries DEF Init, NoResult, Whys
  <2>2. 1 \in 1..MaxWorkers /\ 0 \in 0..Calls
    OBVIOUS
  <2>3. /\ cwd \in [Rollouts -> Paths \cup {0}]
        /\ git \in [Paths -> Paths \cup {0}]
        /\ count \in [Rollouts -> 0..2]
        /\ tree \in [Paths -> Rollouts \cup {"absent", "clean"}]
        /\ slot \in [Slots -> Rollouts \cup {"none", "free"}]
    BY DEF Init
  <2> QED  BY <2>1, <2>2, <2>3 DEF Init, TypeOK, Callers, Members
<1>2. FuturesKept
  BY DEF Init, FuturesKept, Early, Later, Idle, Busy, Done, Members
<1>3. Leases /\ HoldersKeepTheirTrees
  <2>1. \A r \in Rollouts : ~Holds(r)
    BY DEF Init, Holds
  <2>2. \A s \in Slots : slot[s] = "none" /\ slot[s] \notin Rollouts
    BY DEF Init
  <2> QED  BY <2>1, <2>2 DEF Leases, HoldersKeepTheirTrees, Members
<1> QED  BY <1>1, <1>2, <1>3 DEF Inv

LEMMA NextInv == Inv /\ [Next]_vars => Inv'
<1> SUFFICES ASSUME Inv, [Next]_vars PROVE Inv'
  OBVIOUS
<1>1. CASE UNCHANGED vars
  <2>1. TypeOK'
    BY <1>1 DEF Inv, vars, calling, control, killing, work, disk, answer,
       TypeOK, Members
  <2>2. FuturesKept'
    BY <1>1 DEF Inv, vars, calling, control, killing, work, disk, answer,
       FuturesKept, Members, Busy, Done
  <2>3. Leases' /\ HoldersKeepTheirTrees'
    BY <1>1 DEF Inv, vars, calling, control, killing, work, disk, answer,
       Leases, HoldersKeepTheirTrees, Settled, Members, Holds
  <2> QED  BY <2>1, <2>2, <2>3 DEF Inv
<1>2. CASE \E r \in Rollouts : Worker(r)
  BY <1>2, StartStep, EditStep, VerifyStep, FinishStep, FinalizeStep,
     ReturnStep, RaiseStep DEF Worker
<1>3. CASE Looping
  BY <1>3, SubmitStep, WaitStep, TickStep, EmergencyStep, DrainExpiresStep,
     ExpireStep, PrepareStep, SetupFailsStep, ReapStep, ReapRaisedStep DEF
     Looping
<1>4. CASE Call \/ Ending
  BY <1>4, CallStep, QuarantineStep, RecoverStep, LateStep, PromoteStep DEF
     Ending
<1> QED  BY <1>1, <1>2, <1>3, <1>4 DEF Next, Scheduler

LEMMA Invariance == Spec => []Inv
  BY InitInv, NextInv, PTL DEF Spec

\* The variables keep their types; a call answers nobody more than twice.
THEOREM TypeCorrect == Spec => []TypeOK
<1>1. Inv => TypeOK
  BY DEF Inv
<1> QED  BY Invariance, <1>1, PTL

\* No reset, hand-over or move takes a workspace from a running worker.
THEOREM RunningKeepsTree == Spec => []RunningKeepsItsTree
<1>1. Inv => RunningKeepsItsTree
  BY DEF Inv, HoldersKeepTheirTrees, RunningKeepsItsTree, Holds, Busy
<1> QED  BY Invariance, <1>1, PTL

----------------------------------------------------------------------------
(* A call answers its requests, if the caller's predicate does not raise. *)

LEMMA WorkerAnswers ==
  ASSUME Inv, Answered, NEW r \in Rollouts, Worker(r)
  PROVE  Answered'
<1>1. /\ UNCHANGED <<pc, calling, control, cwd, answer>>
      /\ \A q \in Rollouts : future'[q] = "prepared" <=> future[q] = "prepared"
  BY DEF Worker, Start, Edit, Verify, Finish, Finalize, Return, Raise, work,
     Inv, TypeOK
<1> QED  BY <1>1 DEF calling, control, answer, Answered, Open, Silent, Members

LEMMA CallAnswers ==
  ASSUME Inv, Answered, Call
  PROVE  Answered'
<1> USE RolloutsAssumption DEF Inv
<1>1. \A r \in Rollouts : result'[r].why # "silent" /\ count'[r] = 0
  BY DEF Call, NoResult, Empty
<1>2. \A r \in Members' : r \in pending' /\ cwd'[r] = 0
  BY DEF Call, work, Members, Answered, TypeOK
<1>3. \A r \in Rollouts : Of[r] > call' => cwd'[r] = 0
  BY DEF Call, work, Answered, TypeOK
<1> QED  BY <1>1, <1>2, <1>3 DEF Call, Answered, Open, Later, Members

LEMMA DispatchAnswers ==
  ASSUME Inv, Answered, NEW r \in Rollouts, Prepare(r) \/ SetupFails(r)
  PROVE  Answered'
<1> USE RolloutsAssumption DEF Inv
<1>1. /\ r \in Members /\ r \in pending /\ pending' = pending \ {r}
      /\ pc = "dispatch"
      /\ UNCHANGED <<pc, call, active, halted, draining>>
      /\ \A q \in Rollouts : q # r => /\ future'[q] = future[q]
                                      /\ cwd'[q] = cwd[q]
  BY DEF Prepare, Claim, MakeOwn, SetupFails, calling, work, TypeOK
<1>2. CASE Prepare(r)
  <2>1. UNCHANGED <<count, result>> /\ future'[r] = "prepared"
    BY <1>2 DEF Prepare, answer, TypeOK
  <2> QED  BY <1>1, <2>1 DEF Answered, Open, Silent, Members, Later, TypeOK
<1>3. CASE SetupFails(r)
  <2>1. /\ UNCHANGED <<future, cwd>> /\ count[r] = 0
        /\ count' = [count EXCEPT ![r] = @ + 1]
        /\ result' = [result EXCEPT ![r] = Empty("setup", 0)]
    BY <1>1, <1>3 DEF SetupFails, Answer, work, FuturesKept, Early
  <2>2. /\ count'[r] = 1 /\ result'[r].why = "setup"
        /\ \A q \in Rollouts : q # r => /\ count'[q] = count[q]
                                        /\ result'[q] = result[q]
    BY <2>1 DEF Empty, TypeOK
  <2> QED  BY <1>1, <2>1, <2>2 DEF Answered, Open, Silent, Members, Later
<1> QED  BY <1>2, <1>3

LEMMA SubmitAnswers ==
  ASSUME Inv, Answered, Submit
  PROVE  Answered'
<1> USE RolloutsAssumption DEF Inv
<1>1. /\ UNCHANGED <<call, pending, halted, draining, cwd, count, result>>
      /\ active' = active \cup Prepared
      /\ \A q \in Rollouts : Open(q) => q \in pending' \cup active'
  BY DEF Submit, calling, work, answer, Open, Prepared
<1>2. pc' = "grace" => pending = {} \/ halted
  <2>1. ASSUME pc' = "grace" PROVE active = {} /\ Prepared = {}
    BY <2>1 DEF Submit
  <2>2. Cardinality({}) = 0 /\ workers \in Nat /\ workers > 0
    BY FS_EmptySet DEF TypeOK
  <2>3. ASSUME pc' = "grace" PROVE Cardinality(active) + Cardinality(Prepared) = 0
    <3>1. Cardinality(active) = 0 /\ Cardinality(Prepared) = 0
      BY <2>1, <2>2, <2>3, Zenon
    <3> QED  BY <3>1
  <2> QED  BY <2>2, <2>3 DEF Submit, CanPrepare
<1>3. pc' \in {"grace", "wait"} /\ (pc' = "wait" => active' # {})
  BY DEF Submit
<1> QED  BY <1>1, <1>2, <1>3 DEF Answered, Open, Silent, Members, Later

LEMMA LoopAnswers ==
  ASSUME Inv, Answered, Wait \/ Tick
  PROVE  Answered'
<1>1. /\ UNCHANGED <<call, pending, active, halted, draining, future, cwd,
                     count, result>>
      /\ pc \in {"wait", "tick"} /\ pc' \in {"wait", "tick", "reap"}
  BY DEF Wait, Tick, calling, control, work, answer
<1> QED  BY <1>1 DEF Answered, Open, Silent, Members, Later

\* Whoever is given up is answered.
LEMMA AbandonAnswers ==
  ASSUME Inv, Answered, pc = "tick", NEW S \in SUBSET active,
         NEW why \in Whys, Abandon(S, why)
  PROVE  /\ UNCHANGED <<call, cwd>> /\ active' = active \ S
         /\ \A r \in Members :
              /\ r \in S => count'[r] = 1 /\ result'[r].why = why
              /\ r \notin S => count'[r] = count[r] /\ result'[r] = result[r]
              /\ r \in pending => r \notin S
              /\ future[r] # "prepared" /\ future'[r] # "prepared"
<1> USE DEF Inv
<1>1. \A r \in Members : r \in Rollouts /\ count[r] \in Nat
  BY DEF Members, TypeOK
<1>2. \A r \in Members : r \in S => count[r] = 0
  BY DEF Members, FuturesKept, Early
<1>3. \A r \in Members : r \in S => count'[r] = 0 + 1
  BY <1>1, <1>2 DEF Abandon
<1>4. \A r \in Members : r \notin S => count'[r] = count[r] + 0
  BY <1>1 DEF Abandon
<1>5. \A r \in Members :
        /\ r \in S => result'[r] = Empty(why, cwd[r])
        /\ r \notin S => result'[r] = result[r]
  BY <1>1 DEF Abandon
<1>6. \A r \in Members : r \in S => result'[r].why = why
  BY <1>5, Entries
<1>7. \A r \in Members :
        /\ r \in pending => r \notin S
        /\ future[r] # "prepared" /\ future'[r] # "prepared"
  BY <1>1 DEF FuturesKept, Abandon
<1> QED  BY <1>1, <1>3, <1>4, <1>5, <1>6, <1>7 DEF Abandon, calling, work

LEMMA TickAnswers ==
  ASSUME Inv, Answered,
         \/ Emergency \/ DrainExpires \/ \E S \in SUBSET Rollouts : Expire(S)
  PROVE  Answered'
<1> USE DEF Inv
<1>1. CASE Emergency
  <2>1. /\ pc = "tick" /\ Abandon(active, "silent") /\ pc' = "grace"
        /\ UNCHANGED <<pending, halted, draining>> /\ active # {}
        /\ active \in SUBSET active /\ "silent" \in Whys
    BY <1>1 DEF Emergency, Answered, Whys
  <2>2. /\ UNCHANGED <<call, cwd>> /\ active' = active \ active
        /\ \A r \in Members :
             /\ r \in active => count'[r] = 1 /\ result'[r].why = "silent"
             /\ r \notin active => count'[r] = count[r] /\ result'[r] = result[r]
             /\ r \in pending => r \notin active
             /\ future[r] # "prepared" /\ future'[r] # "prepared"
    BY <2>1, AbandonAnswers
  <2>3. Silent'
    BY <2>1, <2>2 DEF Silent, TypeOK, Members
  <2> QED  BY <2>1, <2>2, <2>3 DEF Answered, Open, Members, Later
<1>2. CASE DrainExpires
  <2>1. /\ pc = "tick" /\ Abandon(active, "preempted") /\ pc' = "grace"
        /\ pending' = {} /\ draining' = FALSE /\ halted' = halted /\ halted
        /\ active \in SUBSET active /\ "preempted" \in Whys
    BY <1>2 DEF DrainExpires, Answered, Whys
  <2> QED  BY <2>1, AbandonAnswers DEF Answered, Open, Members, Later
<1>3. ASSUME NEW S \in SUBSET Rollouts, Expire(S) PROVE Answered'
  <2>1. /\ pc = "tick" /\ Abandon(S, "stalled") /\ pc' = "dispatch"
        /\ UNCHANGED <<pending, halted, draining>>
        /\ S \in SUBSET active /\ "stalled" \in Whys
    BY <1>3 DEF Expire, MayStall, Whys
  <2>2. /\ UNCHANGED <<call, cwd>> /\ active' = active \ S
        /\ \A r \in Members :
             /\ r \in S => count'[r] = 1 /\ result'[r].why = "stalled"
             /\ r \notin S => count'[r] = count[r] /\ result'[r] = result[r]
             /\ r \in pending => r \notin S
             /\ future[r] # "prepared" /\ future'[r] # "prepared"
    BY <2>1, AbandonAnswers
  <2> QED  BY <2>1, <2>2 DEF Answered, Open, Members, Later
<1> QED  BY <1>1, <1>2, <1>3

LEMMA ReapAnswers ==
  ASSUME Inv, Answered, "raises" \notin Answers, NEW r \in Rollouts,
         Reap(r) \/ ReapRaised(r)
  PROVE  Answered'
<1> USE DEF Inv
<1>1. /\ pc = "reap" /\ r \in active /\ r \in Members /\ count[r] = 0
      /\ UNCHANGED <<call, cwd>> /\ pc' \in {"dispatch", "reap"}
      /\ \A q \in Members : future[q] # "prepared" /\ count[q] \in Nat
  BY DEF Reap, ReapRaised, Preempt, TypeOK, FuturesKept, Early, Members,
     calling, work
<1>2. CASE \E entry \in Results : entry.why = "returned" /\ Preempt(r, entry)
           /\ UNCHANGED draining
  <2>1. PICK entry \in Results : entry.why = "returned" /\ Preempt(r, entry)
           /\ UNCHANGED draining
    BY <1>2
  <2>2. \A q \in Members : q \in Rollouts
    BY DEF Members
  <2>3. \A q \in Members : q \in active => count'[q] = 0 + 1
    BY <1>1, <2>1, <2>2 DEF Preempt, FuturesKept, Early
  <2>4. \A q \in Members : q \notin active => count'[q] = count[q] + 0
    BY <1>1, <2>1, <2>2 DEF Preempt
  <2>5. \A q \in Members :
          /\ q = r => result'[q] = entry
          /\ q \in active \ {r} => result'[q] = Empty("preempted", cwd[q])
          /\ q \notin active => result'[q] = result[q]
    BY <1>1, <2>1, <2>2 DEF Preempt
  <2>6. \A q \in Members : result'[q].why = "silent" => q \notin active
    BY <2>1, <2>5, Entries
  <2>7. \A q \in Members : count'[q] \in {0, 1}
                         /\ (count'[q] = 0 => q \notin active /\ count[q] = 0)
                         /\ (result'[q].why = "silent" => count'[q] = 1)
    BY <1>1, <2>3, <2>4, <2>5, <2>6 DEF Answered
  <2>8. pending' = {} /\ halted' /\ active' = {}
    BY <2>1 DEF Preempt
  <2> QED  BY <1>1, <2>7, <2>8 DEF Answered, Open, Members, Later
<1>3. CASE /\ count' = [count EXCEPT ![r] = @ + 1] /\ result'[r].why # "silent"
           /\ \A q \in Rollouts : q # r => result'[q] = result[q]
           /\ active' = active \ {r} /\ (halted => halted')
           /\ (draining' => halted') /\ UNCHANGED <<pending, future>>
  <2>1. \A q \in Members : q \in Rollouts
    BY DEF Members
  <2>2. \A q \in Members : /\ q = r => count'[q] = 1
                           /\ q # r => count'[q] = count[q]
    BY <1>1, <1>3, <2>1 DEF TypeOK
  <2>3. \A q \in Members :
          /\ count'[q] \in {0, 1}
          /\ count'[q] = 0 => Open(q)' \/ (cwd'[q] = 0 /\ halted')
          /\ q \in pending' => cwd'[q] = 0
          /\ result'[q].why = "silent" => count'[q] = 1
    <3> TAKE q \in Members
    <3>1. CASE q = r
      <4>1. /\ count'[q] = 1 /\ UNCHANGED <<pending, cwd>>
            /\ result'[q].why # "silent"
        BY <1>1, <1>3, <2>2, <3>1
      <4> QED  BY <4>1 DEF Answered, Open
    <3>2. CASE q # r
      <4>1. /\ count'[q] = count[q] /\ result'[q] = result[q]
            /\ UNCHANGED <<pending, future, cwd>> /\ (halted => halted')
            /\ (q \in active <=> q \in active')
        BY <1>1, <1>3, <2>1, <2>2, <3>2
      <4> QED  BY <4>1 DEF Answered, Open
    <3> QED  BY <3>1, <3>2
  <2> QED  BY <1>1, <1>3, <2>3 DEF Answered, Members, Later
<1>4. CASE Reap(r)
  <2>1. \A s \in BOOLEAN : Outcome(r, s).why = "returned"
    BY DEF Outcome
  <2>2. \A s \in BOOLEAN : Outcome(r, s) \in Results
    <3> TAKE s \in BOOLEAN
    <3> DEFINE patch == IF s \/ Full(verdict[r]) THEN Diff(cwd[r]) ELSE "none"
               good == patch # "none" /\ Good(verdict[r])
    <3>1. patch \in Rollouts \cup {"none"} /\ cwd[r] \in Paths \cup {0}
      BY Entries DEF TypeOK
    <3>2. good \in BOOLEAN
      OBVIOUS
    <3>3. Outcome(r, s) = [why |-> "returned", path |-> cwd[r],
                           patch |-> patch, success |-> good]
      BY DEF Outcome
    <3> HIDE DEF patch, good
    <3> QED  BY <3>1, <3>2, <3>3 DEF Results, Whys
  <2>3. PICK s \in BOOLEAN :
          \/ Preempt(r, Outcome(r, s)) /\ UNCHANGED draining
          \/ /\ Answer(r, Outcome(r, s)) /\ active' = active \ {r}
             /\ (halted => halted') /\ (draining' => halted')
             /\ UNCHANGED <<pending, future>>
    <3>1. PICK s \in BOOLEAN, a \in (IF halted THEN {"go"} ELSE Answers) :
            \/ Preempt(r, Outcome(r, s)) /\ UNCHANGED draining
            \/ /\ Answer(r, Outcome(r, s)) /\ active' = active \ {r}
               /\ halted' = (halted \/ a \in {"stop", "drain"})
               /\ draining' = (draining \/ (a = "drain" /\ active' # {}))
               /\ UNCHANGED <<pending, future>>
      BY <1>4 DEF Reap
    <3>2. draining => halted
      BY DEF Answered
    <3>3. CASE Preempt(r, Outcome(r, s)) /\ UNCHANGED draining
      BY <3>3
    <3>4. CASE /\ Answer(r, Outcome(r, s)) /\ active' = active \ {r}
               /\ halted' = (halted \/ a \in {"stop", "drain"})
               /\ draining' = (draining \/ (a = "drain" /\ active' # {}))
               /\ UNCHANGED <<pending, future>>
      <4>1. (halted => halted') /\ (draining' => halted')
        BY <3>2, <3>4 DEF TypeOK
      <4> QED  BY <3>4, <4>1
    <3> QED  BY <3>1, <3>3, <3>4
  <2>4. CASE Preempt(r, Outcome(r, s)) /\ UNCHANGED draining
    BY <1>2, <2>1, <2>2, <2>4
  <2>5. CASE Answer(r, Outcome(r, s)) /\ active' = active \ {r}
             /\ (halted => halted') /\ (draining' => halted')
             /\ UNCHANGED <<pending, future>>
    <3>1. /\ count' = [count EXCEPT ![r] = @ + 1]
          /\ result' = [result EXCEPT ![r] = Outcome(r, s)]
      BY <2>5 DEF Answer
    <3>2. result'[r].why # "silent"
      BY <2>1, <3>1 DEF TypeOK
    <3>3. \A q \in Rollouts : q # r => result'[q] = result[q]
      BY <3>1 DEF TypeOK
    <3> QED  BY <1>3, <2>5, <3>1, <3>2, <3>3
  <2> QED  BY <2>3, <2>4, <2>5
<1>5. CASE ReapRaised(r)
  <2>1. future[r] = "raised"
    BY <1>5 DEF ReapRaised, Raises
  <2>2. /\ count' = [count EXCEPT ![r] = @ + 1]
        /\ result' = [result EXCEPT ![r] = Empty("raised", 0)]
        /\ active' = active \ {r}
        /\ UNCHANGED <<halted, draining, pending, future>>
    BY <1>5, <2>1 DEF ReapRaised
  <2>3. result'[r].why # "silent"
    BY <2>2 DEF TypeOK, Empty
  <2>4. \A q \in Rollouts : q # r => result'[q] = result[q]
    BY <2>2 DEF TypeOK
  <2>5. draining => halted
    BY DEF Answered
  <2> QED  BY <1>3, <2>2, <2>3, <2>4, <2>5
<1> QED  BY <1>4, <1>5

LEMMA EndingAnswers ==
  ASSUME Inv, Answered, Ending
  PROVE  Answered'
<1> USE DEF Inv
<1>1. /\ UNCHANGED <<call, cwd, pending, active, halted, draining, future>>
      /\ pc \in Later \cup {"grace"} /\ pc' \in Later
  BY DEF Ending, Quarantine, Recover, Late, Promote, calling, control, work,
     Later
<1>2. \A r \in Members :
        /\ r \in Rollouts
        /\ count'[r] \in {0, 1} /\ (count'[r] = 0 => count[r] = 0)
        /\ (result[r].why = "silent" => result'[r].why = "silent")
        /\ (result'[r].why = "silent" => result[r].why = "silent")
        /\ (count[r] = 1 => count'[r] = 1)
  <2> SUFFICES ASSUME NEW r \in Members
               PROVE  /\ r \in Rollouts
                      /\ count'[r] \in {0, 1} /\ (count'[r] = 0 => count[r] = 0)
                      /\ (result[r].why = "silent" <=> result'[r].why = "silent")
                      /\ (count[r] = 1 => count'[r] = 1)
    OBVIOUS
  <2>1. r \in Rollouts /\ count[r] \in {0, 1} /\ result[r] \in Results
    BY DEF Members, Answered, TypeOK
  <2>2. CASE Quarantine
    BY <2>1, <2>2 DEF Quarantine, answer
  <2>3. CASE Recover
    <3>1. count'[r] = count[r] /\ result'[r] \in {result[r], Recovered(r)}
      BY <2>1, <2>3 DEF Recover
    <3>2. Recovered(r).why = result[r].why
      BY <2>1 DEF Recovered, Results
    <3> QED  BY <2>1, <3>1, <3>2
  <2>4. CASE Late
    <3>1. /\ count'[r] \in {count[r], 1}
          /\ result'[r] \in
               {result[r], [result[r] EXCEPT !.patch = Diff(result[r].path)]}
             \/ result'[r] = LateEntry(r)
      BY <2>1, <2>4 DEF Late
    <3>2. LateEntry(r).why = IF count[r] = 0 THEN "late" ELSE result[r].why
      BY <2>1 DEF LateEntry, Results
    <3>3. count[r] = 0 => result[r].why # "silent"
      BY <2>1 DEF Answered
    <3>4. [result[r] EXCEPT !.patch = Diff(result[r].path)].why = result[r].why
      BY <2>1 DEF Results
    <3> QED  BY <2>1, <3>1, <3>2, <3>3, <3>4
  <2>5. CASE Promote
    <3>1. count'[r] = count[r]
          /\ result'[r] \in {result[r], [result[r] EXCEPT !.path = r]}
      BY <2>1, <2>5 DEF Promote
    <3>2. [result[r] EXCEPT !.path = r].why = result[r].why
      BY <2>1 DEF Results
    <3> QED  BY <2>1, <3>1, <3>2
  <2> QED  BY <2>2, <2>3, <2>4, <2>5 DEF Ending
<1>3. Silent => Silent'
  BY <1>1, <1>2 DEF Silent, Members
<1>4. pc' \notin {"wait", "tick"}
  BY <1>1 DEF Later
<1>5. \A r \in Members : result'[r].why = "silent" => count'[r] = 1
  BY <1>2 DEF Answered
<1>6. Members' = Members /\ \A r \in Rollouts : Open(r)' <=> Open(r)
  BY <1>1 DEF Members, Open
<1> QED  BY <1>1, <1>2, <1>3, <1>4, <1>5, <1>6 DEF Answered, Members, Open

LEMMA InitAnswers == Init => Answered
<1> USE RolloutsAssumption
<1> SUFFICES ASSUME Init PROVE Answered
  OBVIOUS
<1>1. Members = {} /\ \A r \in Rollouts : cwd[r] = 0
  BY DEF Init, Members
<1>2. pending = {} /\ draining = FALSE /\ pc = "out"
  BY DEF Init
<1> QED  BY <1>1, <1>2 DEF Answered

LEMMA NextAnswers ==
  ASSUME Inv, Answered, "raises" \notin Answers, [Next]_vars
  PROVE  Answered'
<1>1. CASE UNCHANGED vars
  BY <1>1 DEF vars, calling, control, work, answer, Answered, Open, Silent,
     Members
<1>2. CASE \E r \in Rollouts : Worker(r)
  BY <1>2, WorkerAnswers
<1>3. CASE Looping
  BY <1>3, SubmitAnswers, LoopAnswers, TickAnswers, DispatchAnswers,
     ReapAnswers DEF Looping
<1>4. CASE Call \/ Ending
  BY <1>4, CallAnswers, EndingAnswers
<1> QED  BY <1>1, <1>2, <1>3, <1>4 DEF Next, Scheduler

\* A call answers each request once, if the predicate does not raise; only a
\* stop or the emergency cap leaves one out that never had a workspace.
THEOREM AnswersOnce ==
  ASSUME "raises" \notin Answers
  PROVE  Spec => []AnsweredOrStopped
<1>1. Inv /\ Answered => AnsweredOrStopped
  BY DEF Inv, FuturesKept, Answered, AnsweredOrStopped, Open, Silent, Later,
     Members
<1>2. Inv /\ Inv' /\ Answered /\ [Next]_vars => Answered'
  BY NextAnswers
<1> QED  BY <1>1, <1>2, Invariance, InitAnswers, PTL DEF Spec

----------------------------------------------------------------------------
(***************************************************************************)
(* Workspaces that are handed over.  A result names the workspace of its   *)
(* worker, and as long as the call lasts that is a directory of the        *)
(* rollout's own or a slot that nobody else can get: leased slots, and the *)
(* directories of rollouts that are on the books, keep what is in them.    *)
(***************************************************************************)

\* The call still answers for r with its workspace.
OnBooks(r) == \/ r \in active
              \/ r \in deferred /\ pc \in Early \cup {"recover"}

\* Where rollouts work and what their results say of it.
Placed ==
  /\ \A r \in Rollouts : /\ cwd[r] \in {0, r} \cup Slots
                         /\ Of[r] > call => cwd[r] = 0
  /\ \A r \in Members :
       /\ count[r] = 0 => result[r] = NoResult
       /\ result[r].patch # "none" => result[r].path \in Paths
       /\ pc # "out" => result[r].path \in {0, cwd[r]}

\* Slots: one that is in use keeps the branch of its own; a leased one has
\* the edits of the rollout it serves, a free one none.
SlotsKept ==
  /\ \A s \in Slots : slot[s] # "none" => git[s] \in {s, 0}
  /\ pc \in Early => \A r \in Members :
       cwd[r] \in Slots => slot[cwd[r]] # "none"
  /\ Settled => \A s \in Slots :
       /\ slot[s] = "free" => tree[s] = "clean"
       /\ slot[s] \in Rollouts =>
            tree[s] = IF slot[s] \in edited THEN slot[s] ELSE "clean"

\* The workspaces of rollouts on the books.
Housed ==
  /\ active \cap deferred = {}
  /\ pc # "out" => \A r \in Members : cwd[r] = r => git[r] \in {r, 0}
  /\ \A r \in Members : OnBooks(r) =>
       \/ cwd[r] = r
       \/ /\ cwd[r] \in Slots
          /\ slot[cwd[r]] = IF r \in quarantined THEN "none" ELSE r
  /\ Settled => \A r \in Members : OnBooks(r) /\ cwd[r] = r =>
       tree[r] = IF r \in edited THEN r ELSE "clean"

\* A patch is that of the workspace its result names.
PatchesStand ==
  Settled => \A r \in Members :
    result[r].patch = r => tree[result[r].path] = r

Handed == Placed /\ SlotsKept /\ Housed /\ PatchesStand

\* The entry res names the workspace of r, and its patch is what is there.
Fits(r, res) ==
  /\ res.path \in {0, cwd[r]}
  /\ res.patch # "none" => /\ res.path = cwd[r] /\ cwd[r] \in Paths
                           /\ tree[cwd[r]] = res.patch

\* A step that clears the workspaces of S, of which no patch is kept, and
\* adds no result that does not fit.
Spares(S) ==
  /\ S \subseteq Rollouts /\ Clear(S)
  /\ UNCHANGED <<call, quarantined, cwd, edited>>
  /\ (pc = "out") = (pc' = "out") /\ (pc = "out" => S = {})
  /\ pc' \in Early => pc \in Early
  /\ active' \cap deferred' = {}
  /\ \A r \in Members :
       /\ OnBooks(r)' => (OnBooks(r) \/ Holds(r)) /\ r \notin S
       /\ count'[r] = 0 => count[r] = 0 /\ result'[r] = result[r]
       /\ r \in S => result'[r].patch = "none"
       /\ \/ /\ result'[r].path = result[r].path
             /\ result'[r].patch = result[r].patch
          \/ Fits(r, result'[r])

LEMMA Zero == 0 \notin Paths
  BY RolloutsAssumption DEF Paths

\* What Clear(S) does to a slot and to a directory.
LEMMA ClearedPaths ==
  ASSUME NEW S \in SUBSET Rollouts, Clear(S)
  PROVE  /\ \A s \in Slots :
              /\ slot'[s] = IF slot[s] \in S THEN "free" ELSE slot[s]
              /\ tree'[s] = IF slot[s] \in S THEN "clean" ELSE tree[s]
              /\ git'[s] = git[s]
         /\ \A r \in Rollouts :
              /\ r \notin S => tree'[r] = tree[r]
              /\ git'[r] \in {git[r], 0}
  BY RolloutsAssumption DEF Clear, Paths

LEMMA SparesHanded ==
  ASSUME Inv, Handed, NEW S, Spares(S)
  PROVE  Handed'
<1> USE RolloutsAssumption DEF Inv, Handed
<1>1. /\ S \in SUBSET Rollouts /\ Clear(S) /\ Members' = Members
      /\ UNCHANGED <<call, quarantined, cwd, edited>>
      /\ Settled' = Settled /\ Members \subseteq Rollouts
      /\ "none" \notin S /\ "free" \notin S
  BY DEF Spares, Members, Settled
<1>2. Placed'
  <2>1. \A r \in Rollouts : /\ cwd'[r] \in {0, r} \cup Slots
                            /\ Of[r] > call' => cwd'[r] = 0
    BY <1>1 DEF Placed
  <2>2. \A r \in Members :
          /\ count'[r] = 0 => result'[r] = NoResult
          /\ result'[r].patch # "none" => result'[r].path \in Paths
          /\ pc' # "out" => result'[r].path \in {0, cwd[r]}
    BY DEF Placed, Spares, Fits
  <2> QED  BY <1>1, <2>1, <2>2 DEF Placed
<1>3. SlotsKept'
  <2>1. \A s \in Slots : slot'[s] # "none" => git'[s] \in {s, 0}
    BY <1>1, ClearedPaths DEF SlotsKept
  <2>2. pc' \in Early => \A r \in Members :
          cwd[r] \in Slots => slot'[cwd[r]] # "none"
    <3>1. \A s \in Slots : slot[s] # "none" => slot'[s] # "none"
      BY <1>1, ClearedPaths
    <3>2. pc' \in Early => pc \in Early
      BY DEF Spares
    <3> QED  BY <3>1, <3>2 DEF SlotsKept
  <2>3. Settled => \A s \in Slots :
          /\ slot'[s] = "free" => tree'[s] = "clean"
          /\ slot'[s] \in Rollouts =>
               tree'[s] = IF slot'[s] \in edited THEN slot'[s] ELSE "clean"
    BY <1>1, ClearedPaths DEF SlotsKept
  <2> QED  BY <1>1, <2>1, <2>2, <2>3 DEF SlotsKept
<1>4. Housed'
  <2>1. pc' # "out" => \A r \in Members : cwd[r] = r => git'[r] \in {r, 0}
    BY <1>1, ClearedPaths DEF Housed, Spares
  <2>2. \A r \in Members : OnBooks(r) \/ Holds(r) =>
          \/ cwd[r] = r
          \/ /\ cwd[r] \in Slots
             /\ slot[cwd[r]] = IF r \in quarantined THEN "none" ELSE r
    BY DEF Housed, Leases
  <2>3. Settled => \A r \in Members : (OnBooks(r) \/ Holds(r)) /\ cwd[r] = r =>
          tree[r] = IF r \in edited THEN r ELSE "clean"
    BY DEF Housed, HoldersKeepTheirTrees
  <2>4. \A r \in Members : OnBooks(r)' => r \notin S /\ (OnBooks(r) \/ Holds(r))
    BY DEF Spares
  <2>5. \A r \in Members : OnBooks(r)' =>
          \/ cwd[r] = r
          \/ /\ cwd[r] \in Slots
             /\ slot'[cwd[r]] = IF r \in quarantined THEN "none" ELSE r
    <3> SUFFICES ASSUME NEW r \in Members, OnBooks(r)', cwd[r] # r
                 PROVE  /\ cwd[r] \in Slots
                        /\ slot'[cwd[r]] = IF r \in quarantined THEN "none"
                                           ELSE r
      OBVIOUS
    <3>1. r \notin S /\ cwd[r] \in Slots
          /\ slot[cwd[r]] = IF r \in quarantined THEN "none" ELSE r
      BY <2>2, <2>4
    <3>2. slot[cwd[r]] \notin S
      BY <1>1, <3>1
    <3>3. slot'[cwd[r]] = slot[cwd[r]]
      BY <1>1, <3>1, <3>2 DEF Clear
    <3> QED  BY <3>1, <3>3
  <2>6. Settled => \A r \in Members : OnBooks(r)' /\ cwd[r] = r =>
          tree'[r] = IF r \in edited THEN r ELSE "clean"
    BY <1>1, <2>3, <2>4, ClearedPaths
  <2>7. active' \cap deferred' = {}
    BY DEF Spares
  <2> QED  BY <1>1, <2>1, <2>5, <2>6, <2>7 DEF Housed
<1>5. PatchesStand'
  <2> SUFFICES ASSUME Settled, NEW r \in Members, result'[r].patch = r
               PROVE  tree'[result'[r].path] = r
    BY <1>1 DEF PatchesStand
  <2>1. r \notin S /\ r # "none" /\ r \in Rollouts
    BY <1>1 DEF Spares
  <2>2. result'[r].path \in Paths /\ tree[result'[r].path] = r
    BY <2>1 DEF Spares, Fits, PatchesStand, Placed
  <2>3. CASE pc = "out"
    <3>1. S = {}
      BY <2>3 DEF Spares
    <3>2. tree' = tree
      BY <1>1, <3>1 DEF Clear, TypeOK
    <3> QED  BY <2>2, <3>2
  <2>4. CASE pc # "out"
    <3>1. result'[r].path = cwd[r]
      BY <1>1, <1>2, <2>2, <2>4, Zero DEF Placed, Spares
    <3>2. cwd[r] = r \/ cwd[r] \in Slots
      BY <2>1, <2>2, <3>1, Zero DEF Placed
    <3>3. CASE cwd[r] = r
      BY <1>1, <2>1, <2>2, <3>1, <3>3, ClearedPaths
    <3>4. CASE cwd[r] \in Slots
      <4>1. slot[cwd[r]] \in Rollouts => slot[cwd[r]] = r
        <5>1. tree[cwd[r]] = r /\ r # "clean"
          BY <2>1, <2>2, <3>1
        <5>2. slot[cwd[r]] \in Rollouts =>
                tree[cwd[r]] = IF slot[cwd[r]] \in edited THEN slot[cwd[r]]
                               ELSE "clean"
          BY <3>4 DEF SlotsKept
        <5> QED  BY <5>1, <5>2
      <4>2. slot[cwd[r]] \notin S
        BY <2>1, <4>1, <1>1
      <4>3. \A s \in Slots : slot[s] \notin S => tree'[s] = tree[s]
        BY <1>1, ClearedPaths
      <4> QED  BY <2>2, <3>1, <3>4, <4>2, <4>3
    <3> QED  BY <3>2, <3>3, <3>4
  <2> QED  BY <2>3, <2>4
<1> QED  BY <1>2, <1>3, <1>4, <1>5

\* Nothing is cleared.
LEMMA NothingCleared ==
  ASSUME TypeOK, UNCHANGED disk
  PROVE  Clear({})
  BY DEF disk, TypeOK, Clear

LEMMA WorkerSpares ==
  ASSUME Inv, Handed, NEW r \in Rollouts,
         \/ Start(r) \/ Verify(r) \/ Finish(r)
         \/ Finalize(r) \/ Return(r) \/ Raise(r)
  PROVE  Spares({})
<1>1. UNCHANGED <<pc, calling, control, deferred, quarantined, cwd, edited,
                  disk, answer>>
  BY DEF Start, Verify, Finish, Finalize, Return, Raise, killing, work
<1>2. Clear({})
  BY <1>1, NothingCleared DEF Inv
<1> QED  BY <1>1, <1>2 DEF Handed, Housed, Spares, calling, control, answer,
     OnBooks

LEMMA LoopSpares ==
  ASSUME Inv, Handed, Submit \/ Wait \/ Tick
  PROVE  Spares({})
<1>1. /\ UNCHANGED <<calling, deferred, quarantined, cwd, edited, disk, answer>>
      /\ pc \in Early /\ pc' \in Early
      /\ active' = active \/ active' = active \cup Prepared
  BY DEF Submit, Wait, Tick, killing, work, control, Early
<1>2. Clear({})
  BY <1>1, NothingCleared DEF Inv
<1>3. pc # "out" /\ pc' # "out"
  BY <1>1 DEF Early
<1>4. active' \cap deferred' = {}
  BY <1>1 DEF Inv, FuturesKept, Idle, Handed, Housed, Prepared
<1> QED  BY <1>1, <1>2, <1>3, <1>4 DEF Spares, calling, answer, OnBooks,
     Prepared, Holds

LEMMA SetupSpares ==
  ASSUME Inv, Handed, NEW r \in Rollouts, SetupFails(r)
  PROVE  Spares({})
<1> USE DEF Inv
<1>1. /\ UNCHANGED <<pc, calling, active, deferred, quarantined, cwd, edited,
                     disk>>
      /\ Answer(r, Empty("setup", 0)) /\ pc = "dispatch" /\ count[r] = 0
  BY DEF SetupFails, killing, work, FuturesKept, Early
<1>2. Clear({})
  BY <1>1, NothingCleared
<1>3. \A q \in Members :
        /\ count'[q] = 0 => count[q] = 0 /\ result'[q] = result[q]
        /\ result'[q] = result[q] \/ Fits(q, result'[q])
  BY <1>1 DEF Answer, TypeOK, Members, Fits, Empty
<1> QED  BY <1>1, <1>2, <1>3 DEF Handed, Housed, Spares, calling, OnBooks

LEMMA AbandonSpares ==
  ASSUME Inv, Handed, pc = "tick", NEW S \in SUBSET active, NEW why \in Whys,
         Abandon(S, why), pc' \in {"grace", "dispatch"}
  PROVE  Spares({})
<1> USE DEF Inv
<1>1. /\ UNCHANGED <<calling, quarantined, cwd, edited, disk>>
      /\ active' = active \ S /\ deferred' = deferred \cup S
  BY DEF Abandon, work
<1>2. Clear({})
  BY <1>1, NothingCleared
<1>3. \A q \in Members :
        /\ count'[q] = 0 => count[q] = 0 /\ result'[q] = result[q]
        /\ result'[q] = result[q] \/ Fits(q, result'[q])
  <2> TAKE q \in Members
  <2>1. q \in Rollouts /\ count[q] \in Nat
    BY DEF Members, TypeOK
  <2>2. CASE q \in S
    <3>1. count'[q] = count[q] + 1 /\ result'[q] = Empty(why, cwd[q])
      BY <2>1, <2>2 DEF Abandon
    <3>2. Fits(q, result'[q])
      BY <3>1 DEF Fits, Empty
    <3> QED  BY <2>1, <3>1, <3>2
  <2>3. CASE q \notin S
    <3>1. count'[q] = count[q] + 0 /\ result'[q] = result[q]
      BY <2>1, <2>3 DEF Abandon
    <3> QED  BY <2>1, <3>1
  <2> QED  BY <2>2, <2>3
<1> QED  BY <1>1, <1>2, <1>3 DEF Handed, Housed, Spares, calling, OnBooks,
     Early

LEMMA TickSpares ==
  ASSUME Inv, Handed, \/ Emergency \/ DrainExpires
              \/ \E S \in SUBSET Rollouts : Expire(S)
  PROVE  Spares({})
<1>1. \E S \in SUBSET active, why \in Whys : Abandon(S, why)
  BY DEF Emergency, DrainExpires, Expire, MayStall, Whys
<1>2. pc = "tick" /\ pc' \in {"grace", "dispatch"}
  BY DEF Emergency, DrainExpires, Expire
<1> QED  BY <1>1, <1>2, AbandonSpares

\* What git diff shows in the workspace of r fits.
LEMMA DiffFits ==
  ASSUME Inv, Handed, NEW r \in Members, NEW res \in Results,
         res.path \in {0, cwd[r]}, res.patch \in {"none", Diff(res.path)}
  PROVE  Fits(r, res)
<1>1. cwd[r] \in Paths \cup {0}
  BY DEF Inv, TypeOK, Members
<1>2. CASE res.patch = "none"
  BY <1>2 DEF Fits
<1>3. CASE res.patch # "none"
  <2>1. res.path # 0 /\ res.patch = tree[res.path]
    BY <1>3 DEF Diff
  <2> QED  BY <1>1, <2>1 DEF Fits
<1> QED  BY <1>2, <1>3

LEMMA LateSpares ==
  ASSUME Inv, Handed, Late
  PROVE  Spares({})
<1> USE DEF Inv
<1>1. /\ UNCHANGED <<calling, active, deferred, quarantined, cwd, edited,
                     disk>>
      /\ pc = "late" /\ pc' = "promote" /\ active = {}
  BY DEF Late, control, killing, work, FuturesKept, Later
<1>2. Clear({})
  BY <1>1, NothingCleared
<1>3. \A q \in Members :
        /\ count'[q] = 0 => count[q] = 0 /\ result'[q] = result[q]
        /\ \/ /\ result'[q].path = result[q].path
              /\ result'[q].patch = result[q].patch
           \/ Fits(q, result'[q])
  <2> SUFFICES ASSUME NEW q \in Members
               PROVE  /\ count'[q] = 0 => count[q] = 0 /\ result'[q] = result[q]
                      /\ \/ /\ result'[q].path = result[q].path
                            /\ result'[q].patch = result[q].patch
                         \/ Fits(q, result'[q])
    OBVIOUS
  <2>1. /\ q \in Rollouts /\ result[q] \in Results /\ cwd[q] \in Paths \cup {0}
        /\ result[q].path \in {0, cwd[q]}
        /\ result[q].patch # "none" => result[q].path \in Paths
        /\ count[q] = 0 => result[q] = NoResult
    BY <1>1 DEF Members, TypeOK, Handed, Placed
  <2>2. CASE Terminal(q)
    <3>1. /\ count'[q] = IF count[q] = 0 THEN 1 ELSE count[q]
          /\ result'[q] = LateEntry(q)
      BY <2>1, <2>2 DEF Late
    <3> DEFINE base == IF count[q] = 0
                       THEN [why |-> "late", success |-> TRUE,
                             patch |-> "none", path |-> cwd[q]]
                       ELSE IF result[q].path = 0
                       THEN [result[q] EXCEPT !.path = cwd[q]] ELSE result[q]
               patch == IF base.patch # "none" THEN base.patch
                        ELSE Diff(base.path)
               good == base.success \/ (patch # "none" /\ Good(Reported(q)))
    <3>2. /\ base \in Results /\ base.path \in {0, cwd[q]}
          /\ base.patch # "none" =>
               base.path = result[q].path /\ base.patch = result[q].patch
      BY <2>1, Zero DEF Results, Whys
    <3>3. patch \in Rollouts \cup {"none"}
      <4> HIDE DEF base
      <4> QED  BY <3>2, Entries DEF Results
    <3>4. good \in BOOLEAN
      <4> HIDE DEF base, patch
      <4> QED  BY <3>2 DEF Results
    <3>5. LateEntry(q) = [base EXCEPT !.patch = patch, !.success = good]
      BY DEF LateEntry
    <3>6. CASE base.patch = "none"
      <4>1. patch = Diff(base.path)
        BY <3>6
      <4> HIDE DEF base, patch, good
      <4>2. LateEntry(q) \in Results /\ LateEntry(q).path = base.path
            /\ LateEntry(q).patch = patch
        BY <3>2, <3>3, <3>4, <3>5 DEF Results
      <4>3. Fits(q, LateEntry(q))
        BY <3>2, <4>1, <4>2, DiffFits
      <4> QED  BY <3>1, <4>3
    <3>7. CASE base.patch # "none"
      <4>1. patch = base.patch
        BY <3>7
      <4> HIDE DEF base, patch, good
      <4>2. LateEntry(q) \in Results /\ LateEntry(q).path = result[q].path
            /\ LateEntry(q).patch = result[q].patch
        BY <3>2, <3>3, <3>4, <3>5, <3>7, <4>1 DEF Results
      <4> QED  BY <3>1, <4>2
    <3> QED  BY <3>6, <3>7
  <2>3. CASE ~Terminal(q) /\ TimedOut(q) /\ Bare(q)
    <3> DEFINE res == [result[q] EXCEPT !.patch = Diff(result[q].path)]
    <3>1. count'[q] = count[q] /\ result'[q] = res
      BY <2>1, <2>3 DEF Late
    <3>2. res \in Results /\ res.path = result[q].path
          /\ res.patch = Diff(res.path)
      BY <2>1, Entries DEF Results
    <3>3. Fits(q, res)
      <4> HIDE DEF res
      <4> QED  BY <2>1, <3>2, DiffFits
    <3>4. count[q] # 0
      BY <2>1, <2>3 DEF TimedOut, NoResult, Empty
    <3> QED  BY <3>1, <3>3, <3>4
  <2>4. CASE ~Terminal(q) /\ ~(TimedOut(q) /\ Bare(q))
    BY <2>1, <2>4 DEF Late
  <2> QED  BY <2>2, <2>3, <2>4
<1> QED  BY <1>1, <1>2, <1>3 DEF Handed, Housed, Spares, calling, OnBooks,
     Early

LEMMA RecoverSpares ==
  ASSUME Inv, Handed, Recover
  PROVE  \E S : Spares(S)
<1> USE DEF Inv
<1> DEFINE S == IF Quiesced = {} THEN {}
                ELSE {r \in Quiesced : result'[r].patch = "none"}
<1>1. /\ UNCHANGED <<calling, active, deferred, quarantined, cwd, edited,
                     count>>
      /\ pc = "recover" /\ pc' = "late" /\ active = {}
  BY DEF Recover, control, killing, work, FuturesKept, Later
<1>2. S \subseteq Rollouts /\ Clear(S)
  BY NothingCleared DEF Recover, Quiesced, TypeOK, Members
<1>3. \A q \in Members :
        /\ count'[q] = 0 => count[q] = 0 /\ result'[q] = result[q]
        /\ \/ /\ result'[q].path = result[q].path
              /\ result'[q].patch = result[q].patch
           \/ Fits(q, result'[q])
  <2> SUFFICES ASSUME NEW q \in Members
               PROVE  /\ count'[q] = 0 => count[q] = 0 /\ result'[q] = result[q]
                      /\ \/ /\ result'[q].path = result[q].path
                            /\ result'[q].patch = result[q].patch
                         \/ Fits(q, result'[q])
    OBVIOUS
  <2>1. /\ q \in Rollouts /\ result[q] \in Results
        /\ result[q].path \in {0, cwd[q]}
    BY <1>1 DEF Members, TypeOK, Handed, Placed
  <2>2. CASE Quiesced = {} \/ count[q] = 0
    BY <1>1, <2>1, <2>2 DEF Recover
  <2>3. CASE Quiesced # {} /\ count[q] # 0
    <3>1. result'[q] = Recovered(q) /\ count'[q] # 0
      BY <1>1, <2>1, <2>3 DEF Recover
    <3> DEFINE diff == Diff(result[q].path)
               good == Green(verdict[diff])
    <3>2. diff \in Rollouts \cup {"none"} /\ good \in BOOLEAN
      BY <2>1, Entries DEF Results, Green, Good
    <3>3. Recovered(q) \in
            {result[q], [result[q] EXCEPT !.patch = diff, !.success = good],
             [result[q] EXCEPT !.patch = diff]}
      BY DEF Recovered
    <3>4. CASE Recovered(q) = result[q]
      BY <3>1, <3>4
    <3>5. CASE Recovered(q) # result[q]
      <4>1. /\ Recovered(q) \in Results /\ Recovered(q).path = result[q].path
            /\ Recovered(q).patch = diff
        <5> HIDE DEF diff, good
        <5> QED  BY <2>1, <3>2, <3>3, <3>5 DEF Results
      <4>2. Fits(q, Recovered(q))
        BY <2>1, <4>1, DiffFits
      <4> QED  BY <3>1, <4>2
    <3> QED  BY <3>4, <3>5
  <2> QED  BY <2>2, <2>3
<1>4. \A q \in Members : ~OnBooks(q)'
  BY <1>1 DEF OnBooks, Early
<1>5. \A q \in S : result'[q].patch = "none"
  OBVIOUS
<1> HIDE DEF S
<1>6. Spares(S)
  BY <1>1, <1>2, <1>3, <1>4, <1>5 DEF Spares, calling, Early
<1> QED  BY <1>6

\* The outcome of a worker that returned.
LEMMA OutcomeFits ==
  ASSUME Inv, Handed, NEW r \in Members, NEW s \in BOOLEAN
  PROVE  /\ Outcome(r, s) \in Results /\ Fits(r, Outcome(r, s))
         /\ Outcome(r, s).path = cwd[r]
         /\ Outcome(r, s).patch =
              IF s \/ Full(verdict[r]) THEN Diff(cwd[r]) ELSE "none"
         /\ Outcome(r, s).success =
              (Outcome(r, s).patch # "none" /\ Good(verdict[r]))
<1> DEFINE patch == IF s \/ Full(verdict[r]) THEN Diff(cwd[r]) ELSE "none"
           good == patch # "none" /\ Good(verdict[r])
<1>1. patch \in Rollouts \cup {"none"} /\ cwd[r] \in Paths \cup {0}
  BY Entries DEF Inv, TypeOK, Members
<1>2. good \in BOOLEAN /\ patch \in {"none", Diff(cwd[r])}
  OBVIOUS
<1>3. Outcome(r, s) = [why |-> "returned", path |-> cwd[r],
                       patch |-> patch, success |-> good]
  BY DEF Outcome
<1>4. /\ Outcome(r, s).patch = patch
      /\ Outcome(r, s).success = (patch # "none" /\ Good(verdict[r]))
  BY <1>3
<1>5. patch = IF s \/ Full(verdict[r]) THEN Diff(cwd[r]) ELSE "none"
  OBVIOUS
<1> HIDE DEF patch, good
<1>6. Outcome(r, s) \in Results /\ Outcome(r, s).path = cwd[r]
  BY <1>1, <1>2, <1>3 DEF Results, Whys
<1>7. Fits(r, Outcome(r, s))
  BY <1>2, <1>4, <1>6, DiffFits
<1> QED  BY <1>4, <1>5, <1>6, <1>7

\* Reaping r, by what the caller answers.
Reaps(r, entry) ==
  /\ UNCHANGED <<calling, quarantined, cwd, verdict, edited, status>>
  /\ pc = "reap" /\ pc' \in {"dispatch", "reap"}
  /\ r \in active /\ r \in Members
  /\ \/ entry.patch = "none" /\ Clear({r})
     \/ UNCHANGED disk
  /\ \/ Preempt(r, entry) /\ UNCHANGED disk
     \/ /\ Answer(r, entry) /\ active' = active \ {r}
        /\ UNCHANGED <<pending, future, deferred, cancelled>>

LEMMA ReapReaps ==
  ASSUME Inv, NEW r \in Rollouts, Reap(r)
  PROVE  /\ future[r] = "returned"
         /\ \E s \in BOOLEAN : Reaps(r, Outcome(r, s))
<1>1. /\ pc = "reap" /\ r \in active /\ r \in Members /\ future[r] = "returned"
      /\ UNCHANGED <<calling, quarantined, cwd, verdict, edited, status>>
  BY DEF Inv, Reap, TypeOK, work
<1>2. PICK s \in BOOLEAN, a \in (IF halted THEN {"go"} ELSE Answers) :
        /\ IF Outcome(r, s).patch # "none" \/ a = "preempt" THEN UNCHANGED disk
           ELSE Clear({r})
        /\ IF a = "preempt"
           THEN /\ Preempt(r, Outcome(r, s))
                /\ pc' = "dispatch"
           ELSE /\ Answer(r, Outcome(r, s))
                /\ active' = active \ {r}
                /\ pc' \in {"dispatch", "reap"}
                /\ UNCHANGED <<pending, future, deferred, cancelled>>
  BY DEF Reap
<1> QED  BY <1>1, <1>2 DEF Reaps

\* The answers a preempting stop gives.
LEMMA PreemptGives ==
  ASSUME Inv, NEW r \in active, NEW entry, Preempt(r, entry), pc = "reap"
  PROVE  /\ active' = {} /\ deferred' = deferred \cup (active \ {r})
         /\ \A q \in Members :
              /\ q \in active => count'[q] = 1
              /\ q \notin active => count'[q] = count[q] /\ result'[q] = result[q]
              /\ q \in active \ {r} => result'[q] = Empty("preempted", cwd[q])
              /\ q = r => result'[q] = entry
<1> USE DEF Inv
<1>1. \A q \in Members : q \in Rollouts /\ count[q] \in Nat
  BY DEF Members, TypeOK
<1>2. \A q \in Members : q \in active => count[q] = 0
  BY <1>1 DEF FuturesKept, Early
<1>3. \A q \in Members :
        count'[q] = count[q] + IF q \in (active \ {r}) \cup {r} THEN 1 ELSE 0
  BY <1>1 DEF Preempt
<1>4. \A q \in Members : /\ q \in active => count'[q] = 1
                         /\ q \notin active => count'[q] = count[q]
  BY <1>1, <1>2, <1>3
<1> QED  BY <1>1, <1>4 DEF Preempt

LEMMA ReapSpares ==
  ASSUME Inv, Handed, NEW r \in Rollouts, Reap(r)
  PROVE  \E S : Spares(S)
<1> USE DEF Inv
<1>1. PICK s \in BOOLEAN : Reaps(r, Outcome(r, s))
  BY ReapReaps
<1> DEFINE entry == Outcome(r, s)
           S == IF Clear({r}) /\ entry.patch = "none" THEN {r} ELSE {}
<1>2. /\ UNCHANGED <<call, quarantined, cwd, edited>>
      /\ pc \in Early /\ pc' \in Early /\ pc # "out" /\ pc' # "out"
      /\ r \in active /\ r \in Members /\ r \notin deferred /\ pc = "reap"
  BY <1>1 DEF Reaps, calling, Early, Handed, Housed
<1>3. Fits(r, entry)
  BY <1>2, OutcomeFits
<1>4. CASE Preempt(r, entry) /\ UNCHANGED disk
  <2>1. Clear({})
    BY <1>4, NothingCleared
  <2>2. \A q \in Members :
          /\ OnBooks(q)' => OnBooks(q)
          /\ count'[q] = 0 => count[q] = 0 /\ result'[q] = result[q]
          /\ \/ /\ result'[q].path = result[q].path
                /\ result'[q].patch = result[q].patch
             \/ Fits(q, result'[q])
    <3> HIDE DEF entry
    <3>1. /\ active' = {} /\ deferred' = deferred \cup (active \ {r})
          /\ \A q \in Members :
              /\ q \in active => count'[q] = 1
              /\ q \notin active => count'[q] = count[q] /\ result'[q] = result[q]
              /\ q \in active \ {r} => result'[q] = Empty("preempted", cwd[q])
              /\ q = r => result'[q] = entry
      BY <1>2, <1>4, PreemptGives
    <3>2. \A q \in Members : Fits(q, Empty("preempted", cwd[q]))
      BY DEF Fits, Empty
    <3> QED  BY <1>2, <1>3, <3>1, <3>2 DEF OnBooks
  <2>3. active' \cap deferred' = {}
    BY <1>4 DEF Preempt
  <2>4. Spares({})
    BY <1>2, <2>1, <2>2, <2>3 DEF Spares
  <2> QED  BY <2>4
<1>5. CASE Answer(r, entry) /\ active' = active \ {r} /\ deferred' = deferred
  <2>1. S \in SUBSET Rollouts /\ Clear(S) /\ (S = {} \/ S = {r})
        /\ (S = {r} => entry.patch = "none")
    BY <1>1, NothingCleared DEF Reaps
  <2> HIDE DEF entry, S
  <2>2. \A q \in Members :
          /\ q = r => count'[q] = count[q] + 1 /\ result'[q] = entry
          /\ q # r => count'[q] = count[q] /\ result'[q] = result[q]
    BY <1>5 DEF Answer, Members, TypeOK
  <2>3. count[r] = 0 /\ \A q \in S : q = r
    BY <1>2, <2>1 DEF FuturesKept
  <2>4. \A q \in Members :
          /\ OnBooks(q)' => OnBooks(q) /\ q \notin S
          /\ count'[q] = 0 => count[q] = 0 /\ result'[q] = result[q]
          /\ q \in S => result'[q].patch = "none"
          /\ \/ /\ result'[q].path = result[q].path
                /\ result'[q].patch = result[q].patch
             \/ Fits(q, result'[q])
    BY <1>2, <1>3, <1>5, <2>1, <2>2, <2>3 DEF OnBooks
  <2>5. active' \cap deferred' = {}
    BY <1>5 DEF Handed, Housed
  <2>6. Spares(S)
    BY <1>2, <2>1, <2>4, <2>5 DEF Spares
  <2> QED  BY <2>6
<1> QED  BY <1>1, <1>4, <1>5 DEF Reaps

LEMMA ReapRaisedSpares ==
  ASSUME Inv, Handed, NEW r \in Rollouts, ReapRaised(r)
  PROVE  Spares({r})
<1> USE DEF Inv
<1>1. /\ UNCHANGED <<call, quarantined, cwd, edited, deferred>>
      /\ pc \in Early /\ pc' \in Early /\ pc # "out" /\ pc' # "out"
      /\ r \in active /\ r \in Members /\ r \notin deferred /\ count[r] = 0
      /\ Clear({r}) /\ active' = active \ {r}
  BY DEF ReapRaised, calling, killing, work, Early, Handed, Housed, TypeOK,
     FuturesKept
<1>2. \A q \in Members :
        /\ q = r => count'[q] # 0 /\ result'[q] = Empty("raised", 0)
        /\ q # r => count'[q] = count[q] /\ result'[q] = result[q]
  BY <1>1 DEF ReapRaised, Members, TypeOK
<1>3. Fits(r, Empty("raised", 0)) /\ Empty("raised", 0).patch = "none"
  BY DEF Fits, Empty
<1>4. active' \cap deferred' = {}
  BY <1>1 DEF Handed, Housed
<1> QED  BY <1>1, <1>2, <1>3, <1>4 DEF Spares, OnBooks

LEMMA EditHanded ==
  ASSUME Inv, Handed, NEW r \in Rollouts, Edit(r)
  PROVE  Handed'
<1> USE RolloutsAssumption DEF Inv, Handed
<1>1. /\ UNCHANGED <<pc, calling, control, killing, cwd, slot, git, answer>>
      /\ edited' = edited \cup {r} /\ future[r] = "running"
      /\ tree' = [tree EXCEPT ![cwd[r]] = r]
  BY DEF Edit
<1>2. /\ Members' = Members /\ (Settled' <=> Settled)
      /\ \A q \in Rollouts : OnBooks(q)' <=> OnBooks(q)
      /\ Members \subseteq Rollouts
  BY <1>1 DEF Members, Settled, OnBooks, calling, killing, control
<1>3. Settled => /\ r \in Members /\ Holds(r)
                 /\ \/ cwd[r] = r
                    \/ cwd[r] \in Slots /\ slot[cwd[r]] \in {"none", r}
                 /\ tree[cwd[r]] \in {r, "clean"}
  <2>1. Settled => r \in Members
    BY <1>1 DEF FuturesKept, Busy, Settled, Members, TypeOK
  <2>2. Settled => Holds(r)
    BY <1>1 DEF Holds
  <2>3. Settled => \/ cwd[r] = r
                   \/ cwd[r] \in Slots /\ slot[cwd[r]] \in {"none", r}
    BY <2>1, <2>2 DEF Leases
  <2>4. Settled => tree[cwd[r]] \in {r, "clean"}
    BY <2>1, <2>2 DEF HoldersKeepTheirTrees
  <2> QED  BY <2>1, <2>2, <2>3, <2>4
<1>4. \A p \in Paths : p # cwd[r] => tree'[p] = tree[p]
  BY <1>1 DEF TypeOK
<1>5. cwd[r] \in Paths => tree'[cwd[r]] = r
  BY <1>1 DEF TypeOK
<1>6. Placed'
  BY <1>1, <1>2 DEF Placed, answer, calling
<1>7. SlotsKept'
  <2>1. Settled => \A s \in Slots :
          /\ slot[s] = "free" => tree'[s] = "clean"
          /\ slot[s] \in Rollouts =>
               tree'[s] = IF slot[s] \in edited' THEN slot[s] ELSE "clean"
    <3> SUFFICES ASSUME Settled, NEW s \in Slots
                 PROVE  /\ slot[s] = "free" => tree'[s] = "clean"
                        /\ slot[s] \in Rollouts => tree'[s] =
                             IF slot[s] \in edited' THEN slot[s] ELSE "clean"
      OBVIOUS
    <3>1. CASE s = cwd[r]
      <4>1. tree'[s] = r
        BY <1>5, <3>1 DEF Paths
      <4>2. slot[s] \in {"none", r}
        BY <1>3, <3>1
      <4> QED  BY <1>1, <4>1, <4>2
    <3>2. CASE s # cwd[r]
      <4>1. tree'[s] = tree[s]
        BY <1>4, <3>2 DEF Paths
      <4>2. slot[s] # r
        BY <3>2 DEF Leases
      <4> QED  BY <1>1, <4>1, <4>2 DEF SlotsKept
    <3> QED  BY <3>1, <3>2
  <2> QED  BY <1>1, <1>2, <2>1 DEF SlotsKept
<1>8. Housed'
  <2>1. Settled => \A q \in Members : OnBooks(q) /\ cwd[q] = q =>
          tree'[q] = IF q \in edited' THEN q ELSE "clean"
    <3> SUFFICES ASSUME Settled, NEW q \in Members, OnBooks(q), cwd[q] = q
                 PROVE  tree'[q] = IF q \in edited' THEN q ELSE "clean"
      OBVIOUS
    <3>1. CASE q = r
      BY <1>1, <1>2, <1>5, <3>1 DEF Paths
    <3>2. CASE q # r
      <4>1. q # cwd[r] /\ q \in Paths
        BY <1>2, <1>3, <3>2 DEF Paths
      <4> QED  BY <1>1, <1>4, <3>2, <4>1 DEF Housed
    <3> QED  BY <3>1, <3>2
  <2> QED  BY <1>1, <1>2, <2>1 DEF Housed, control, killing
<1>9. PatchesStand'
  <2> SUFFICES ASSUME Settled, NEW q \in Members, result[q].patch = q
               PROVE  tree'[result[q].path] = q
    BY <1>1, <1>2 DEF PatchesStand, answer
  <2>1. result[q].path \in Paths /\ tree[result[q].path] = q /\ q # "clean"
    BY <1>2 DEF Placed, PatchesStand
  <2>2. CASE result[q].path = cwd[r]
    BY <1>3, <1>5, <2>1, <2>2
  <2>3. CASE result[q].path # cwd[r]
    BY <1>4, <2>1, <2>3
  <2> QED  BY <2>2, <2>3
<1> QED  BY <1>6, <1>7, <1>8, <1>9

LEMMA CallHanded ==
  ASSUME Inv, Handed, Call
  PROVE  Handed'
<1> USE RolloutsAssumption DEF Inv, Handed
<1>1. /\ pc = "out" /\ pc' = "dispatch" /\ call' = call + 1 /\ deferred' = {}
      /\ UNCHANGED <<active, cwd, slot, tree, git, edited, quarantined>>
      /\ active = {} /\ \A s \in Slots : slot[s] = "none"
  BY DEF Call, work, disk, FuturesKept, Later, Leases
<1>2. \A r \in Members' : /\ r \in Rollouts /\ cwd[r] = 0
                          /\ result'[r] = NoResult
  BY <1>1 DEF Call, Members, Placed, TypeOK
<1>3. NoResult.patch = "none" /\ NoResult.path = 0
  BY DEF NoResult, Empty
<1>4. \A r \in Rollouts : /\ cwd'[r] \in {0, r} \cup Slots
                          /\ Of[r] > call' => cwd'[r] = 0
  BY <1>1 DEF Placed, TypeOK
<1>5. Placed'
  BY <1>2, <1>3, <1>4 DEF Placed
<1>6. SlotsKept' /\ Housed'
  BY <1>1, <1>2, Zero DEF SlotsKept, Housed, OnBooks, Paths
<1>7. PatchesStand'
  BY <1>2, <1>3 DEF PatchesStand
<1> QED  BY <1>5, <1>6, <1>7

LEMMA QuarantineHanded ==
  ASSUME Inv, Handed, Quarantine
  PROVE  Handed'
<1> USE RolloutsAssumption DEF Inv, Handed
<1> DEFINE late == {r \in deferred : ~Done(r)}
<1>1. /\ UNCHANGED <<calling, control, deferred, cwd, edited, tree, git,
                     answer>>
      /\ pc = "grace" /\ pc' = "recover" /\ active = {}
      /\ quarantined' = quarantined \cup late
      /\ \A s \in Slots :
           slot'[s] = IF slot[s] \in late THEN "none" ELSE slot[s]
  BY DEF Quarantine, work, FuturesKept
<1>2. /\ Members' = Members /\ (Settled' <=> Settled)
      /\ late \subseteq deferred /\ deferred \subseteq Members
      /\ Members \subseteq Rollouts
      /\ \A q \in Members : q \notin quarantined
  BY <1>1 DEF Members, Settled, calling, TypeOK, FuturesKept, Early
<1> HIDE DEF late
<1>3. \A q \in Members : OnBooks(q)' => OnBooks(q) /\ q \in deferred
  BY <1>1 DEF OnBooks, Early, control
<1>4. Placed'
  BY <1>1, <1>2 DEF Placed, answer, calling
<1>5. SlotsKept'
  BY <1>1, <1>2 DEF SlotsKept, Early
<1>6. \A q \in Members : OnBooks(q)' =>
        \/ cwd[q] = q
        \/ /\ cwd[q] \in Slots
           /\ slot'[cwd[q]] = IF q \in quarantined' THEN "none" ELSE q
  <2> SUFFICES ASSUME NEW q \in Members, OnBooks(q)', cwd[q] # q
               PROVE  /\ cwd[q] \in Slots
                      /\ slot'[cwd[q]] = IF q \in quarantined' THEN "none"
                                         ELSE q
    OBVIOUS
  <2>1. cwd[q] \in Slots /\ slot[cwd[q]] = q /\ q \notin quarantined
    BY <1>2, <1>3 DEF Housed
  <2>2. slot'[cwd[q]] = IF q \in late THEN "none" ELSE q
    BY <1>1, <2>1
  <2>3. q \in quarantined' <=> q \in late
    BY <1>1, <2>1
  <2> QED  BY <2>1, <2>2, <2>3
<1>7. Housed'
  BY <1>1, <1>2, <1>3, <1>6 DEF Housed, control
<1>8. PatchesStand'
  BY <1>1, <1>2 DEF PatchesStand, answer
<1> QED  BY <1>4, <1>5, <1>7, <1>8

LEMMA PromoteHanded ==
  ASSUME Inv, Handed, Promote
  PROVE  Handed'
<1> USE RolloutsAssumption DEF Inv, Handed
<1>1. /\ UNCHANGED <<calling, control, killing, cwd, edited, count>>
      /\ pc = "promote" /\ pc' = "out" /\ active = {}
      /\ \A s \in Slots : slot'[s] = "none"
      /\ \A p \in Paths : tree'[p] =
           IF p \in Rollouts
           THEN IF Leased(p) THEN tree[Branch(p)] ELSE tree[p]
           ELSE IF slot[p] = "none" THEN tree[p] ELSE "absent"
      /\ \A r \in Rollouts : result'[r] =
           IF count[r] > 0 /\ Leased(r) THEN [result[r] EXCEPT !.path = r]
           ELSE result[r]
  BY DEF Promote, work, FuturesKept, Later
<1>2. /\ Members' = Members /\ (Settled' <=> Settled)
      /\ Members \subseteq Rollouts
  BY <1>1 DEF Members, Settled, calling, killing
<1>3. \A r \in Rollouts : Leased(r) => Branch(r) \in Slots /\ Branch(r) = cwd[r]
  BY DEF Leased, Branch, Leases
<1>4. \A r \in Members :
        /\ result'[r].patch = result[r].patch
        /\ result'[r].path = IF count[r] > 0 /\ Leased(r) THEN r
                             ELSE result[r].path
        /\ count[r] = 0 => result'[r] = result[r]
  <2> TAKE r \in Members
  <2>1. result[r] \in Results /\ r \in Rollouts /\ ~(0 > 0)
    BY <1>2 DEF TypeOK
  <2>2. [result[r] EXCEPT !.path = r].patch = result[r].patch
        /\ [result[r] EXCEPT !.path = r].path = r
    BY <2>1 DEF Results
  <2>3. CASE count[r] > 0 /\ Leased(r)
    <3>1. result'[r] = [result[r] EXCEPT !.path = r] /\ count[r] # 0
      BY <1>1, <2>1, <2>3
    <3> QED  BY <2>2, <2>3, <3>1
  <2>4. CASE ~(count[r] > 0 /\ Leased(r))
    <3>1. result'[r] = result[r]
      BY <1>1, <2>1, <2>4
    <3> QED  BY <2>4, <3>1
  <2> QED  BY <2>3, <2>4
<1>5. Placed'
  BY <1>1, <1>2, <1>4 DEF Placed, Paths, calling
<1>6. SlotsKept' /\ Housed'
  BY <1>1, <1>2 DEF SlotsKept, Housed, OnBooks, Early, control
<1>7. PatchesStand'
  <2> SUFFICES ASSUME Settled, NEW q \in Members, result[q].patch = q
               PROVE  tree'[result'[q].path] = q
    BY <1>2, <1>4 DEF PatchesStand
  <2>1. /\ result[q].path = cwd[q] /\ cwd[q] \in Paths /\ tree[cwd[q]] = q
        /\ q # "clean" /\ q # "absent" /\ q # "none" /\ q \in Rollouts
    BY <1>1, <1>2, Zero DEF Placed, PatchesStand
  <2>2. count[q] > 0
    <3>1. count[q] # 0
      BY <2>1 DEF Placed, NoResult, Empty
    <3> QED  BY <2>1, <3>1 DEF TypeOK
  <2>3. CASE Leased(q)
    BY <1>1, <1>3, <1>4, <2>1, <2>2, <2>3 DEF Paths
  <2>4. CASE ~Leased(q) /\ cwd[q] = q
    BY <1>1, <1>4, <2>1, <2>4 DEF Paths
  <2>5. CASE ~Leased(q) /\ cwd[q] \in Slots
    <3>1. slot[cwd[q]] # q
      BY <2>5 DEF Leased
    <3>2. slot[cwd[q]] = "none"
      <4>1. slot[cwd[q]] \in Rollouts \cup {"none", "free"}
        BY <2>5 DEF TypeOK
      <4>2. slot[cwd[q]] # "free"
        BY <2>1, <2>5 DEF SlotsKept
      <4>3. slot[cwd[q]] \notin Rollouts
        BY <2>1, <2>5, <3>1 DEF SlotsKept
      <4> QED  BY <4>1, <4>2, <4>3
    <3> QED  BY <1>1, <1>4, <2>1, <2>5, <3>2 DEF Paths
  <2> QED  BY <2>1, <2>3, <2>4, <2>5, Zero DEF Placed
<1> QED  BY <1>5, <1>6, <1>7

LEMMA PrepareHanded ==
  ASSUME Inv, Handed, NEW r \in Rollouts, Prepare(r)
  PROVE  Handed'
<1> USE RolloutsAssumption DEF Inv, Handed
<1>1. /\ UNCHANGED <<pc, calling, active, deferred, quarantined, edited, answer>>
      /\ pc = "dispatch" /\ r \in Members /\ r \in pending /\ count[r] = 0
      /\ future[r] = "none" /\ r \notin edited
      /\ r \notin active /\ r \notin deferred
  BY DEF Prepare, killing, TypeOK, FuturesKept, Idle, Early
<1>2. /\ Members' = Members /\ (Settled' <=> Settled)
      /\ Members \subseteq Rollouts
      /\ \A q \in Members : OnBooks(q)' => OnBooks(q) /\ q # r
      /\ \A q \in Members : q \notin quarantined
  BY <1>1 DEF Members, Settled, OnBooks, calling, FuturesKept, Early
<1>3. result[r].patch = "none" /\ result[r].path = 0
  BY <1>1 DEF Placed, NoResult, Empty
<1>4. \A q \in Members : OnBooks(q) =>
        cwd[q] = q \/ (cwd[q] \in Slots /\ slot[cwd[q]] = q)
  BY <1>2 DEF Housed
<1>5. CASE Claim(r)
  <2>1. PICK s \in Slots :
          /\ Claims(s) /\ cwd' = [cwd EXCEPT ![r] = s]
          /\ slot' = [slot EXCEPT ![s] = r]
          /\ tree' = [p \in Paths |->
               CASE p = s -> "clean"
                 [] p # s /\ slot[s] = "none" /\ git[p] = s -> "absent"
                 [] OTHER -> tree[p]]
          /\ git' = [p \in Paths |-> IF p = s THEN s
                                     ELSE IF git[p] = s THEN 0 ELSE git[p]]
    BY <1>5 DEF Claim
  <2>2. slot[s] \in {"free", "none"} /\ s \in Paths /\ s \notin Rollouts
    BY <2>1 DEF Claims, With, Paths
  <2>3. /\ cwd'[r] = s /\ slot'[s] = r /\ git'[s] = s /\ tree'[s] = "clean"
        /\ \A t \in Slots : t # s => slot'[t] = slot[t]
        /\ \A q \in Rollouts : q # r => cwd'[q] = cwd[q]
        /\ \A p \in Paths : p # s => /\ git'[p] \in {git[p], 0}
                                     /\ git[p] # s => tree'[p] = tree[p]
    BY <2>1, <2>2 DEF TypeOK
  <2>4. \A t \in Slots : t # s /\ slot[t] # "none" =>
          tree'[t] = tree[t] /\ git'[t] \in {t, 0}
    BY <2>2, <2>3, Zero DEF SlotsKept, Paths
  <2>5. \A q \in Members : cwd[q] = q =>
          git'[q] \in {q, 0} /\ tree'[q] = tree[q]
    <3> TAKE q \in Members
    <3>1. cwd[q] = q => git[q] \in {q, 0}
      BY <1>1 DEF Housed
    <3>2. q \in Paths /\ q # s /\ s # 0
      BY <1>2, <2>2, Zero DEF Paths
    <3> QED  BY <2>3, <3>1, <3>2
  <2>6. Placed'
    BY <1>1, <1>2, <1>3, <2>2, <2>3 DEF Placed, answer, calling, Members
  <2>7. SlotsKept'
    <3>1. \A t \in Slots : slot'[t] # "none" => git'[t] \in {t, 0}
      BY <2>3, <2>4
    <3>2. \A q \in Members : cwd'[q] \in Slots => slot'[cwd'[q]] # "none"
      <4> SUFFICES ASSUME NEW q \in Members, cwd'[q] \in Slots
                   PROVE  slot'[cwd'[q]] # "none"
        OBVIOUS
      <4>1. CASE cwd'[q] = s
        BY <2>3, <4>1
      <4>2. CASE cwd'[q] # s
        <5>1. cwd'[q] = cwd[q]
          BY <1>2, <2>3, <4>2
        <5>2. slot[cwd[q]] # "none"
          BY <1>1, <5>1 DEF SlotsKept, Early
        <5>3. cwd[q] \in Slots \ {s}
          BY <4>2, <5>1
        <5>4. slot'[cwd[q]] = slot[cwd[q]]
          BY <2>3, <5>3
        <5> QED  BY <5>1, <5>2, <5>4
      <4> QED  BY <4>1, <4>2
    <3>3. Settled => \A t \in Slots :
            /\ slot'[t] = "free" => tree'[t] = "clean"
            /\ slot'[t] \in Rollouts =>
                 tree'[t] = IF slot'[t] \in edited THEN slot'[t] ELSE "clean"
      <4> SUFFICES ASSUME Settled, NEW t \in Slots
                   PROVE  /\ slot'[t] = "free" => tree'[t] = "clean"
                          /\ slot'[t] \in Rollouts => tree'[t] =
                               IF slot'[t] \in edited THEN slot'[t] ELSE "clean"
        OBVIOUS
      <4>1. CASE t = s
        BY <1>1, <2>3, <4>1
      <4>2. CASE t # s
        <5>1. slot'[t] = slot[t] /\ (slot[t] # "none" => tree'[t] = tree[t])
          BY <2>3, <2>4, <4>2
        <5>2. "none" \notin Rollouts
          OBVIOUS
        <5> QED  BY <5>1, <5>2 DEF SlotsKept
      <4> QED  BY <4>1, <4>2
    <3> QED  BY <1>1, <1>2, <3>1, <3>2, <3>3 DEF SlotsKept
  <2>8. Housed'
    <3>1. \A q \in Members : cwd'[q] = q =>
            cwd[q] = q /\ git'[q] \in {q, 0}
      BY <1>2, <2>2, <2>3, <2>5
    <3>2. \A q \in Members : OnBooks(q)' =>
            \/ cwd'[q] = q
            \/ cwd'[q] \in Slots /\ slot'[cwd'[q]] = q
      <4> SUFFICES ASSUME NEW q \in Members, OnBooks(q)', cwd'[q] # q
                   PROVE  cwd'[q] \in Slots /\ slot'[cwd'[q]] = q
        OBVIOUS
      <4>1. q # r /\ q \in Rollouts /\ OnBooks(q)
        BY <1>2
      <4>2. cwd'[q] = cwd[q]
        BY <2>3, <4>1
      <4>3. cwd[q] \in Slots /\ slot[cwd[q]] = q
        BY <1>4, <4>1, <4>2
      <4>4. cwd[q] # s
        BY <2>2, <4>1, <4>3
      <4>5. slot'[cwd[q]] = slot[cwd[q]]
        BY <2>3, <4>3, <4>4
      <4> QED  BY <4>2, <4>3, <4>5
    <3>3. Settled => \A q \in Members : OnBooks(q)' /\ cwd'[q] = q =>
            tree'[q] = IF q \in edited THEN q ELSE "clean"
      BY <1>2, <2>3, <2>5 DEF Housed
    <3> QED  BY <1>1, <1>2, <3>1, <3>2, <3>3 DEF Housed
  <2>9. PatchesStand'
    <3> SUFFICES ASSUME Settled, NEW q \in Members, result[q].patch = q
                 PROVE  tree'[result[q].path] = q
      BY <1>1, <1>2 DEF PatchesStand, answer
    <3>1. /\ result[q].path = cwd[q] /\ cwd[q] \in Paths /\ tree[cwd[q]] = q
          /\ q # "clean" /\ q # "none" /\ q \in Rollouts /\ q # r
      BY <1>1, <1>2, <1>3, Zero DEF Placed, PatchesStand
    <3>2. CASE cwd[q] = q
      BY <2>5, <3>1, <3>2
    <3>3. CASE cwd[q] \in Slots
      <4>1. slot[cwd[q]] # "none"
        BY <1>1, <3>3 DEF SlotsKept, Early
      <4>2. cwd[q] # s
        BY <2>2, <3>1, <3>3, <4>1 DEF SlotsKept
      <4> QED  BY <2>4, <3>1, <3>3, <4>1, <4>2
    <3> QED  BY <3>1, <3>2, <3>3, Zero DEF Placed
  <2> QED  BY <2>6, <2>7, <2>8, <2>9
<1>6. CASE MakeOwn(r)
  <2>1. /\ cwd'[r] = r /\ slot' = slot /\ git'[r] = r /\ tree'[r] = "clean"
        /\ \A q \in Rollouts : q # r => cwd'[q] = cwd[q]
        /\ \A p \in Paths : p # r => git'[p] = git[p] /\ tree'[p] = tree[p]
        /\ r \notin Slots
    BY <1>6 DEF MakeOwn, TypeOK, Paths
  <2>2. \A t \in Slots : t # r /\ git'[t] = git[t] /\ tree'[t] = tree[t]
    BY <2>1 DEF Paths
  <2>3. \A q \in Rollouts : q # r => git'[q] = git[q] /\ tree'[q] = tree[q]
    BY <2>1 DEF Paths
  <2>4. Placed'
    BY <1>1, <1>2, <1>3, <2>1 DEF Placed, answer, calling, Members
  <2>5. SlotsKept'
    BY <1>1, <1>2, <2>1, <2>2 DEF SlotsKept
  <2>6. Housed'
    <3>1. \A q \in Members : cwd'[q] = q => git'[q] \in {q, 0}
      BY <1>1, <1>2, <2>1, <2>3 DEF Housed
    <3>2. \A q \in Members : OnBooks(q)' =>
            \/ cwd'[q] = q
            \/ cwd'[q] \in Slots /\ slot'[cwd'[q]] = q
      BY <1>2, <1>4, <2>1
    <3>3. Settled => \A q \in Members : OnBooks(q)' /\ cwd'[q] = q =>
            tree'[q] = IF q \in edited THEN q ELSE "clean"
      BY <1>2, <2>1, <2>3 DEF Housed
    <3> QED  BY <1>1, <1>2, <3>1, <3>2, <3>3 DEF Housed
  <2>7. PatchesStand'
    <3> SUFFICES ASSUME Settled, NEW q \in Members, result[q].patch = q
                 PROVE  tree'[result[q].path] = q
      BY <1>1, <1>2 DEF PatchesStand, answer
    <3>1. /\ result[q].path = cwd[q] /\ cwd[q] \in Paths /\ tree[cwd[q]] = q
          /\ q # "none" /\ q \in Rollouts /\ q # r
      BY <1>1, <1>2, <1>3, Zero DEF Placed, PatchesStand
    <3> QED  BY <2>1, <3>1 DEF Placed
  <2> QED  BY <2>4, <2>5, <2>6, <2>7
<1> QED  BY <1>5, <1>6 DEF Prepare

LEMMA InitHanded == Init => Handed
<1> USE RolloutsAssumption
<1> SUFFICES ASSUME Init PROVE Handed
  OBVIOUS
<1>1. /\ Members = {} /\ active = {} /\ pc = "out"
      /\ \A s \in Slots : slot[s] = "none"
      /\ \A r \in Rollouts : cwd[r] = 0
  BY DEF Init, Members
<1> QED  BY <1>1 DEF Handed, Placed, SlotsKept, Housed, PatchesStand, Early

LEMMA NextHanded ==
  ASSUME Inv, Handed, [Next]_vars
  PROVE  Handed'
<1>1. CASE UNCHANGED vars
  <2>1. Spares({})
    <3>1. UNCHANGED <<pc, call, active, deferred, quarantined, cwd, edited,
                      disk, count, result>>
      BY <1>1 DEF vars, calling, control, killing, work, answer
    <3>2. Clear({})
      BY <3>1, NothingCleared DEF Inv
    <3> QED  BY <3>1, <3>2 DEF Spares, OnBooks, Handed, Housed
  <2> QED  BY <2>1, SparesHanded
<1>2. CASE Call
  BY <1>2, CallHanded
<1>3. CASE \E r \in Rollouts : Worker(r)
  BY <1>3, EditHanded, WorkerSpares, SparesHanded DEF Worker
<1>4. CASE Ending
  BY <1>4, QuarantineHanded, RecoverSpares, LateSpares, PromoteHanded,
     SparesHanded DEF Ending
<1>5. CASE Looping
  BY <1>5, LoopSpares, TickSpares, SetupSpares, PrepareHanded, ReapSpares,
     ReapRaisedSpares, SparesHanded DEF Looping
<1> QED  BY <1>1, <1>2, <1>3, <1>4, <1>5 DEF Next, Scheduler

LEMMA HandedInvariance == Spec => [](Inv /\ Handed)
<1>1. Inv /\ Inv' /\ Handed /\ [Next]_vars => Handed'
  BY NextHanded
<1> QED  BY <1>1, Invariance, InitHanded, PTL DEF Spec

\* A patch comes back with the workspace it was taken from, whatever the
\* caller's predicate does.
THEOREM PatchesComeWithTrees == Spec => []HandedOverTreesStand
<1>1. Handed => HandedOverTreesStand
  BY DEF Handed, PatchesStand, HandedOverTreesStand
<1> QED  BY <1>1, HandedInvariance, PTL

----------------------------------------------------------------------------
(***************************************************************************)
(* Passes that come back.  A worker that ends puts its verdict in its      *)
(* status file before the future is done, so whoever is given up and ends  *)
(* in time is credited from there; all the others are reaped.              *)
(***************************************************************************)

\* A worker that verified a full pass has told so in its status file.
Told ==
  /\ \A r \in Members \ quarantined :
       /\ future[r] \in Idle \cup {"running"} => status[r] # "cancelled"
       /\ verdict[r] = "pass" /\ future[r] \in {"ending", "returned"} =>
            status[r] \in {"finished", "escrowed"}
  /\ \A r \in Rollouts : Of[r] > call => status[r] = "none"

\* The answer of a rollout that was given up, until it is recovered.
GivenUp ==
  pc \in Early \cup {"recover"} => \A r \in deferred :
    /\ count[r] # 0
    /\ \E why \in {"stalled", "silent", "preempted"} :
         result[r] = Empty(why, cwd[r])

\* A pass with edits that came to an end.
Passed(r) == /\ future[r] = "returned" /\ r \notin quarantined
             /\ verdict[r] = "pass" /\ r \in edited
\* It has its patch; success may wait for the status files to be read.
Credited(r) == /\ result[r].patch = r /\ count[r] # 0
               /\ result[r].success \/ (pc = "late" /\ r \in deferred)
PassesKept ==
  Settled => \A r \in Members : Passed(r) /\ ~OnBooks(r) => Credited(r)

LEMMA ToldWorkers ==
  ASSUME Inv, Told, NEW r \in Rollouts, Worker(r)
  PROVE  Told'
<1> USE DEF Inv
<1>1. UNCHANGED <<call, quarantined>> /\ Of[r] \in Nat /\ call \in Nat
  BY RolloutsAssumption DEF Worker, Start, Edit, Verify, Finish, Finalize,
     Return, Raise, calling, killing, TypeOK
<1>2. ~(Of[r] > call)
  BY DEF Worker, Start, Edit, Verify, Finish, Finalize, Return, Raise,
     FuturesKept
<1>3. \A q \in Rollouts : q # r =>
        /\ future'[q] = future[q] /\ status'[q] = status[q]
        /\ verdict'[q] = verdict[q]
  BY DEF Worker, Start, Edit, Verify, Finish, Finalize, Return, Raise,
     TypeOK, Written, work
<1>4. r \in Members \ quarantined =>
        /\ future'[r] \in Idle \cup {"running"} => status'[r] # "cancelled"
        /\ verdict'[r] = "pass" /\ future'[r] \in {"ending", "returned"} =>
             status'[r] \in {"finished", "escrowed"}
  <2> SUFFICES ASSUME r \in Members \ quarantined
               PROVE  /\ future'[r] \in Idle \cup {"running"} =>
                           status'[r] # "cancelled"
                      /\ verdict'[r] = "pass"
                         /\ future'[r] \in {"ending", "returned"} =>
                           status'[r] \in {"finished", "escrowed"}
    OBVIOUS
  <2>1. CASE Start(r)
    BY <2>1 DEF Start, Written, Told, Idle, TypeOK, work
  <2>2. CASE Edit(r)
    BY <2>2 DEF Edit, Told, Idle
  <2>3. CASE Verify(r)
    BY <2>3 DEF Verify, Told, Idle, TypeOK
  <2>4. CASE Finish(r)
    BY <2>4 DEF Finish, Written, Told, Idle, TypeOK, work
  <2>5. CASE Finalize(r)
    BY <2>5 DEF Finalize, Written, Told, Idle, TypeOK, work
  <2>6. CASE Return(r)
    BY <2>6 DEF Return, Told, Idle, TypeOK, work
  <2>7. CASE Raise(r)
    BY <2>7 DEF Raise, Told, Idle, TypeOK, work
  <2> QED  BY <2>1, <2>2, <2>3, <2>4, <2>5, <2>6, <2>7 DEF Worker
<1>5. Members' = Members /\ Members \subseteq Rollouts
  BY <1>1 DEF Members
<1>6. \A q \in Rollouts : Of[q] > call => status'[q] = "none"
  BY <1>2, <1>3 DEF Told
<1>7. \A q \in Members \ quarantined :
        /\ future'[q] \in Idle \cup {"running"} => status'[q] # "cancelled"
        /\ verdict'[q] = "pass" /\ future'[q] \in {"ending", "returned"} =>
             status'[q] \in {"finished", "escrowed"}
  BY <1>3, <1>4, <1>5 DEF Told
<1> QED  BY <1>1, <1>5, <1>6, <1>7 DEF Told

\* The scheduler writes a status file where the worker has ended, or takes
\* the rollout out of the game.
LEMMA ToldScheduler ==
  ASSUME Inv, Told, Call \/ Scheduler
  PROVE  Told'
<1> USE DEF Inv
<1>1. CASE Call
  <2>1. /\ call' = call + 1 /\ UNCHANGED <<quarantined, future, status, verdict>>
        /\ call \in Nat /\ \A r \in Rollouts : Of[r] \in Nat
    BY <1>1, RolloutsAssumption DEF Call, work, TypeOK
  <2>2. \A r \in Members' : r \in Rollouts /\ Of[r] > call
    BY <2>1 DEF Members
  <2>3. \A r \in Members' : status[r] = "none" /\ future[r] = "none"
    BY <2>2 DEF Told, FuturesKept
  <2>4. \A r \in Rollouts : Of[r] > call' => Of[r] > call
    BY <2>1
  <2> QED  BY <2>1, <2>3, <2>4 DEF Told
<1>2. CASE Quarantine
  <2> DEFINE late == {r \in deferred : ~Done(r)}
  <2>1. /\ UNCHANGED <<call, future, verdict>>
        /\ quarantined' = quarantined \cup late
        /\ \A r \in Rollouts :
             status'[r] = IF r \in late THEN "cancelled" ELSE status[r]
    BY <1>2 DEF Quarantine, calling, work
  <2>2. /\ Members' = Members /\ Members \subseteq Rollouts
        /\ late \subseteq Members
    BY <2>1 DEF Members, TypeOK
  <2>3. \A r \in Rollouts : Of[r] > call => r \notin late
    BY <2>2, RolloutsAssumption DEF Members, TypeOK
  <2> HIDE DEF late
  <2> QED  BY <2>1, <2>2, <2>3 DEF Told
<1>3. CASE \E r \in Rollouts : ReapRaised(r)
  <2>1. PICK r \in Rollouts : ReapRaised(r)
    BY <1>3
  <2>2. /\ UNCHANGED <<call, future, verdict, quarantined>>
        /\ future[r] \in {"raised", "returned"} /\ r \in Members
        /\ status' = Written(r, "finished")
    BY <2>1 DEF ReapRaised, Raises, calling, work, killing, TypeOK
  <2>3. \A q \in Rollouts :
          /\ q # r => status'[q] = status[q]
          /\ q = r => status'[q] \in {status[q], "finished"}
    BY <2>2 DEF Written, TypeOK
  <2>4. Members' = Members /\ Members \subseteq Rollouts /\ ~(Of[r] > call)
    BY <2>2, RolloutsAssumption DEF Members, TypeOK
  <2> QED  BY <2>2, <2>3, <2>4 DEF Told, Idle
<1>4. CASE \/ Submit \/ Wait \/ Tick \/ Emergency \/ DrainExpires
           \/ \E S \in SUBSET Rollouts : Expire(S)
           \/ \E r \in Rollouts : Prepare(r) \/ SetupFails(r) \/ Reap(r)
           \/ Recover \/ Late \/ Promote
  <2>1. UNCHANGED <<call, verdict, status, quarantined>>
    BY <1>4 DEF Submit, Wait, Tick, Emergency, DrainExpires, Expire, Abandon,
       Prepare, SetupFails, Reap, Recover, Late, Promote, calling, killing,
       work
  <2>2. \A q \in Rollouts : \/ future'[q] = future[q]
                            \/ future[q] \in Idle /\ future'[q] # "running"
                               /\ future'[q] \notin {"ending", "returned"}
    <3> SUFFICES ASSUME NEW q \in Rollouts
                 PROVE  \/ future'[q] = future[q]
                        \/ future[q] \in Idle /\ future'[q] # "running"
                           /\ future'[q] \notin {"ending", "returned"}
      OBVIOUS
    <3>1. CASE Submit
      BY <3>1 DEF Submit, Prepared, Idle
    <3>2. CASE Emergency \/ DrainExpires \/ \E S \in SUBSET Rollouts : Expire(S)
      BY <3>2 DEF Emergency, DrainExpires, Expire, Abandon, Idle
    <3>3. CASE \E r \in Rollouts : Prepare(r)
      BY <3>3 DEF Prepare, TypeOK, FuturesKept, Idle
    <3>4. CASE \E r \in Rollouts : Reap(r)
      BY <3>4 DEF Reap, Preempt, Idle
    <3>5. CASE \/ Wait \/ Tick \/ Recover \/ Late \/ Promote
               \/ \E r \in Rollouts : SetupFails(r)
      BY <3>5 DEF Wait, Tick, Recover, Late, Promote, SetupFails
    <3> QED  BY <1>4, <3>1, <3>2, <3>3, <3>4, <3>5
  <2>3. Members' = Members /\ Members \subseteq Rollouts
    BY <2>1 DEF Members
  <2> QED  BY <2>1, <2>2, <2>3 DEF Told, Idle
<1> QED  BY <1>1, <1>2, <1>3, <1>4 DEF Scheduler, Looping, Ending

\* The answers given to the rollouts S.
LEMMA AbandonGives ==
  ASSUME Inv, NEW S \in SUBSET active, NEW why, Abandon(S, why)
  PROVE  /\ active' = active \ S /\ deferred' = deferred \cup S
         /\ \A q \in Members :
              /\ q \in S => count'[q] # 0 /\ result'[q] = Empty(why, cwd[q])
              /\ q \notin S => count'[q] = count[q] /\ result'[q] = result[q]
<1>1. \A q \in Members : q \in Rollouts /\ count[q] \in Nat
  BY DEF Inv, Members, TypeOK
<1>2. \A q \in Members :
        /\ count'[q] = count[q] + IF q \in S THEN 1 ELSE 0
        /\ result'[q] = IF q \in S THEN Empty(why, cwd[q]) ELSE result[q]
  BY <1>1 DEF Abandon
<1>3. \A q \in Members : /\ q \in S => count'[q] # 0
                         /\ q \notin S => count'[q] = count[q]
  BY <1>1, <1>2
<1> QED  BY <1>2, <1>3 DEF Abandon

LEMMA GivenUpNext ==
  ASSUME Inv, Handed, GivenUp, Next
  PROVE  GivenUp'
<1> USE DEF Inv
<1>1. deferred \subseteq Members /\ Members \subseteq Rollouts
  BY DEF TypeOK, Members
<1>2. CASE \/ \E r \in Rollouts : Worker(r)
           \/ Submit \/ Wait \/ Tick \/ Quarantine
  <2>1. /\ UNCHANGED <<deferred, cwd, count, result>>
        /\ pc' = pc \/ pc \in Early
    BY <1>2 DEF Worker, Start, Edit, Verify, Finish, Finalize, Return, Raise,
       Submit, Wait, Tick, Quarantine, killing, work, answer, Early
  <2> QED  BY <2>1 DEF GivenUp
<1>3. CASE Call
  BY <1>3 DEF Call, GivenUp
<1>4. CASE Recover \/ Late \/ Promote
  BY <1>4 DEF Recover, Late, Promote, GivenUp, Early
<1>5. CASE \E r \in Rollouts : Prepare(r) \/ SetupFails(r)
  <2>1. PICK r \in Rollouts : Prepare(r) \/ SetupFails(r)
    BY <1>5
  <2>2. /\ deferred' = deferred /\ pc = "dispatch"
        /\ r \notin deferred
        /\ \A q \in Rollouts : q # r => /\ cwd'[q] = cwd[q]
                                        /\ count'[q] = count[q]
                                        /\ result'[q] = result[q]
    BY <2>1 DEF Prepare, Claim, MakeOwn, SetupFails, Answer, killing, work,
       answer, FuturesKept, Idle, TypeOK
  <2> QED  BY <1>1, <2>2 DEF GivenUp, Early
<1>6. CASE Emergency \/ DrainExpires \/ \E S \in SUBSET Rollouts : Expire(S)
  <2>1. PICK S \in SUBSET active, why \in {"stalled", "silent", "preempted"} :
          Abandon(S, why)
    BY <1>6 DEF Emergency, DrainExpires, Expire, MayStall
  <2>2. cwd' = cwd /\ pc = "tick" /\ S \subseteq Members
    BY <1>6, <2>1 DEF Emergency, DrainExpires, Expire, Abandon, work, TypeOK
  <2>3. /\ deferred' = deferred \cup S
        /\ \A q \in Members :
              /\ q \in S => count'[q] # 0 /\ result'[q] = Empty(why, cwd[q])
              /\ q \notin S => count'[q] = count[q] /\ result'[q] = result[q]
    BY <2>1, AbandonGives
  <2> QED  BY <1>1, <2>2, <2>3 DEF GivenUp, Early
<1>7. CASE \E r \in Rollouts : Reap(r)
  <2>1. PICK r \in Rollouts, s \in BOOLEAN : Reaps(r, Outcome(r, s))
    BY <1>7, ReapReaps
  <2>2. /\ cwd' = cwd /\ pc = "reap" /\ r \in active /\ r \notin deferred
        /\ r \in Members
    BY <2>1 DEF Reaps, Handed, Housed
  <2>3. CASE Preempt(r, Outcome(r, s))
    <3>1. /\ deferred' = deferred \cup (active \ {r})
          /\ \A q \in Members :
               /\ q \in active => count'[q] = 1
               /\ q \notin active => /\ count'[q] = count[q]
                                     /\ result'[q] = result[q]
               /\ q \in active \ {r} => result'[q] = Empty("preempted", cwd[q])
      BY <2>2, <2>3, PreemptGives
    <3>2. deferred \cap active = {} /\ active \subseteq Members
      BY DEF Handed, Housed, TypeOK
    <3> QED  BY <1>1, <2>2, <3>1, <3>2 DEF GivenUp, Early
  <2>4. CASE Answer(r, Outcome(r, s)) /\ deferred' = deferred
    <3>1. \A q \in Rollouts : q # r => /\ count'[q] = count[q]
                                       /\ result'[q] = result[q]
      BY <2>4 DEF Answer, TypeOK
    <3> QED  BY <1>1, <2>2, <2>4, <3>1 DEF GivenUp, Early
  <2> QED  BY <2>1, <2>3, <2>4 DEF Reaps
<1>8. CASE \E r \in Rollouts : ReapRaised(r)
  <2>1. PICK r \in Rollouts : ReapRaised(r)
    BY <1>8
  <2>2. /\ UNCHANGED <<cwd, deferred>> /\ pc = "reap" /\ r \notin deferred
        /\ \A q \in Rollouts : q # r => /\ count'[q] = count[q]
                                        /\ result'[q] = result[q]
    BY <2>1 DEF ReapRaised, killing, work, Handed, Housed, TypeOK
  <2> QED  BY <1>1, <2>2 DEF GivenUp, Early
<1> QED  BY <1>2, <1>3, <1>4, <1>5, <1>6, <1>7, <1>8 DEF Next, Scheduler,
     Looping, Ending

\* A step after which no more passes have come to an end, off the books,
\* and that leaves the answers of those that had.
PassesStay ==
  /\ call' = call /\ (Settled' => Settled)
  /\ pc = "late" => pc' = "late" /\ deferred' = deferred
  /\ \A r \in Members : Passed(r)' /\ ~OnBooks(r)' =>
       /\ Passed(r) /\ ~OnBooks(r)
       /\ result'[r] = result[r] /\ count'[r] = count[r]

LEMMA StayingPasses ==
  ASSUME PassesKept, PassesStay
  PROVE  PassesKept'
<1>1. Members' = Members /\ (Settled' => Settled)
  BY DEF PassesStay, Members
<1>2. \A r \in Members : Passed(r)' /\ ~OnBooks(r)' /\ Settled' => Credited(r)'
  BY <1>1 DEF PassesStay, PassesKept, Credited
<1> QED  BY <1>1, <1>2 DEF PassesKept

\* Where the books do not lose r and r does not come to an end, it is as
\* it was.
LEMMA WorkersPass ==
  ASSUME Inv, Handed, NEW r \in Rollouts, Worker(r)
  PROVE  PassesStay
<1> USE DEF Inv
<1>1. UNCHANGED <<pc, call, active, deferred, quarantined, count, result>>
  BY DEF Worker, Start, Edit, Verify, Finish, Finalize, Return, Raise,
     calling, control, killing, answer
<1>2. /\ \A q \in Rollouts : (OnBooks(q)' <=> OnBooks(q))
      /\ Settled' = Settled /\ Members \subseteq Rollouts
  BY <1>1 DEF OnBooks, Settled, Members
<1>3. \A q \in Rollouts : Passed(q)' => Passed(q) \/ (q = r /\ Return(r))
  BY <1>1 DEF Worker, Start, Edit, Verify, Finish, Finalize, Return, Raise,
     TypeOK, Passed, work
<1>4. Return(r) /\ r \notin quarantined => OnBooks(r)
  BY DEF Return, FuturesKept, Busy, Done, OnBooks, TypeOK, Early, Later,
     Callers
<1>5. Passed(r)' => r \notin quarantined
  BY <1>1 DEF Passed
<1> QED  BY <1>1, <1>2, <1>3, <1>4, <1>5 DEF PassesStay

LEMMA DispatchPasses ==
  ASSUME Inv, Handed,
         \/ Submit \/ Wait \/ Tick
         \/ \E r \in Rollouts : Prepare(r) \/ SetupFails(r)
  PROVE  PassesStay
<1> USE DEF Inv
<1>1. /\ UNCHANGED <<call, deferred, quarantined, verdict, edited>>
      /\ active \subseteq active' /\ pc \in Early /\ pc # "late"
      /\ pc' \in Early
  BY DEF Submit, Wait, Tick, Prepare, SetupFails, calling, control, killing,
     work, Early
<1>2. \A r \in Rollouts : ~OnBooks(r)' => ~OnBooks(r)
  BY <1>1 DEF OnBooks
<1>3. Settled' = Settled /\ Members \subseteq Rollouts
  BY <1>1 DEF Settled, Members
<1>4. \A q \in Rollouts : future'[q] = "returned" => future[q] = "returned"
  BY DEF Submit, Wait, Tick, Prepare, SetupFails, Prepared, TypeOK
<1>5. \A q \in Rollouts : future[q] = "returned" =>
        result'[q] = result[q] /\ count'[q] = count[q]
  BY DEF Submit, Wait, Tick, Prepare, SetupFails, Answer, answer, TypeOK,
     FuturesKept
<1> QED  BY <1>1, <1>2, <1>3, <1>4, <1>5 DEF PassesStay, Passed

LEMMA TickPasses ==
  ASSUME Inv, Handed, \/ Emergency \/ DrainExpires
                      \/ \E S \in SUBSET Rollouts : Expire(S)
  PROVE  PassesStay
<1> USE DEF Inv
<1>1. PICK S \in SUBSET active, why \in {"stalled", "silent", "preempted"} :
        Abandon(S, why)
  BY DEF Emergency, DrainExpires, Expire, MayStall
<1>2. /\ UNCHANGED <<call, quarantined, verdict, edited>>
      /\ pc = "tick" /\ pc' \in Early
  BY <1>1 DEF Emergency, DrainExpires, Expire, Abandon, calling, work, Early
<1>3. /\ active' = active \ S /\ deferred' = deferred \cup S
      /\ \A q \in Members :
           q \notin S => count'[q] = count[q] /\ result'[q] = result[q]
  BY <1>1, AbandonGives
<1>4. \A r \in Members : ~OnBooks(r)' => ~OnBooks(r) /\ r \notin S
  BY <1>1, <1>2, <1>3 DEF OnBooks
<1>5. \A r \in Members : future'[r] = "returned" => future[r] = "returned"
  BY <1>1 DEF Abandon, Members
<1>6. Settled' = Settled
  BY <1>2 DEF Settled
<1> QED  BY <1>2, <1>3, <1>4, <1>5, <1>6 DEF PassesStay, Passed

LEMMA QuarantinePasses ==
  ASSUME Inv, Handed, Quarantine
  PROVE  PassesStay
<1>1. /\ UNCHANGED <<call, active, deferred, future, verdict, edited, count,
                     result>>
      /\ quarantined \subseteq quarantined'
      /\ pc = "grace" /\ pc' = "recover"
  BY DEF Quarantine, calling, control, work, answer
<1>2. \A r \in Rollouts : ~OnBooks(r)' => ~OnBooks(r)
  BY <1>1 DEF OnBooks
<1>3. Members \subseteq Rollouts /\ (Settled' => Settled)
  BY <1>1 DEF Settled, Members
<1> QED  BY <1>1, <1>2, <1>3 DEF PassesStay, Passed

\* What a pass on the books has in its workspace.
LEMMA PassStands ==
  ASSUME Inv, Handed, Settled, NEW r \in Members, Passed(r), OnBooks(r)
  PROVE  cwd[r] \in Paths /\ tree[cwd[r]] = r /\ Diff(cwd[r]) = r
<1>1. r \notin quarantined /\ r \in edited /\ r \in Rollouts
  BY DEF Passed, Members
<1>2. cwd[r] = r \/ (cwd[r] \in Slots /\ slot[cwd[r]] = r)
  BY <1>1 DEF Handed, Housed
<1>3. tree[cwd[r]] = r
  BY <1>1, <1>2 DEF Handed, Housed, SlotsKept
<1>4. cwd[r] \in Paths
  BY <1>1, <1>2 DEF Paths
<1> QED  BY <1>1, <1>3, <1>4, Zero DEF Diff

LEMMA ReapPasses ==
  ASSUME Inv, Handed, PassesKept, "raises" \notin Answers,
         NEW r \in Rollouts, Reap(r) \/ ReapRaised(r)
  PROVE  PassesKept'
<1> USE DEF Inv
<1>1. /\ UNCHANGED <<call, quarantined, verdict, edited, cwd>>
      /\ pc = "reap" /\ pc' \in Early /\ pc' # "late"
      /\ r \in active /\ r \in Members /\ r \notin deferred /\ count[r] = 0
  BY DEF Reap, ReapRaised, calling, work, killing, TypeOK, Handed, Housed,
     FuturesKept, Early
<1>2. Members' = Members /\ Settled' = Settled /\ Members \subseteq Rollouts
  BY <1>1 DEF Members, Settled
<1>3. CASE ReapRaised(r)
  <2>1. /\ future' = future /\ future[r] = "raised" /\ deferred' = deferred
        /\ active' = active \ {r}
        /\ \A q \in Rollouts : q # r => /\ count'[q] = count[q]
                                        /\ result'[q] = result[q]
    BY <1>3 DEF ReapRaised, Raises, killing, TypeOK
  <2>2. PassesStay
    BY <1>1, <1>2, <2>1 DEF PassesStay, Passed, OnBooks
  <2> QED  BY <2>2, StayingPasses
<1>4. CASE Reap(r)
  <2>1. PICK s \in BOOLEAN : Reaps(r, Outcome(r, s))
    BY <1>4, ReapReaps
  <2> DEFINE entry == Outcome(r, s)
  <2>2. OnBooks(r) /\ future[r] = "returned"
    BY <1>1, <1>4, ReapReaps DEF OnBooks
  <2>3. Settled /\ Passed(r) => entry.patch = r /\ entry.success
    <3> SUFFICES ASSUME Settled, Passed(r)
                 PROVE  entry.patch = r /\ entry.success
      OBVIOUS
    <3>1. Diff(cwd[r]) = r /\ r # "none"
      BY <1>1, <2>2, PassStands, RolloutsAssumption
    <3>2. verdict[r] = "pass"
      BY DEF Passed
    <3> QED  BY <1>1, <3>1, <3>2, OutcomeFits DEF Full, Good
  <2>4. /\ count'[r] # 0 /\ result'[r] = entry
        /\ \A q \in Members : q # r /\ ~OnBooks(q)' =>
             /\ ~OnBooks(q) /\ count'[q] = count[q] /\ result'[q] = result[q]
        /\ \A q \in Members : future'[q] = "returned" => future[q] = "returned"
    <3> HIDE DEF entry
    <3>1. CASE Preempt(r, entry)
      <4>1. /\ active' = {} /\ deferred' = deferred \cup (active \ {r})
            /\ \A q \in Members :
                 /\ q \in active => count'[q] = 1
                 /\ q \notin active => /\ count'[q] = count[q]
                                       /\ result'[q] = result[q]
                 /\ q = r => result'[q] = entry
        BY <1>1, <3>1, PreemptGives
      <4>2. \A q \in Members : future'[q] = "returned" => future[q] = "returned"
        BY <1>2, <3>1 DEF Preempt
      <4> QED  BY <1>1, <4>1, <4>2 DEF OnBooks
    <3>2. CASE /\ Answer(r, entry) /\ active' = active \ {r}
               /\ UNCHANGED <<future, deferred>>
      <4>1. /\ count'[r] = 0 + 1 /\ result'[r] = entry
            /\ \A q \in Rollouts : q # r => /\ count'[q] = count[q]
                                            /\ result'[q] = result[q]
        BY <1>1, <3>2 DEF Answer, TypeOK
      <4> QED  BY <1>1, <1>2, <3>2, <4>1 DEF OnBooks
    <3> QED  BY <2>1, <3>1, <3>2 DEF Reaps, entry
  <2>5. \A q \in Members : Passed(q)' => Passed(q)
    BY <1>1, <2>4 DEF Passed
  <2> HIDE DEF entry
  <2>6. \A q \in Members : Settled /\ Passed(q)' /\ ~OnBooks(q)' => Credited(q)'
    BY <1>1, <2>3, <2>4, <2>5 DEF PassesKept, Credited
  <2> QED  BY <1>2, <2>6 DEF PassesKept
<1> QED  BY <1>3, <1>4

LEMMA RecoverPasses ==
  ASSUME Inv, Handed, Told, GivenUp, PassesKept, Recover
  PROVE  PassesKept'
<1> USE DEF Inv
<1>1. /\ UNCHANGED <<call, active, deferred, quarantined, future, verdict,
                     edited, cwd, count, status>>
      /\ pc = "recover" /\ pc' = "late" /\ active = {}
  BY DEF Recover, calling, control, killing, work, FuturesKept, Later
<1>2. Members' = Members /\ Settled' = Settled /\ Members \subseteq Rollouts
  BY <1>1 DEF Members, Settled
<1>3. SUFFICES ASSUME Settled, NEW r \in Members, Passed(r)
               PROVE  Credited(r)'
  BY <1>1, <1>2 DEF PassesKept, Passed
<1>4. r \in Rollouts /\ r # "none" /\ verdict[r] = "pass" /\ r \notin quarantined
  BY <1>2, <1>3, RolloutsAssumption DEF Passed
<1>5. CASE r \in deferred
  <2>1. OnBooks(r) /\ r \in Quiesced /\ Quiesced # {}
    BY <1>1, <1>4, <1>5 DEF OnBooks, Quiesced
  <2>2. Diff(cwd[r]) = r
    BY <1>3, <2>1, PassStands
  <2>3. PICK why \in {"stalled", "silent", "preempted"} :
          count[r] # 0 /\ result[r] = Empty(why, cwd[r])
    BY <1>1, <1>5 DEF GivenUp
  <2>4. /\ result[r].path = cwd[r] /\ Bare(r) /\ result[r].why = why
        /\ result[r] \in Results
    <3>1. result[r] \in Results
      BY <1>4 DEF TypeOK
    <3>2. result[r] = [why |-> why, success |-> FALSE, patch |-> "none",
                       path |-> cwd[r]]
      BY <2>3 DEF Empty
    <3> QED  BY <3>1, <3>2 DEF Bare
  <2>5. Reported(r) = "pass"
    BY <1>3, <1>4 DEF Told, Reported, Passed
  <2>6. Recovered(r).patch = r
    <3>1. CASE TimedOut(r)
      <4>1. Recovered(r) = [result[r] EXCEPT !.patch = r,
                                             !.success = Green(verdict[r])]
        BY <1>4, <2>2, <2>4, <3>1 DEF Recovered
      <4> QED  BY <2>4, <4>1 DEF Results
    <3>2. CASE ~TimedOut(r)
      <4>1. Recovered(r) = [result[r] EXCEPT !.patch = r]
        BY <1>4, <2>1, <2>2, <2>4, <2>5, <3>2 DEF Recovered, Full
      <4> QED  BY <2>4, <4>1 DEF Results
    <3> QED  BY <3>1, <3>2
  <2>7. result'[r] = Recovered(r)
    BY <1>4, <2>1, <2>3 DEF Recover
  <2> QED  BY <1>1, <1>5, <2>3, <2>6, <2>7 DEF Credited
<1>6. CASE r \notin deferred
  <2>1. Credited(r)
    BY <1>1, <1>3, <1>6 DEF PassesKept, OnBooks
  <2>2. result[r].success
    BY <1>1, <2>1 DEF Credited
  <2>3. result'[r] = result[r]
    BY <1>4, <2>2 DEF Recover, Recovered, Bare
  <2> QED  BY <1>1, <2>1, <2>2, <2>3 DEF Credited
<1> QED  BY <1>5, <1>6

LEMMA LatePasses ==
  ASSUME Inv, Handed, Told, PassesKept, Late
  PROVE  PassesKept'
<1> USE DEF Inv
<1>1. /\ UNCHANGED <<call, active, deferred, quarantined, future, verdict,
                     edited, cwd, status>>
      /\ pc = "late" /\ pc' = "promote" /\ active = {}
  BY DEF Late, calling, control, killing, work, FuturesKept, Later
<1>2. Members' = Members /\ Settled' = Settled /\ Members \subseteq Rollouts
  BY <1>1 DEF Members, Settled
<1>3. SUFFICES ASSUME Settled, NEW r \in Members, Passed(r)
               PROVE  Credited(r)'
  BY <1>1, <1>2 DEF PassesKept, Passed
<1>4. r \in Rollouts /\ r # "none" /\ verdict[r] = "pass" /\ r \notin quarantined
      /\ r # "absent"
  BY <1>2, <1>3, RolloutsAssumption DEF Passed
<1>5. result[r].patch = r /\ count[r] # 0
  BY <1>1, <1>3 DEF PassesKept, OnBooks, Early, Credited
<1>6. /\ result[r].path = cwd[r] /\ cwd[r] # 0 /\ tree[cwd[r]] = r
      /\ result[r] \in Results
  BY <1>1, <1>3, <1>4, <1>5, Zero DEF Handed, Placed, PatchesStand, TypeOK
<1>7. Reported(r) = "pass" /\ Terminal(r)
  BY <1>3, <1>4, <1>6 DEF Told, Reported, Passed, Terminal
<1>8. LateEntry(r) = [result[r] EXCEPT !.patch = r, !.success = TRUE]
  <2> DEFINE base == IF count[r] = 0
                     THEN [why |-> "late", success |-> TRUE,
                           patch |-> "none", path |-> cwd[r]]
                     ELSE IF result[r].path = 0
                     THEN [result[r] EXCEPT !.path = cwd[r]] ELSE result[r]
             patch == IF base.patch # "none" THEN base.patch
                      ELSE Diff(base.path)
             good == base.success \/ (patch # "none" /\ Good(Reported(r)))
  <2>1. base = result[r] /\ patch = r
    BY <1>4, <1>5, <1>6
  <2>2. good = TRUE
    BY <1>4, <1>7, <2>1 DEF Good
  <2>3. LateEntry(r) = [base EXCEPT !.patch = patch, !.success = good]
    BY DEF LateEntry
  <2> QED  BY <2>1, <2>2, <2>3
<1>9. result'[r] = LateEntry(r) /\ count'[r] = count[r]
  BY <1>4, <1>5, <1>7 DEF Late
<1>10. LateEntry(r).patch = r /\ LateEntry(r).success
  BY <1>6, <1>8 DEF Results
<1> QED  BY <1>5, <1>9, <1>10 DEF Credited

LEMMA PromotePasses ==
  ASSUME Inv, Handed, PassesKept, Promote
  PROVE  PassesKept'
<1> USE DEF Inv
<1>1. /\ UNCHANGED <<call, active, deferred, quarantined, future, verdict,
                     edited, count>>
      /\ pc = "promote" /\ pc' = "out" /\ active = {}
  BY DEF Promote, calling, control, killing, work, FuturesKept, Later
<1>2. Members' = Members /\ Settled' = Settled /\ Members \subseteq Rollouts
  BY <1>1 DEF Members, Settled
<1>3. \A r \in Members : /\ result'[r].patch = result[r].patch
                         /\ result'[r].success = result[r].success
  <2> TAKE r \in Members
  <2>1. r \in Rollouts /\ result[r] \in Results
    BY <1>2 DEF TypeOK
  <2>2. result'[r] \in {result[r], [result[r] EXCEPT !.path = r]}
    BY <2>1 DEF Promote
  <2> QED  BY <2>1, <2>2 DEF Results
<1>4. \A r \in Members : Passed(r)' => Passed(r) /\ ~OnBooks(r)
  BY <1>1 DEF Passed, OnBooks, Early
<1>5. \A r \in Members : Credited(r) => Credited(r)'
  BY <1>1, <1>3 DEF Credited
<1> QED  BY <1>2, <1>4, <1>5 DEF PassesKept

PassInv == Handed /\ Told /\ GivenUp /\ PassesKept

LEMMA InitPasses == Init => PassInv
<1> USE RolloutsAssumption
<1> SUFFICES ASSUME Init PROVE PassInv
  OBVIOUS
<1>1. /\ Members = {} /\ pc = "out"
      /\ \A r \in Rollouts : status[r] = "none"
  BY DEF Init, Members
<1>2. Told /\ GivenUp /\ PassesKept
  BY <1>1 DEF Told, GivenUp, PassesKept, Early
<1> QED  BY <1>2, InitHanded DEF PassInv

LEMMA NextPasses ==
  ASSUME Inv, PassInv, "raises" \notin Answers, [Next]_vars
  PROVE  PassInv'
<1> USE DEF Inv, PassInv
<1>1. Handed'
  BY NextHanded
<1>2. CASE UNCHANGED vars
  <2>1. UNCHANGED <<pc, call, active, deferred, quarantined, future, verdict,
                    edited, cwd, count, result, status>>
    BY <1>2 DEF vars, calling, control, killing, work, answer
  <2>2. Told' /\ GivenUp' /\ PassesKept'
    BY <2>1 DEF Told, GivenUp, PassesKept, Passed, Credited, OnBooks, Settled,
       Members
  <2> QED  BY <1>1, <2>2
<1>3. CASE Next
  <2>1. Told'
    BY <1>3, ToldWorkers, ToldScheduler DEF Next
  <2>2. GivenUp'
    BY <1>3, GivenUpNext
  <2>3. PassesKept'
    <3>1. CASE Call
      <4>1. \A r \in Members' : future'[r] # "returned"
        BY <3>1, RolloutsAssumption DEF Call, Members, FuturesKept, TypeOK
      <4> QED  BY <4>1 DEF PassesKept, Passed
    <3>2. CASE \E r \in Rollouts : Worker(r)
      BY <3>2, WorkersPass, StayingPasses
    <3>3. CASE Looping
      BY <3>3, DispatchPasses, TickPasses, ReapPasses, StayingPasses
         DEF Looping
    <3>4. CASE Ending
      BY <3>4, QuarantinePasses, RecoverPasses, LatePasses, PromotePasses,
         StayingPasses DEF Ending
    <3> QED  BY <1>3, <3>1, <3>2, <3>3, <3>4 DEF Next, Scheduler
  <2> QED  BY <1>1, <2>1, <2>2, <2>3
<1> QED  BY <1>2, <1>3

\* If the predicate does not raise, a full pass of a worker that ended before
\* it was quarantined comes back as a success, with the workspace it is in.
THEOREM PassesSurvive ==
  ASSUME "raises" \notin Answers
  PROVE  Spec => []PassSurvives
<1>1. Inv /\ PassInv => PassSurvives
  <2> SUFFICES ASSUME Inv, PassInv, pc = "out", Settled, NEW r \in Members,
                      Passed(r)
               PROVE  /\ result[r].success /\ result[r].patch = r
                      /\ tree[result[r].path] = r
    BY DEF PassSurvives, Passed
  <2>1. ~OnBooks(r)
    BY DEF Inv, FuturesKept, Later, OnBooks, Early
  <2>2. Credited(r)
    BY <2>1 DEF PassInv, PassesKept
  <2> QED  BY <2>2 DEF Credited, PassInv, Handed, PatchesStand
<1>2. Inv /\ Inv' /\ PassInv /\ [Next]_vars => PassInv'
  BY NextPasses
<1> QED  BY <1>1, <1>2, Invariance, InitPasses, PTL DEF Spec
=============================================================================
