-------------------------- MODULE WorkspacesProofs --------------------------
(***************************************************************************)
(* Proofs about Workspaces, for any engines, rollout ids and inodes: the   *)
(* lock protocol excludes up to its two holes, and leaves nothing behind.  *)
(***************************************************************************)
EXTENDS Workspaces, TLAPS

\* The threads that work on a rollout have no workspace of it yet, or no more.
Making == {"open", "flock", "check", "clean", "reopen", "reflock", "build",
           "aside", "unlock", "unlink", "reject"}
Locked == {"check", "clean", "reopen", "reflock", "build"}

\* What a thread at a step knows of the locks and workspaces of its engine.
StepOK ==
  \A e \in Engines :
    /\ pc[e].at \in Making => pc[e].id \in Ids /\ held[e][pc[e].id] = "none"
    /\ pc[e].at \in Locked => lock[e][pc[e].id] # 0
    /\ pc[e].at = "unlink" => lock[e][pc[e].id] = 0
    /\ pc[e].fd # 0 <=> pc[e].at \in {"flock", "reflock"}
    /\ pc[e].at = "down" =>
         \A k \in Ids : held[e][k] = "none" /\ lock[e][k] = 0

\* An inode in use is the lock file of one rollout.
Named(k, i) == i # 0 /\ file[k] = i
Loaded(e, k, i) == i # 0 /\ pc[e].fd = i /\ pc[e].id = k
Registered(e, k, i) == i # 0 /\ lock[e][k] = i
InodeOf(k, i) == \/ Named(k, i)
                 \/ \E e \in Engines : Loaded(e, k, i) \/ Registered(e, k, i)
InodesApart ==
  \A i \in Inodes : \A j, k \in Ids : InodeOf(j, i) /\ InodeOf(k, i) => j = k

\* The locks of the kernel are those of the registered descriptors.
LocksAgree ==
  /\ \A e \in Engines, k \in Ids : lock[e][k] # 0 => flock[lock[e][k]] = e
  /\ \A e \in Engines, i \in Inodes :
       flock[i] = e => \E k \in Ids : lock[e][k] = i

\* Unless a path was unlinked too late, whoever has a lock file open has the
\* one that the path names.
OpenIsNamed ==
  ~raced => \A e \in Engines :
              /\ pc[e].fd # 0 => file[pc[e].id] = pc[e].fd
              /\ \A k \in Ids : lock[e][k] # 0 => file[k] = lock[e][k]

Owned ==
  /\ \A e \in Engines, k \in Ids : held[e][k] = "own" => lock[e][k] # 0
  /\ \A e \in Engines, k \in Ids : tree[k] = e => held[e][k] = "own"

Inv == /\ LockOK /\ StepOK /\ InodesApart /\ LocksAgree /\ OpenIsNamed
       /\ Owned /\ OwnWorkspaceIntact

\* A thread that moves is a thread.
LEMMA ThreadMoves ==
  ASSUME NEW t \in Threads, NEW step \in Steps, NEW i \in Inodes \cup {0},
         NEW then \in {"idle", "reject", "close"}
  PROVE  /\ [t EXCEPT !.at = step] \in Threads
         /\ [t EXCEPT !.at = step, !.fd = i] \in Threads
         /\ [t EXCEPT !.at = step, !.then = then] \in Threads
         /\ t.then \in {"idle", "reject", "close"}
         /\ {"idle", "reject", "close"} \subseteq Steps
<1>1. {"idle", "reject", "close"} \subseteq Steps
  BY DEF Steps
<1> QED  BY <1>1 DEF Threads

\* Inodes stay apart when none gets another rollout.
LEMMA StillApart ==
  ASSUME InodesApart,
         \A i \in Inodes, j \in Ids : InodeOf(j, i)' => InodeOf(j, i)
  PROVE  InodesApart'
  BY DEF InodesApart

\* As long as no path was unlinked too late, one engine has the lock.
LEMMA Alone ==
  ASSUME Inv, ~raced, NEW e \in Engines, NEW f \in Engines, NEW k \in Ids,
         lock[e][k] # 0, lock[f][k] # 0
  PROVE  e = f
  BY DEF Inv, OpenIsNamed, LocksAgree

LEMMA AskStep ==
  ASSUME Inv, NEW e \in Engines, NEW k \in Ids, Ask(e, k)
  PROVE  Inv'
<1> USE WorkspacesAssumption DEF Inv
<1>1. LockOK'
  BY DEF Ask, Made, LockOK, Threads, Steps
<1>2. StepOK'
  BY DEF Ask, Made, LockOK, Threads, StepOK, Making, Locked
<1>3. InodesApart'
  <2>1. \A i \in Inodes, j \in Ids : InodeOf(j, i)' => InodeOf(j, i)
    BY DEF Ask, Made, LockOK, Threads, StepOK, InodeOf, Named, Loaded,
       Registered
  <2> QED  BY <2>1, StillApart
<1>4. LocksAgree'
  BY DEF Ask, Made, LockOK, Threads, StepOK, LocksAgree
<1>5. OpenIsNamed'
  BY DEF Ask, Made, LockOK, Threads, StepOK, OpenIsNamed
<1>6. Owned'
  BY DEF Ask, Made, LockOK, Threads, StepOK, Making, Locked, Owned
<1>7. OwnWorkspaceIntact'
  BY DEF Ask, Made, LockOK, Threads, StepOK, Making, OwnWorkspaceIntact
<1> QED  BY <1>1, <1>2, <1>3, <1>4, <1>5, <1>6, <1>7

LEMMA OpenStep ==
  ASSUME Inv, NEW e \in Engines, Open(e)
  PROVE  Inv'
<1> USE WorkspacesAssumption DEF Inv
<1>1. LockOK'
  <2>1. PICK i \in Inodes :
               pc' = [pc EXCEPT ![e].at = "flock", ![e].fd = i]
    BY DEF Open, OpenLock, Unused, Opened, Doing
  <2>2. pc' \in [Engines -> Threads]
    BY <2>1, ThreadMoves DEF LockOK, Steps
  <2> QED  BY <2>2 DEF Open, OpenLock, Unused, Opened, Doing, LockOK, StepOK,
     Making
<1>2. StepOK'
  BY DEF Open, OpenLock, Unused, Opened, Doing, LockOK, Threads, StepOK,
     Making, Locked
<1>3. InodesApart'
  BY DEF Open, OpenLock, Unused, Opened, Doing, LockOK, Threads, StepOK,
     Making, Locked,
         InodesApart, InodeOf, Named, Loaded, Registered
<1>4. LocksAgree'
  BY DEF Open, OpenLock, Unused, Opened, Doing, LockOK, Threads, StepOK,
     LocksAgree
<1>5. OpenIsNamed'
  BY DEF Open, OpenLock, Unused, Opened, Doing, LockOK, Threads, StepOK,
     OpenIsNamed
<1>6. Owned'
  BY DEF Open, OpenLock, Unused, Opened, Doing, LockOK, Threads, StepOK,
     Making, Locked, Owned
<1>7. OwnWorkspaceIntact'
  BY DEF Open, OpenLock, Unused, Opened, Doing, LockOK, Threads, StepOK,
     Making, OwnWorkspaceIntact
<1> QED  BY <1>1, <1>2, <1>3, <1>4, <1>5, <1>6, <1>7

LEMMA ReopenStep ==
  ASSUME Inv, NEW e \in Engines, Reopen(e)
  PROVE  Inv'
<1> USE WorkspacesAssumption DEF Inv
<1>1. LockOK'
  <2>1. PICK i \in Inodes :
               pc' = [pc EXCEPT ![e].at = "reflock", ![e].fd = i]
    BY DEF Reopen, OpenLock, Unused, Opened, Doing
  <2>2. pc' \in [Engines -> Threads]
    BY <2>1, ThreadMoves DEF LockOK, Steps
  <2> QED  BY <2>2 DEF Reopen, OpenLock, Unused, Opened, Doing, LockOK, StepOK,
     Making
<1>2. StepOK'
  BY DEF Reopen, OpenLock, Unused, Opened, Doing, LockOK, Threads, StepOK,
     Making, Locked
<1>3. InodesApart'
  BY DEF Reopen, OpenLock, Unused, Opened, Doing, LockOK, Threads, StepOK,
     Making, Locked,
         InodesApart, InodeOf, Named, Loaded, Registered
<1>4. LocksAgree'
  BY DEF Reopen, OpenLock, Unused, Opened, Doing, LockOK, Threads, StepOK,
     LocksAgree
<1>5. OpenIsNamed'
  BY DEF Reopen, OpenLock, Unused, Opened, Doing, LockOK, Threads, StepOK,
     OpenIsNamed
<1>6. Owned'
  BY DEF Reopen, OpenLock, Unused, Opened, Doing, LockOK, Threads, StepOK,
     Making, Locked, Owned
<1>7. OwnWorkspaceIntact'
  BY DEF Reopen, OpenLock, Unused, Opened, Doing, LockOK, Threads, StepOK,
     Making, OwnWorkspaceIntact
<1> QED  BY <1>1, <1>2, <1>3, <1>4, <1>5, <1>6, <1>7

LEMMA OpenRaisesStep ==
  ASSUME Inv, NEW e \in Engines, OpenRaises(e)
  PROVE  Inv'
<1> USE WorkspacesAssumption DEF Inv
<1>1. LockOK'
  <2>1. pc' \in [Engines -> Threads]
    BY ThreadMoves DEF OpenRaises, Doing, LockOK, Steps
  <2> QED  BY <2>1 DEF OpenRaises, Doing, LockOK, StepOK, Making
<1>2. StepOK'
  BY DEF OpenRaises, Doing, LockOK, Threads, StepOK, Making, Locked
<1>3. InodesApart'
  <2>1. \A i \in Inodes, j \in Ids : InodeOf(j, i)' => InodeOf(j, i)
    BY DEF OpenRaises, Doing, LockOK, Threads, StepOK, InodeOf, Named, Loaded,
       Registered
  <2> QED  BY <2>1, StillApart
<1>4. LocksAgree'
  BY DEF OpenRaises, Doing, LockOK, Threads, StepOK, LocksAgree
<1>5. OpenIsNamed'
  BY DEF OpenRaises, Doing, LockOK, Threads, StepOK, OpenIsNamed
<1>6. Owned'
  BY DEF OpenRaises, Doing, LockOK, Threads, StepOK, Making, Locked, Owned
<1>7. OwnWorkspaceIntact'
  BY DEF OpenRaises, Doing, LockOK, Threads, StepOK, Making, OwnWorkspaceIntact
<1> QED  BY <1>1, <1>2, <1>3, <1>4, <1>5, <1>6, <1>7

LEMMA FlockStep ==
  ASSUME Inv, NEW e \in Engines, Flock(e)
  PROVE  Inv'
<1> USE WorkspacesAssumption DEF Inv
<1>1. LockOK'
  <2>1. pc[e].fd \in Inodes /\ pc[e].id \in Ids
    BY DEF Flock, Doing, LockOK, Threads, StepOK, Making
  <2>2. pc' \in [Engines -> Threads]
    BY ThreadMoves DEF Flock, Take, LockOK, Steps
  <2> QED  BY <2>1, <2>2 DEF Flock, Take, LockOK
<1>2. StepOK'
  BY DEF Flock, Take, Doing, LockOK, Threads, StepOK, Making, Locked
<1>3. InodesApart'
  BY DEF Flock, Take, Doing, LockOK, Threads, StepOK, Making, Locked,
         InodesApart, InodeOf, Named, Loaded, Registered
<1>4. LocksAgree'
  BY DEF Flock, Take, Doing, LockOK, Threads, StepOK, LocksAgree
<1>5. OpenIsNamed'
  BY DEF Flock, Take, Doing, LockOK, Threads, StepOK, OpenIsNamed
<1>6. Owned'
  BY DEF Flock, Take, Doing, LockOK, Threads, StepOK, Making, Locked, Owned
<1>7. OwnWorkspaceIntact'
  BY DEF Flock, Take, Doing, LockOK, Threads, StepOK, Making, OwnWorkspaceIntact
<1> QED  BY <1>1, <1>2, <1>3, <1>4, <1>5, <1>6, <1>7

LEMMA ReflockStep ==
  ASSUME Inv, NEW e \in Engines, Reflock(e)
  PROVE  Inv'
<1> USE WorkspacesAssumption DEF Inv
<1>1. LockOK'
  <2>1. pc[e].fd \in Inodes /\ pc[e].id \in Ids
    BY DEF Reflock, Doing, LockOK, Threads, StepOK, Making
  <2>2. pc' \in [Engines -> Threads]
    BY ThreadMoves DEF Reflock, Take, LockOK, Steps
  <2> QED  BY <2>1, <2>2 DEF Reflock, Take, LockOK
<1>2. StepOK'
  BY DEF Reflock, Take, Doing, LockOK, Threads, StepOK, Making, Locked
<1>3. InodesApart'
  BY DEF Reflock, Take, Doing, LockOK, Threads, StepOK, Making, Locked,
         InodesApart, InodeOf, Named, Loaded, Registered
<1>4. LocksAgree'
  BY DEF Reflock, Take, Doing, LockOK, Threads, StepOK, LocksAgree
<1>5. OpenIsNamed'
  BY DEF Reflock, Take, Doing, LockOK, Threads, StepOK, OpenIsNamed
<1>6. Owned'
  BY DEF Reflock, Take, Doing, LockOK, Threads, StepOK, Making, Locked, Owned
<1>7. OwnWorkspaceIntact'
  BY DEF Reflock, Take, Doing, LockOK, Threads, StepOK, Making,
     OwnWorkspaceIntact
<1> QED  BY <1>1, <1>2, <1>3, <1>4, <1>5, <1>6, <1>7

LEMMA FlockFailsStep ==
  ASSUME Inv, NEW e \in Engines, FlockFails(e)
  PROVE  Inv'
<1> USE WorkspacesAssumption DEF Inv
<1>1. LockOK'
  <2>1. pc' \in [Engines -> Threads]
    BY ThreadMoves DEF FlockFails, LockOK, Steps
  <2> QED  BY <2>1 DEF FlockFails, LockOK, StepOK, Making
<1>2. StepOK'
  BY DEF FlockFails, LockOK, Threads, StepOK, Making, Locked
<1>3. InodesApart'
  <2>1. \A i \in Inodes, j \in Ids : InodeOf(j, i)' => InodeOf(j, i)
    BY DEF FlockFails, LockOK, Threads, StepOK, InodeOf, Named, Loaded,
       Registered
  <2> QED  BY <2>1, StillApart
<1>4. LocksAgree'
  BY DEF FlockFails, LockOK, Threads, StepOK, LocksAgree
<1>5. OpenIsNamed'
  BY DEF FlockFails, LockOK, Threads, StepOK, OpenIsNamed
<1>6. Owned'
  BY DEF FlockFails, LockOK, Threads, StepOK, Making, Locked, Owned
<1>7. OwnWorkspaceIntact'
  BY DEF FlockFails, LockOK, Threads, StepOK, Making, OwnWorkspaceIntact
<1> QED  BY <1>1, <1>2, <1>3, <1>4, <1>5, <1>6, <1>7

LEMMA CheckStep ==
  ASSUME Inv, NEW e \in Engines, Check(e)
  PROVE  Inv'
<1> USE WorkspacesAssumption DEF Inv
<1>1. LockOK'
  <2>1. pc' \in [Engines -> Threads]
    BY ThreadMoves DEF Check, Goto, Doing, LockOK, Steps
  <2> QED  BY <2>1 DEF Check, Goto, Doing, LockOK, StepOK, Making
<1>2. StepOK'
  BY DEF Check, Goto, Doing, LockOK, Threads, StepOK, Making, Locked
<1>3. InodesApart'
  <2>1. \A i \in Inodes, j \in Ids : InodeOf(j, i)' => InodeOf(j, i)
    BY DEF Check, Goto, Doing, LockOK, Threads, StepOK, InodeOf, Named, Loaded,
       Registered
  <2> QED  BY <2>1, StillApart
<1>4. LocksAgree'
  BY DEF Check, Goto, Doing, LockOK, Threads, StepOK, LocksAgree
<1>5. OpenIsNamed'
  BY DEF Check, Goto, Doing, LockOK, Threads, StepOK, OpenIsNamed
<1>6. Owned'
  BY DEF Check, Goto, Doing, LockOK, Threads, StepOK, Making, Locked, Owned
<1>7. OwnWorkspaceIntact'
  BY DEF Check, Goto, Doing, LockOK, Threads, StepOK, Making, OwnWorkspaceIntact
<1> QED  BY <1>1, <1>2, <1>3, <1>4, <1>5, <1>6, <1>7

LEMMA CleanStep ==
  ASSUME Inv, NEW e \in Engines, Clean(e)
  PROVE  Inv'
<1> USE WorkspacesAssumption DEF Inv
<1>1. LockOK'
  <2>1. pc' \in [Engines -> Threads]
    BY ThreadMoves DEF Clean, Goto, SetTree, Made, Doing, LockOK, Steps
  <2> QED  BY <2>1 DEF Clean, Goto, SetTree, Made, Doing, LockOK, StepOK, Making
<1>2. StepOK'
  BY DEF Clean, Goto, SetTree, Made, Doing, LockOK, Threads, StepOK, Making,
     Locked
<1>3. InodesApart'
  <2>1. \A i \in Inodes, j \in Ids : InodeOf(j, i)' => InodeOf(j, i)
    BY DEF Clean, Goto, SetTree, Made, Doing, LockOK, Threads, StepOK, InodeOf,
       Named, Loaded, Registered
  <2> QED  BY <2>1, StillApart
<1>4. LocksAgree'
  BY DEF Clean, Goto, SetTree, Made, Doing, LockOK, Threads, StepOK, LocksAgree
<1>5. OpenIsNamed'
  BY DEF Clean, Goto, SetTree, Made, Doing, LockOK, Threads, StepOK, OpenIsNamed
<1>6. Owned'
  BY DEF Clean, Goto, SetTree, Made, Doing, LockOK, Threads, StepOK, Making,
     Locked, Owned
<1>7. OwnWorkspaceIntact'
  <2> SUFFICES ASSUME ~raced', ~evicted', NEW f \in Engines, NEW k \in Ids,
                      held'[f][k] = "own"
               PROVE  tree'[k] = f
    BY DEF OwnWorkspaceIntact
  <2>1. CASE k = pc[e].id /\ f # e
    BY <2>1, Alone DEF Clean, Goto, SetTree, Made, Doing, LockOK, StepOK,
       Making, Locked, Owned, OwnWorkspaceIntact
  <2> QED  BY <2>1 DEF Clean, Goto, SetTree, Made, Doing, LockOK, StepOK,
     Making, OwnWorkspaceIntact
<1> QED  BY <1>1, <1>2, <1>3, <1>4, <1>5, <1>6, <1>7

LEMMA BuildStep ==
  ASSUME Inv, NEW e \in Engines, Build(e)
  PROVE  Inv'
<1> USE WorkspacesAssumption DEF Inv
<1>1. LockOK'
  BY DEF Build, SetTree, SetHeld, Become, Idle, At, Doing, LockOK, Threads,
     Steps
<1>2. StepOK'
  BY DEF Build, SetTree, SetHeld, Become, Idle, At, Doing, LockOK, Threads,
     StepOK, Making, Locked
<1>3. InodesApart'
  <2>1. \A i \in Inodes, j \in Ids : InodeOf(j, i)' => InodeOf(j, i)
    BY DEF Build, SetTree, SetHeld, Become, Idle, At, Doing, LockOK, Threads,
       StepOK, InodeOf, Named, Loaded, Registered
  <2> QED  BY <2>1, StillApart
<1>4. LocksAgree'
  BY DEF Build, SetTree, SetHeld, Become, Idle, At, Doing, LockOK, Threads,
     StepOK, LocksAgree
<1>5. OpenIsNamed'
  BY DEF Build, SetTree, SetHeld, Become, Idle, At, Doing, LockOK, Threads,
     StepOK, OpenIsNamed
<1>6. Owned'
  BY DEF Build, SetTree, SetHeld, Become, Idle, At, Doing, LockOK, Threads,
     StepOK, Making, Locked, Owned
<1>7. OwnWorkspaceIntact'
  <2> SUFFICES ASSUME ~raced', ~evicted', NEW f \in Engines, NEW k \in Ids,
                      held'[f][k] = "own"
               PROVE  tree'[k] = f
    BY DEF OwnWorkspaceIntact
  <2>1. CASE k = pc[e].id /\ f # e
    BY <2>1, Alone DEF Build, SetTree, SetHeld, Become, Idle, At, Doing,
       LockOK, StepOK, Making, Locked, Owned, OwnWorkspaceIntact
  <2> QED  BY <2>1 DEF Build, SetTree, SetHeld, Become, Idle, At, Doing,
     LockOK, StepOK, Making, OwnWorkspaceIntact
<1> QED  BY <1>1, <1>2, <1>3, <1>4, <1>5, <1>6, <1>7

LEMMA BuildFailsStep ==
  ASSUME Inv, NEW e \in Engines, BuildFails(e)
  PROVE  Inv'
<1> USE WorkspacesAssumption DEF Inv
<1>1. LockOK'
  <2>1. pc' \in [Engines -> Threads]
    BY ThreadMoves DEF BuildFails, SetTree, Doing, LockOK, Steps
  <2> QED  BY <2>1 DEF BuildFails, SetTree, Doing, LockOK, StepOK, Making
<1>2. StepOK'
  BY DEF BuildFails, SetTree, Doing, LockOK, Threads, StepOK, Making, Locked
<1>3. InodesApart'
  <2>1. \A i \in Inodes, j \in Ids : InodeOf(j, i)' => InodeOf(j, i)
    BY DEF BuildFails, SetTree, Doing, LockOK, Threads, StepOK, InodeOf, Named,
       Loaded, Registered
  <2> QED  BY <2>1, StillApart
<1>4. LocksAgree'
  BY DEF BuildFails, SetTree, Doing, LockOK, Threads, StepOK, LocksAgree
<1>5. OpenIsNamed'
  BY DEF BuildFails, SetTree, Doing, LockOK, Threads, StepOK, OpenIsNamed
<1>6. Owned'
  BY DEF BuildFails, SetTree, Doing, LockOK, Threads, StepOK, Making, Locked,
     Owned
<1>7. OwnWorkspaceIntact'
  <2> SUFFICES ASSUME ~raced', ~evicted', NEW f \in Engines, NEW k \in Ids,
                      held'[f][k] = "own"
               PROVE  tree'[k] = f
    BY DEF OwnWorkspaceIntact
  <2>1. CASE k = pc[e].id /\ f # e
    BY <2>1, Alone DEF BuildFails, SetTree, Doing, LockOK, StepOK, Making,
       Locked, Owned, OwnWorkspaceIntact
  <2> QED  BY <2>1 DEF BuildFails, SetTree, Doing, LockOK, StepOK, Making,
     OwnWorkspaceIntact
<1> QED  BY <1>1, <1>2, <1>3, <1>4, <1>5, <1>6, <1>7

LEMMA AsideStep ==
  ASSUME Inv, NEW e \in Engines, Aside(e)
  PROVE  Inv'
<1> USE WorkspacesAssumption DEF Inv
<1>1. LockOK'
  BY DEF Aside, SetHeld, Become, Idle, At, Made, Doing, LockOK, Threads, Steps
<1>2. StepOK'
  BY DEF Aside, SetHeld, Become, Idle, At, Made, Doing, LockOK, Threads,
     StepOK, Making, Locked
<1>3. InodesApart'
  <2>1. \A i \in Inodes, j \in Ids : InodeOf(j, i)' => InodeOf(j, i)
    BY DEF Aside, SetHeld, Become, Idle, At, Made, Doing, LockOK, Threads,
       StepOK, InodeOf, Named, Loaded, Registered
  <2> QED  BY <2>1, StillApart
<1>4. LocksAgree'
  BY DEF Aside, SetHeld, Become, Idle, At, Made, Doing, LockOK, Threads,
     StepOK, LocksAgree
<1>5. OpenIsNamed'
  BY DEF Aside, SetHeld, Become, Idle, At, Made, Doing, LockOK, Threads,
     StepOK, OpenIsNamed
<1>6. Owned'
  BY DEF Aside, SetHeld, Become, Idle, At, Made, Doing, LockOK, Threads,
     StepOK, Making, Locked, Owned
<1>7. OwnWorkspaceIntact'
  BY DEF Aside, SetHeld, Become, Idle, At, Made, Doing, LockOK, Threads,
     StepOK, Making, OwnWorkspaceIntact
<1> QED  BY <1>1, <1>2, <1>3, <1>4, <1>5, <1>6, <1>7

LEMMA AsideFailsStep ==
  ASSUME Inv, NEW e \in Engines, AsideFails(e)
  PROVE  Inv'
<1> USE WorkspacesAssumption DEF Inv
<1>1. LockOK'
  <2>1. pc' \in [Engines -> Threads]
    BY ThreadMoves DEF AsideFails, Goto, Made, Doing, LockOK, Steps
  <2> QED  BY <2>1 DEF AsideFails, Goto, Made, Doing, LockOK, StepOK, Making
<1>2. StepOK'
  BY DEF AsideFails, Goto, Made, Doing, LockOK, Threads, StepOK, Making, Locked
<1>3. InodesApart'
  <2>1. \A i \in Inodes, j \in Ids : InodeOf(j, i)' => InodeOf(j, i)
    BY DEF AsideFails, Goto, Made, Doing, LockOK, Threads, StepOK, InodeOf,
       Named, Loaded, Registered
  <2> QED  BY <2>1, StillApart
<1>4. LocksAgree'
  BY DEF AsideFails, Goto, Made, Doing, LockOK, Threads, StepOK, LocksAgree
<1>5. OpenIsNamed'
  BY DEF AsideFails, Goto, Made, Doing, LockOK, Threads, StepOK, OpenIsNamed
<1>6. Owned'
  BY DEF AsideFails, Goto, Made, Doing, LockOK, Threads, StepOK, Making,
     Locked, Owned
<1>7. OwnWorkspaceIntact'
  BY DEF AsideFails, Goto, Made, Doing, LockOK, Threads, StepOK, Making,
     OwnWorkspaceIntact
<1> QED  BY <1>1, <1>2, <1>3, <1>4, <1>5, <1>6, <1>7

LEMMA RejectStep ==
  ASSUME Inv, NEW e \in Engines, Reject(e)
  PROVE  Inv'
<1> USE WorkspacesAssumption DEF Inv
<1>1. LockOK'
  BY DEF Reject, Become, Idle, At, Doing, LockOK, Threads, Steps
<1>2. StepOK'
  BY DEF Reject, Become, Idle, At, Doing, LockOK, Threads, StepOK, Making,
     Locked
<1>3. InodesApart'
  <2>1. \A i \in Inodes, j \in Ids : InodeOf(j, i)' => InodeOf(j, i)
    BY DEF Reject, Become, Idle, At, Doing, LockOK, Threads, StepOK, InodeOf,
       Named, Loaded, Registered
  <2> QED  BY <2>1, StillApart
<1>4. LocksAgree'
  BY DEF Reject, Become, Idle, At, Doing, LockOK, Threads, StepOK, LocksAgree
<1>5. OpenIsNamed'
  BY DEF Reject, Become, Idle, At, Doing, LockOK, Threads, StepOK, OpenIsNamed
<1>6. Owned'
  BY DEF Reject, Become, Idle, At, Doing, LockOK, Threads, StepOK, Making,
     Locked, Owned
<1>7. OwnWorkspaceIntact'
  BY DEF Reject, Become, Idle, At, Doing, LockOK, OwnWorkspaceIntact
<1> QED  BY <1>1, <1>2, <1>3, <1>4, <1>5, <1>6, <1>7

LEMMA EvictStep ==
  ASSUME Inv, NEW e \in Engines, Evict(e)
  PROVE  Inv'
<1> USE WorkspacesAssumption DEF Inv
<1>1. LockOK'
  <2>1. pc' \in [Engines -> Threads]
    BY ThreadMoves DEF Evict, SetTree, Doing, LockOK, Steps
  <2> QED  BY <2>1 DEF Evict, SetTree, Doing, LockOK, StepOK, Making
<1>2. StepOK'
  BY SMTT(30) DEF Evict, SetTree, Doing, LockOK, Threads, StepOK, Making, Locked
<1>3. InodesApart'
  <2>1. \A i \in Inodes, j \in Ids : InodeOf(j, i)' => InodeOf(j, i)
    BY DEF Evict, SetTree, Doing, LockOK, Threads, StepOK, InodeOf, Named,
       Loaded, Registered
  <2> QED  BY <2>1, StillApart
<1>4. LocksAgree'
  BY DEF Evict, SetTree, Doing, LockOK, Threads, StepOK, LocksAgree
<1>5. OpenIsNamed'
  BY DEF Evict, SetTree, Doing, LockOK, Threads, StepOK, OpenIsNamed
<1>6. Owned'
  BY DEF Evict, SetTree, Doing, LockOK, Threads, StepOK, Making, Locked, Owned
<1>7. OwnWorkspaceIntact'
  <2> SUFFICES ASSUME ~raced', ~evicted', NEW f \in Engines, NEW k \in Ids,
                      held'[f][k] = "own"
               PROVE  tree'[k] = f
    BY DEF OwnWorkspaceIntact
  <2>1. tree[pc[e].id] \notin Engines /\ ~raced /\ ~evicted
    BY DEF Evict, LockOK
  <2> QED  BY <2>1 DEF Evict, SetTree, Doing, LockOK, StepOK, Making,
     OwnWorkspaceIntact
<1> QED  BY <1>1, <1>2, <1>3, <1>4, <1>5, <1>6, <1>7

LEMMA NoUnlockStep ==
  ASSUME Inv, NEW e \in Engines, NoUnlock(e)
  PROVE  Inv'
<1> USE WorkspacesAssumption DEF Inv
<1>1. LockOK'
  <2>1. pc[e] \in Threads /\ pc[e].then \in Steps
    <3>1. pc[e] \in Threads
      BY DEF LockOK
    <3> QED  BY <3>1 DEF Threads, Steps
  <2>2. [pc[e] EXCEPT !.at = pc[e].then] \in Threads
    BY <2>1, ThreadMoves DEF Threads
  <2>3. pc' \in [Engines -> Threads]
    BY <2>2 DEF NoUnlock, Goto, LockOK
  <2> QED  BY <2>3 DEF NoUnlock, Goto, Doing, LockOK, StepOK, Making
<1>2. StepOK'
  BY DEF NoUnlock, Goto, Doing, LockOK, Threads, StepOK, Making, Locked
<1>3. InodesApart'
  <2>1. \A i \in Inodes, j \in Ids : InodeOf(j, i)' => InodeOf(j, i)
    BY DEF NoUnlock, Goto, Doing, LockOK, Threads, StepOK, InodeOf, Named,
       Loaded, Registered
  <2> QED  BY <2>1, StillApart
<1>4. LocksAgree'
  BY DEF NoUnlock, Goto, Doing, LockOK, Threads, StepOK, LocksAgree
<1>5. OpenIsNamed'
  BY DEF NoUnlock, Goto, Doing, LockOK, Threads, StepOK, OpenIsNamed
<1>6. Owned'
  BY DEF NoUnlock, Goto, Doing, LockOK, Threads, StepOK, Making, Locked, Owned
<1>7. OwnWorkspaceIntact'
  BY DEF NoUnlock, Goto, Doing, LockOK, Threads, StepOK, Making,
     OwnWorkspaceIntact
<1> QED  BY <1>1, <1>2, <1>3, <1>4, <1>5, <1>6, <1>7

LEMMA UnlockStep ==
  ASSUME Inv, NEW e \in Engines, Unlock(e)
  PROVE  Inv'
<1> USE WorkspacesAssumption DEF Inv
<1>1. LockOK'
  <2>1. pc' \in [Engines -> Threads]
    BY ThreadMoves DEF Unlock, Goto, Doing, LockOK, Steps
  <2> QED  BY <2>1 DEF Unlock, Goto, Doing, LockOK, StepOK, Making
<1>2. StepOK'
  BY DEF Unlock, Goto, Doing, LockOK, Threads, StepOK, Making, Locked
<1>3. InodesApart'
  <2>1. \A i \in Inodes, j \in Ids : InodeOf(j, i)' => InodeOf(j, i)
    BY DEF Unlock, Goto, Doing, LockOK, Threads, StepOK, InodeOf, Named,
       Loaded, Registered
  <2> QED  BY <2>1, StillApart
<1>4. LocksAgree'
  <2> DEFINE i == lock[e][pc[e].id]
  <2>1. pc[e].id \in Ids /\ i \in Inodes
    BY DEF Unlock, Doing, LockOK, StepOK, Making
  <2>2. \A f \in Engines, k \in Ids :
          lock[f][k] = i => f = e /\ k = pc[e].id
    <3> SUFFICES ASSUME NEW f \in Engines, NEW k \in Ids, lock[f][k] = i
                 PROVE  f = e /\ k = pc[e].id
      OBVIOUS
    <3>1. i # 0 /\ flock[i] = f /\ flock[i] = e
      BY <2>1 DEF LocksAgree
    <3>2. InodeOf(k, i) /\ InodeOf(pc[e].id, i)
      BY <3>1 DEF InodeOf, Registered
    <3> QED  BY <2>1, <3>1, <3>2 DEF InodesApart
  <2> QED  BY <2>1, <2>2 DEF Unlock, LockOK, LocksAgree
<1>5. OpenIsNamed'
  BY DEF Unlock, Goto, Doing, LockOK, Threads, StepOK, OpenIsNamed
<1>6. Owned'
  BY DEF Unlock, Goto, Doing, LockOK, Threads, StepOK, Making, Locked, Owned
<1>7. OwnWorkspaceIntact'
  BY DEF Unlock, Goto, Doing, LockOK, Threads, StepOK, Making,
     OwnWorkspaceIntact
<1> QED  BY <1>1, <1>2, <1>3, <1>4, <1>5, <1>6, <1>7

LEMMA UnlinkStep ==
  ASSUME Inv, NEW e \in Engines, Unlink(e)
  PROVE  Inv'
<1> USE WorkspacesAssumption DEF Inv
<1>1. LockOK'
  <2>1. pc' \in [Engines -> Threads]
    BY ThreadMoves DEF Unlink, Goto, Opened, Doing, LockOK, Steps
  <2> QED  BY <2>1 DEF Unlink, Goto, Opened, Doing, LockOK, StepOK, Making
<1>2. StepOK'
  BY DEF Unlink, Goto, Opened, Doing, LockOK, Threads, StepOK, Making, Locked
<1>3. InodesApart'
  <2>1. \A i \in Inodes, j \in Ids : InodeOf(j, i)' => InodeOf(j, i)
    BY DEF Unlink, Goto, Opened, Doing, LockOK, Threads, StepOK, InodeOf,
       Named, Loaded, Registered
  <2> QED  BY <2>1, StillApart
<1>4. LocksAgree'
  BY DEF Unlink, Goto, Opened, Doing, LockOK, Threads, StepOK, LocksAgree
<1>5. OpenIsNamed'
  <2> SUFFICES ASSUME ~raced', NEW f \in Engines
               PROVE  /\ pc'[f].fd # 0 => file'[pc'[f].id] = pc'[f].fd
                      /\ \A k \in Ids :
                           lock'[f][k] # 0 => file'[k] = lock'[f][k]
    BY DEF OpenIsNamed
  <2>1. ~raced /\ lock' = lock /\ pc[e].id \in Ids /\ lock[e][pc[e].id] = 0
        /\ pc[e].fd = 0 /\ file' = [file EXCEPT ![pc[e].id] = 0]
        /\ pc'[f].fd = pc[f].fd /\ pc'[f].id = pc[f].id
    BY SMTT(30) DEF Unlink, Goto, Doing, LockOK, Threads, StepOK, Making
  <2>2. f # e => file[pc[e].id] = 0 \/ ~Opened(f, file[pc[e].id])
    BY DEF Unlink, Doing
  <2>3. \A k \in Ids : lock[f][k] # 0 => k # pc[e].id /\ file[k] = lock[f][k]
    BY <2>1, <2>2 DEF OpenIsNamed, Opened, LockOK
  <2>4. pc[f].fd # 0 => pc[f].id # pc[e].id /\ file[pc[f].id] = pc[f].fd
                        /\ pc[f].id \in Ids
    BY <2>1, <2>2 DEF OpenIsNamed, Opened, LockOK, StepOK, Making
  <2> QED  BY <2>1, <2>3, <2>4 DEF LockOK
<1>6. Owned'
  BY DEF Unlink, Goto, Opened, Doing, LockOK, Threads, StepOK, Making, Locked,
     Owned
<1>7. OwnWorkspaceIntact'
  BY DEF Unlink, Goto, Opened, Doing, LockOK, Threads, StepOK, Making,
     OwnWorkspaceIntact
<1> QED  BY <1>1, <1>2, <1>3, <1>4, <1>5, <1>6, <1>7

LEMMA CloseStep ==
  ASSUME Inv, NEW e \in Engines, Close(e)
  PROVE  Inv'
<1> USE WorkspacesAssumption DEF Inv
<1>1. LockOK'
  BY DEF Close, Become, At, Doing, LockOK, Threads, Steps
<1>2. StepOK'
  BY DEF Close, Become, At, Doing, LockOK, Threads, StepOK, Making, Locked
<1>3. InodesApart'
  <2>1. \A i \in Inodes, j \in Ids : InodeOf(j, i)' => InodeOf(j, i)
    BY DEF Close, Become, At, Doing, LockOK, Threads, StepOK, InodeOf, Named,
       Loaded, Registered
  <2> QED  BY <2>1, StillApart
<1>4. LocksAgree'
  BY DEF Close, Become, At, Doing, LockOK, Threads, StepOK, LocksAgree
<1>5. OpenIsNamed'
  BY DEF Close, Become, At, Doing, LockOK, Threads, StepOK, OpenIsNamed
<1>6. Owned'
  BY DEF Close, Become, At, Doing, LockOK, Threads, StepOK, Making, Locked,
     Owned
<1>7. OwnWorkspaceIntact'
  BY DEF Close, Become, At, Doing, LockOK, Threads, StepOK, Making,
     OwnWorkspaceIntact
<1> QED  BY <1>1, <1>2, <1>3, <1>4, <1>5, <1>6, <1>7

LEMMA CloseTreeStep ==
  ASSUME Inv, NEW e \in Engines, NEW k \in Ids, CloseTree(e, k)
  PROVE  Inv'
<1> USE WorkspacesAssumption DEF Inv
<1>1. LockOK'
  BY DEF CloseTree, Remove, SetTree, SetHeld, Doing, LockOK, Threads, Steps
<1>2. StepOK'
  BY DEF CloseTree, Remove, SetTree, SetHeld, Doing, LockOK, Threads, StepOK,
     Making, Locked
<1>3. InodesApart'
  BY DEF CloseTree, Remove, SetTree, SetHeld, Doing, LockOK, Threads, StepOK,
     Making, Locked,
         InodesApart, InodeOf, Named, Loaded, Registered
<1>4. LocksAgree'
  BY DEF CloseTree, Remove, SetTree, SetHeld, Doing, LockOK, Threads, StepOK,
     LocksAgree
<1>5. OpenIsNamed'
  BY DEF CloseTree, Remove, SetTree, SetHeld, Doing, LockOK, Threads, StepOK,
     OpenIsNamed
<1>6. Owned'
  BY DEF CloseTree, Remove, SetTree, SetHeld, Doing, LockOK, Threads, StepOK,
     Making, Locked, Owned
<1>7. OwnWorkspaceIntact'
  BY DEF CloseTree, Remove, SetTree, SetHeld, Doing, LockOK, Threads, StepOK,
     Making, OwnWorkspaceIntact
<1> QED  BY <1>1, <1>2, <1>3, <1>4, <1>5, <1>6, <1>7

LEMMA CloseLockStep ==
  ASSUME Inv, NEW e \in Engines, NEW k \in Ids, CloseLock(e, k)
  PROVE  Inv'
<1> USE WorkspacesAssumption DEF Inv
<1>1. LockOK'
  BY DEF CloseLock, Doing, LockOK, Threads, Steps
<1>2. StepOK'
  BY DEF CloseLock, Doing, LockOK, Threads, StepOK, Making, Locked
<1>3. InodesApart'
  BY DEF CloseLock, Doing, LockOK, Threads, StepOK, Making, Locked,
         InodesApart, InodeOf, Named, Loaded, Registered
<1>4. LocksAgree'
  BY DEF CloseLock, Doing, LockOK, Threads, StepOK, LocksAgree
<1>5. OpenIsNamed'
  BY DEF CloseLock, Doing, LockOK, Threads, StepOK, OpenIsNamed
<1>6. Owned'
  BY DEF CloseLock, Doing, LockOK, Threads, StepOK, Making, Locked, Owned
<1>7. OwnWorkspaceIntact'
  BY DEF CloseLock, Doing, LockOK, Threads, StepOK, Making, OwnWorkspaceIntact
<1> QED  BY <1>1, <1>2, <1>3, <1>4, <1>5, <1>6, <1>7

LEMMA CloseDoneStep ==
  ASSUME Inv, NEW e \in Engines, CloseDone(e)
  PROVE  Inv'
<1> USE WorkspacesAssumption DEF Inv
<1>1. LockOK'
  BY DEF CloseDone, Become, Down, At, Doing, LockOK, Threads, Steps
<1>2. StepOK'
  BY DEF CloseDone, Become, Down, At, Doing, LockOK, Threads, StepOK, Making,
     Locked
<1>3. InodesApart'
  BY DEF CloseDone, Become, Down, At, Doing, LockOK, Threads, StepOK, Making,
     Locked,
         InodesApart, InodeOf, Named, Loaded, Registered
<1>4. LocksAgree'
  BY DEF CloseDone, Become, Down, At, Doing, LockOK, Threads, StepOK, LocksAgree
<1>5. OpenIsNamed'
  BY DEF CloseDone, Become, Down, At, Doing, LockOK, Threads, StepOK,
     OpenIsNamed
<1>6. Owned'
  BY DEF CloseDone, Become, Down, At, Doing, LockOK, Threads, StepOK, Making,
     Locked, Owned
<1>7. OwnWorkspaceIntact'
  BY DEF CloseDone, Become, Down, At, Doing, LockOK, Threads, StepOK, Making,
     OwnWorkspaceIntact
<1> QED  BY <1>1, <1>2, <1>3, <1>4, <1>5, <1>6, <1>7

LEMMA LeaveStep ==
  ASSUME Inv, NEW e \in Engines, Leave(e)
  PROVE  Inv'
<1> USE WorkspacesAssumption DEF Inv
<1>1. LockOK'
  BY DEF Leave, Become, At, Doing, LockOK, Threads, Steps
<1>2. StepOK'
  BY DEF Leave, Become, At, Doing, LockOK, Threads, StepOK, Making, Locked
<1>3. InodesApart'
  <2>1. \A i \in Inodes, j \in Ids : InodeOf(j, i)' => InodeOf(j, i)
    BY DEF Leave, Become, At, Doing, LockOK, Threads, StepOK, InodeOf, Named,
       Loaded, Registered
  <2> QED  BY <2>1, StillApart
<1>4. LocksAgree'
  BY DEF Leave, Become, At, Doing, LockOK, Threads, StepOK, LocksAgree
<1>5. OpenIsNamed'
  BY DEF Leave, Become, At, Doing, LockOK, Threads, StepOK, OpenIsNamed
<1>6. Owned'
  BY DEF Leave, Become, At, Doing, LockOK, Threads, StepOK, Making, Locked,
     Owned
<1>7. OwnWorkspaceIntact'
  BY DEF Leave, Become, At, Doing, LockOK, Threads, StepOK, Making,
     OwnWorkspaceIntact
<1> QED  BY <1>1, <1>2, <1>3, <1>4, <1>5, <1>6, <1>7

LEMMA StartStep ==
  ASSUME Inv, NEW e \in Engines, Start(e)
  PROVE  Inv'
<1> USE WorkspacesAssumption DEF Inv
<1>1. LockOK'
  BY DEF Start, Become, Idle, At, Doing, LockOK, Threads, Steps
<1>2. StepOK'
  BY DEF Start, Become, Idle, At, Doing, LockOK, Threads, StepOK, Making, Locked
<1>3. InodesApart'
  <2>1. \A i \in Inodes, j \in Ids : InodeOf(j, i)' => InodeOf(j, i)
    BY DEF Start, Become, Idle, At, Doing, LockOK, Threads, StepOK, InodeOf,
       Named, Loaded, Registered
  <2> QED  BY <2>1, StillApart
<1>4. LocksAgree'
  BY DEF Start, Become, Idle, At, Doing, LockOK, Threads, StepOK, LocksAgree
<1>5. OpenIsNamed'
  BY DEF Start, Become, Idle, At, Doing, LockOK, Threads, StepOK, OpenIsNamed
<1>6. Owned'
  BY DEF Start, Become, Idle, At, Doing, LockOK, Threads, StepOK, Making,
     Locked, Owned
<1>7. OwnWorkspaceIntact'
  BY DEF Start, Become, Idle, At, Doing, LockOK, Threads, StepOK, Making,
     OwnWorkspaceIntact
<1> QED  BY <1>1, <1>2, <1>3, <1>4, <1>5, <1>6, <1>7

LEMMA CrashStep ==
  ASSUME Inv, NEW e \in Engines, Crash(e)
  PROVE  Inv'
<1> USE WorkspacesAssumption DEF Inv
<1>1. LockOK'
  BY DEF Crash, Become, Down, At, Doing, LockOK, Threads, Steps
<1>2. StepOK'
  BY DEF Crash, Become, Down, At, Doing, LockOK, Threads, StepOK, Making, Locked
<1>3. InodesApart'
  <2>1. \A i \in Inodes, j \in Ids : InodeOf(j, i)' => InodeOf(j, i)
    BY DEF Crash, Become, Down, At, Doing, LockOK, Threads, StepOK, InodeOf,
       Named, Loaded, Registered
  <2> QED  BY <2>1, StillApart
<1>4. LocksAgree'
  BY DEF Crash, Become, Down, At, Doing, LockOK, Threads, StepOK, LocksAgree
<1>5. OpenIsNamed'
  BY DEF Crash, Become, Down, At, Doing, LockOK, Threads, StepOK, OpenIsNamed
<1>6. Owned'
  BY DEF Crash, Become, Down, At, Doing, LockOK, Threads, StepOK, Making,
     Locked, Owned
<1>7. OwnWorkspaceIntact'
  BY DEF Crash, Become, Down, At, Doing, LockOK, Threads, StepOK, Making,
     OwnWorkspaceIntact
<1> QED  BY <1>1, <1>2, <1>3, <1>4, <1>5, <1>6, <1>7

LEMMA ReleaseStep ==
  ASSUME Inv, NEW e \in Engines, NEW k \in Ids, Release(e, k)
  PROVE  Inv'
<1> USE WorkspacesAssumption DEF Inv
<1>1. LockOK'
  BY DEF Release, Remove, SetTree, SetHeld, Doing, LockOK, Threads, Steps
<1>2. StepOK'
  BY DEF Release, Remove, SetTree, SetHeld, Doing, LockOK, Threads, StepOK,
     Making, Locked
<1>3. InodesApart'
  BY DEF Release, Remove, SetTree, SetHeld, Doing, LockOK, Threads, StepOK,
     Making, Locked,
         InodesApart, InodeOf, Named, Loaded, Registered
<1>4. LocksAgree'
  BY DEF Release, Remove, SetTree, SetHeld, Doing, LockOK, Threads, StepOK,
     LocksAgree
<1>5. OpenIsNamed'
  BY DEF Release, Remove, SetTree, SetHeld, Doing, LockOK, Threads, StepOK,
     OpenIsNamed
<1>6. Owned'
  BY DEF Release, Remove, SetTree, SetHeld, Doing, LockOK, Threads, StepOK,
     Making, Locked, Owned
<1>7. OwnWorkspaceIntact'
  BY DEF Release, Remove, SetTree, SetHeld, Doing, LockOK, Threads, StepOK,
     Making, OwnWorkspaceIntact
<1> QED  BY <1>1, <1>2, <1>3, <1>4, <1>5, <1>6, <1>7

LEMMA ReleaseAsideStep ==
  ASSUME Inv, NEW e \in Engines, NEW k \in Ids, ReleaseAside(e, k)
  PROVE  Inv'
<1> USE WorkspacesAssumption DEF Inv
<1>1. LockOK'
  BY DEF ReleaseAside, SetHeld, Doing, LockOK, Threads, Steps
<1>2. StepOK'
  BY DEF ReleaseAside, SetHeld, Doing, LockOK, Threads, StepOK, Making, Locked
<1>3. InodesApart'
  <2>1. \A i \in Inodes, j \in Ids : InodeOf(j, i)' => InodeOf(j, i)
    BY DEF ReleaseAside, SetHeld, Doing, LockOK, Threads, StepOK, InodeOf,
       Named, Loaded, Registered
  <2> QED  BY <2>1, StillApart
<1>4. LocksAgree'
  BY DEF ReleaseAside, SetHeld, Doing, LockOK, Threads, StepOK, LocksAgree
<1>5. OpenIsNamed'
  BY DEF ReleaseAside, SetHeld, Doing, LockOK, Threads, StepOK, OpenIsNamed
<1>6. Owned'
  BY DEF ReleaseAside, SetHeld, Doing, LockOK, Threads, StepOK, Making, Locked,
     Owned
<1>7. OwnWorkspaceIntact'
  BY DEF ReleaseAside, SetHeld, Doing, LockOK, Threads, StepOK, Making,
     OwnWorkspaceIntact
<1> QED  BY <1>1, <1>2, <1>3, <1>4, <1>5, <1>6, <1>7

LEMMA QuarantineStep ==
  ASSUME Inv, NEW e \in Engines, NEW k \in Ids, Quarantine(e, k)
  PROVE  Inv'
<1> USE WorkspacesAssumption DEF Inv
<1>1. LockOK'
  BY DEF Quarantine, Doing, LockOK, Threads, Steps
<1>2. StepOK'
  BY DEF Quarantine, Doing, LockOK, Threads, StepOK, Making, Locked
<1>3. InodesApart'
  <2>1. \A i \in Inodes, j \in Ids : InodeOf(j, i)' => InodeOf(j, i)
    BY DEF Quarantine, Doing, LockOK, Threads, StepOK, InodeOf,
       Named, Loaded, Registered
  <2> QED  BY <2>1, StillApart
<1>4. LocksAgree'
  BY DEF Quarantine, Doing, LockOK, Threads, StepOK, LocksAgree
<1>5. OpenIsNamed'
  BY DEF Quarantine, Doing, LockOK, Threads, StepOK, OpenIsNamed
<1>6. Owned'
  BY DEF Quarantine, Doing, LockOK, Threads, StepOK, Making, Locked,
     Owned
<1>7. OwnWorkspaceIntact'
  BY DEF Quarantine, Doing, LockOK, Threads, StepOK, Making,
     OwnWorkspaceIntact
<1> QED  BY <1>1, <1>2, <1>3, <1>4, <1>5, <1>6, <1>7

\* Inv holds at first.
LEMMA InvInit ==
  Init => Inv
<1> USE WorkspacesAssumption
<1> SUFFICES ASSUME Init PROVE Inv
  OBVIOUS
<1>1. LockOK
  BY DEF Init, LockOK, Threads, Idle, At, Steps
<1>2. StepOK
  BY DEF Init, StepOK, Making, Locked, Idle, At
<1>3. InodesApart
  BY DEF Init, InodesApart, InodeOf, Named, Loaded, Registered, Idle, At
<1>4. LocksAgree /\ OpenIsNamed /\ Owned /\ OwnWorkspaceIntact
  BY DEF Init, LocksAgree, OpenIsNamed, Owned, OwnWorkspaceIntact, Idle, At
<1> QED  BY <1>1, <1>2, <1>3, <1>4 DEF Inv

\* Inv is inductive.
LEMMA InvStep ==
  Inv /\ [Next]_vars => Inv'
<1> SUFFICES ASSUME Inv, [Next]_vars PROVE Inv'
  OBVIOUS
<1>1. CASE UNCHANGED vars
  BY <1>1 DEF vars, Inv, LockOK, StepOK, InodesApart, InodeOf, Named, Loaded,
              Registered, LocksAgree, OpenIsNamed, Owned, OwnWorkspaceIntact
<1>2. CASE Next
  <2> SUFFICES ASSUME NEW e \in Engines,
                      \/ Serve(e) \/ Shut(e) \/ Close(e) \/ Leave(e)
                      \/ Start(e) \/ Crash(e)
                      \/ \E k \in Ids : \/ Ask(e, k) \/ Release(e, k)
                                       \/ ReleaseAside(e, k) \/ Quarantine(e, k)
               PROVE  Inv'
    BY <1>2 DEF Next
  <2>1. CASE Serve(e)
    BY <2>1, OpenStep, OpenRaisesStep, FlockStep, FlockFailsStep, CheckStep,
       CleanStep, ReopenStep, ReflockStep, BuildStep, BuildFailsStep, AsideStep,
       AsideFailsStep, RejectStep, EvictStep, NoUnlockStep, UnlockStep,
       UnlinkStep DEF Serve
  <2>2. CASE Shut(e)
    BY <2>2, CloseTreeStep, CloseLockStep, CloseDoneStep DEF Shut
  <2>3. CASE Close(e) \/ Leave(e) \/ Start(e) \/ Crash(e)
    BY <2>3, CloseStep, LeaveStep, StartStep, CrashStep
  <2>4. CASE \E k \in Ids : \/ Ask(e, k) \/ Release(e, k)
                          \/ ReleaseAside(e, k) \/ Quarantine(e, k)
    BY <2>4, AskStep, ReleaseStep, ReleaseAsideStep, QuarantineStep
  <2> QED  BY <2>1, <2>2, <2>3, <2>4
<1> QED  BY <1>1, <1>2

\* Every reachable state satisfies Inv.
LEMMA Invariance ==
  Spec => []Inv
  BY InvInit, InvStep, PTL DEF Spec

\* An engine has the lock of every workspace it has (create_worktree).
THEOREM OwnersLock ==
  Spec => []OwnerHoldsLock
<1>1. Inv => OwnerHoldsLock
  BY DEF Inv, Owned, LocksAgree, OwnerHoldsLock
<1> QED  BY <1>1, Invariance, PTL

\* At most one engine has the lock of a rollout, unless a lock path was
\* unlinked under another (_acquire_rollout_lock, _release_rollout_lock).
THEOREM LocksExclude ==
  Spec => []OneLockPerRollout
<1>1. Inv => OneLockPerRollout
  BY Alone DEF OneLockPerRollout
<1> QED  BY <1>1, Invariance, PTL

\* The workspace of an engine stays its own, up to the two holes.
THEOREM WorkspacesStand ==
  Spec => []OwnWorkspaceIntact
  BY Invariance, PTL DEF Inv

\* An engine with a workspace in quarantine has that workspace and is not
\* cleaning up; nor does one that rests go on with a cleanup.
Kept ==
  /\ quarantined \in [Engines -> [Ids -> BOOLEAN]]
  /\ \A e \in Engines :
       /\ \A k \in Ids : quarantined[e][k] =>
            held[e][k] # "none" /\ pc[e].at # "close" /\ pc[e].then # "close"
       /\ pc[e].at = "idle" => pc[e].then = "idle"

\* A step of e that quarantines nothing.
LEMMA StillKept ==
  ASSUME Kept, NEW e \in Engines, UNCHANGED quarantined,
         \A f \in Engines \ {e} : UNCHANGED <<pc[f], held[f]>>,
         \A k \in Ids : quarantined[e][k] =>
           held'[e][k] # "none" /\ pc'[e].at # "close" /\ pc'[e].then # "close",
         pc'[e].at = "idle" => pc'[e].then = "idle"
  PROVE  Kept'
  BY DEF Kept

\* A step in the middle of an operation takes no workspace away.
LEMMA ServeKeeps ==
  ASSUME Inv, Kept, NEW e \in Engines, Serve(e)
  PROVE  Kept'
<1> USE DEF Inv, LockOK, Threads
<1>1. UNCHANGED quarantined /\ \A f \in Engines \ {e} : UNCHANGED pc[f]
  BY SMTT(30) DEF Serve, Open, OpenRaises, Flock, FlockFails, Check, Clean, Reopen,
     Reflock, Build, BuildFails, Aside, AsideFails, Reject, Evict, NoUnlock,
     Unlock, Unlink, OpenLock, Take, Goto, Become
<1>2. /\ \A f \in Engines \ {e} : UNCHANGED held[f]
      /\ \A k \in Ids : held'[e][k] # held[e][k] => held'[e][k] # "none"
  BY SMTT(30) DEF Serve, Open, OpenRaises, Flock, FlockFails, Check, Clean, Reopen,
     Reflock, Build, BuildFails, Aside, AsideFails, Reject, Evict, NoUnlock,
     Unlock, Unlink, OpenLock, Take, SetHeld
<1>3. pc'[e].then \in {pc[e].then, "idle", "reject"}
  BY SMTT(30) DEF Serve, Open, OpenRaises, Flock, FlockFails, Check, Clean, Reopen,
     Reflock, Build, BuildFails, Aside, AsideFails, Reject, Evict, NoUnlock,
     Unlock, Unlink, OpenLock, Take, Goto, Become, Idle, At
<1>4. /\ pc'[e].at = "close" => pc[e].then = "close"
      /\ pc'[e].at = "idle" => pc'[e].then = "idle"
  <2>1. CASE NoUnlock(e) \/ Unlink(e)
    BY <2>1 DEF NoUnlock, Unlink, Goto
  <2>2. CASE Build(e) \/ Aside(e) \/ Reject(e)
    BY <2>2 DEF Build, Aside, Reject, Become, Idle, At
  <2>3. CASE \/ Open(e) \/ OpenRaises(e) \/ Flock(e) \/ FlockFails(e)
             \/ Check(e) \/ Clean(e)
    BY <2>3 DEF Open, OpenRaises, Flock, FlockFails, Check, Clean, OpenLock,
       Take, Goto, Doing
  <2>4. CASE \/ Reopen(e) \/ Reflock(e) \/ BuildFails(e) \/ AsideFails(e)
             \/ Evict(e) \/ Unlock(e)
    BY <2>4 DEF Reopen, Reflock, BuildFails, AsideFails, Evict, Unlock,
       OpenLock, Take, Goto
  <2> QED  BY <2>1, <2>2, <2>3, <2>4 DEF Serve
<1>5. ASSUME NEW k \in Ids, quarantined[e][k]
      PROVE  /\ held'[e][k] # "none"
             /\ pc'[e].at # "close" /\ pc'[e].then # "close"
  BY <1>2, <1>3, <1>4, <1>5 DEF Kept
<1> QED  BY <1>1, <1>2, <1>4, <1>5, StillKept

\* A cleanup runs only where nothing is quarantined.
LEMMA ShutKeeps ==
  ASSUME Inv, Kept, NEW e \in Engines, Shut(e)
  PROVE  Kept'
<1> USE DEF Inv, LockOK, Threads
<1>1. \A k \in Ids : ~quarantined[e][k]
  BY DEF Shut, CloseDone, CloseTree, CloseLock, Doing, Kept
<1>2. CASE CloseDone(e)
  BY <1>1, <1>2, StillKept DEF CloseDone, Become, Down, At
<1>3. ASSUME NEW k \in Ids, CloseTree(e, k) \/ CloseLock(e, k)
      PROVE  Kept'
  <2>1. UNCHANGED quarantined /\ \A j \in Ids : ~quarantined[e][j]
    BY <1>1, <1>3 DEF CloseTree, CloseLock, Remove
  <2>2. \A f \in Engines \ {e} : UNCHANGED <<pc[f], held[f]>>
    BY <1>3 DEF CloseTree, CloseLock, Remove, SetHeld
  <2>3. pc'[e].at = "unlock"
    BY <1>3 DEF CloseTree, CloseLock, Remove
  <2> QED  BY <2>1, <2>2, <2>3, StillKept
<1> QED  BY <1>2, <1>3 DEF Shut

LEMMA KeptStep ==
  ASSUME Inv, Kept, [Next]_vars
  PROVE  Kept'
<1> USE DEF Inv, LockOK, Threads
<1>1. CASE UNCHANGED vars
  BY <1>1 DEF vars, Kept
<1>2. ASSUME NEW e \in Engines, Close(e) \/ Leave(e) \/ Start(e)
      PROVE  Kept'
  <2>1. UNCHANGED <<quarantined, held>>
        /\ \A f \in Engines \ {e} : UNCHANGED pc[f]
    BY <1>2 DEF Close, Leave, Start, Become
  <2>2. CASE Close(e)
    BY <2>1, <2>2, StillKept DEF Close, Become, At
  <2>3. CASE Leave(e) \/ Start(e)
    <3>1. pc'[e].at \in {"left", "idle"} /\ pc'[e].then = "idle"
      BY <2>3 DEF Leave, Start, Become, Idle, At
    <3> QED  BY <2>1, <3>1, StillKept DEF Kept
  <2> QED  BY <1>2, <2>2, <2>3
<1>3. ASSUME NEW e \in Engines, Crash(e)
      PROVE  Kept'
  BY <1>3 DEF Crash, Become, Down, At, Kept
<1>4. ASSUME NEW e \in Engines, NEW k \in Ids,
             Ask(e, k) \/ Release(e, k) \/ ReleaseAside(e, k)
      PROVE  Kept'
  <2>1. UNCHANGED quarantined
        /\ \A f \in Engines \ {e} : UNCHANGED <<pc[f], held[f]>>
    BY <1>4 DEF Ask, Release, Remove, ReleaseAside, SetHeld
  <2>2. \A j \in Ids : quarantined[e][j] => UNCHANGED held[e][j]
    BY <1>4 DEF Ask, Release, Remove, ReleaseAside, SetHeld
  <2>3. CASE Ask(e, k) \/ Release(e, k)
    <3>1. pc'[e].at \in {"open", "unlock"} /\ pc'[e].then = "idle"
      BY <2>3 DEF Ask, Release, Remove
    <3>2. \A j \in Ids : quarantined[e][j] => held'[e][j] # "none"
      BY <2>2 DEF Kept
    <3> QED  BY <2>1, <3>1, <3>2, StillKept
  <2>4. CASE ReleaseAside(e, k)
    <3>1. pc' = pc
      BY <2>4 DEF ReleaseAside
    <3>2. \A j \in Ids : quarantined[e][j] => held'[e][j] # "none"
      BY <2>2 DEF Kept
    <3>3. /\ \A j \in Ids : quarantined[e][j] =>
               pc'[e].at # "close" /\ pc'[e].then # "close"
          /\ pc'[e].at = "idle" => pc'[e].then = "idle"
      BY <3>1 DEF Kept
    <3> QED  BY <2>1, <3>2, <3>3, StillKept
  <2> QED  BY <1>4, <2>3, <2>4
<1>5. ASSUME NEW e \in Engines, NEW k \in Ids, Quarantine(e, k)
      PROVE  Kept'
  BY <1>5 DEF Quarantine, Doing, Kept
<1> QED  BY <1>1, <1>2, <1>3, <1>4, <1>5, ServeKeeps, ShutKeeps DEF Next

LEMMA KeptInvariance ==
  Spec => []Kept
<1>1. Init => Kept
  BY DEF Init, Kept, Idle, At
<1> QED  BY <1>1, KeptStep, Invariance, PTL DEF Spec

\* Every variable has its type.
THEOREM TypeCorrect ==
  Spec => []TypeOK
<1>1. Inv /\ Kept => TypeOK
  BY DEF Inv, Kept, TypeOK
<1> QED  BY <1>1, Invariance, KeptInvariance, PTL

\* A cleanup takes all, or leaves what is quarantined with its lock (cleanup,
\* cleanup_all).
THEOREM CleanupIsComplete ==
  Spec => []CleanupAllOrNothing
<1>1. Inv /\ Kept => CleanupAllOrNothing
  <2> SUFFICES ASSUME Inv, Kept, NEW e \in Engines
               PROVE  /\ Doing(e, "down") =>
                           /\ \A i \in Inodes : flock[i] # e
                           /\ \A k \in Ids : tree[k] # e
                      /\ \A k \in Ids : quarantined[e][k] =>
                           /\ held[e][k] # "none"
                           /\ held[e][k] = "own" => \E i \in Inodes :
                                lock[e][k] = i /\ flock[i] = e
    BY DEF CleanupAllOrNothing
  <2>1. ASSUME Doing(e, "down")
        PROVE  /\ \A i \in Inodes : flock[i] # e
               /\ \A k \in Ids : tree[k] # e
    BY <2>1, WorkspacesAssumption
       DEF Inv, LockOK, StepOK, LocksAgree, Owned, Doing
  <2>2. ASSUME NEW k \in Ids, held[e][k] = "own"
        PROVE  lock[e][k] \in Inodes /\ flock[lock[e][k]] = e
    BY <2>2 DEF Inv, LockOK, Owned, LocksAgree
  <2> QED  BY <2>1, <2>2 DEF Kept
<1> QED  BY <1>1, Invariance, KeptInvariance, PTL
=============================================================================
