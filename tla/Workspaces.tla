----------------------------- MODULE Workspaces -----------------------------
(***************************************************************************)
(* Locked rollout workspaces (GitWorktreeManager, with its callers         *)
(* prepare_request_workspace, _create_legacy_worktree_with_collision_retry *)
(* and RolloutEngine.cleanup in apex/rollout/engine.py) of several engines *)
(* that share one workspace directory.                                     *)
(*                                                                         *)
(* A rollout has a directory and a lock file.  The lock is an flock on the *)
(* inode that the path of the lock file names when it is opened; releasing *)
(* it unlinks the path.  An engine has one scheduler thread, which creates *)
(* and removes its workspaces; a step of this module is one system call,   *)
(* or what Python does between two of them.                                *)
(***************************************************************************)
EXTENDS Naturals, FiniteSets

CONSTANTS
  Engines,    \* RolloutEngine objects with this workspace_dir
  Ids,        \* rollout ids
  Inodes,     \* bound: inodes of lock files, used again when unused
  SetupFails  \* may the set-up of a workspace raise?

ASSUME WorkspacesAssumption ==
  /\ Inodes \subseteq Nat \ {0}
  /\ SetupFails \in BOOLEAN
  /\ Engines \cap {"absent", "stale", "none"} = {}

VARIABLES
  lockdir,  \* .locks: "absent", "present", or "littered" with a fresh key
  file,     \* id -> the inode its lock path names, or 0
  flock,    \* inode -> the engine whose descriptor has it locked, or "none"
  tree,     \* id -> "absent", "stale", or the engine that built rollout_<id>
  lock,     \* engine -> id -> inode of the descriptor in _locks, or 0
  held,     \* engine -> id -> "none", "own" workspace, or "aside": a fresh key
  pc,       \* engine -> [at, id, fd, then]: what its thread does
  quarantined, \* engine -> id -> is its workspace quarantined?
  raced,    \* history: a lock path was unlinked while another had it open
  evicted   \* history: a failed set-up removed the workspace of another

vars == <<lockdir, file, flock, tree, lock, held, pc, quarantined, raced, evicted>>

Steps == {"down", "idle", "open", "flock", "check", "clean", "reopen",
          "reflock", "build", "aside", "unlock", "unlink", "reject", "close",
          "left"}
Threads == [at : Steps, id : Ids \cup {0}, fd : Inodes \cup {0},
            then : {"idle", "reject", "close"}]
At(step) == [at |-> step, id |-> 0, fd |-> 0, then |-> "idle"]
Down == At("down")
Idle == At("idle")

Init ==
  /\ lockdir \in {"absent", "present"}
  /\ file = [k \in Ids |-> 0]
  /\ flock = [i \in Inodes |-> "none"]
  /\ tree \in [Ids -> {"absent", "stale"}]
  /\ lock = [e \in Engines |-> [k \in Ids |-> 0]]
  /\ held = [e \in Engines |-> [k \in Ids |-> "none"]]
  /\ pc = [e \in Engines |-> Idle]
  /\ quarantined = [e \in Engines |-> [k \in Ids |-> FALSE]]
  /\ raced = FALSE /\ evicted = FALSE

Goto(e, step) == pc' = [pc EXCEPT ![e].at = step]
Become(e, state) == pc' = [pc EXCEPT ![e] = state]
Doing(e, step) == pc[e].at = step
SetHeld(e, k, what) == held' = [held EXCEPT ![e][k] = what]
SetTree(k, what) == tree' = [tree EXCEPT ![k] = what]

\* An engine that has the inode i open.
Opened(e, i) == pc[e].fd = i \/ \E k \in Ids : lock[e][k] = i
Unused(i) == /\ \A k \in Ids : file[k] # i
             /\ \A e \in Engines : ~Opened(e, i)

\* mkdir(exist_ok=True) of the lock directory.
Made == IF lockdir = "absent" THEN "present" ELSE lockdir

\* A rollout request comes to an engine: the lock directory is made.
Ask(e, k) ==
  /\ Doing(e, "idle") /\ held[e][k] = "none"
  /\ lockdir' = Made
  /\ pc' = [pc EXCEPT ![e] = [at |-> "open", id |-> k, fd |-> 0,
                              then |-> "idle"]]
  /\ UNCHANGED <<file, flock, tree, lock, held, raced, evicted, quarantined>>

\* Mutated form: each engine makes a file of its own.
OpenNew(e, next) ==
  LET k == pc[e].id
  IN  /\ lockdir # "absent"
      /\ \E i \in Inodes :
           /\ Unused(i) /\ \A j \in Inodes : Unused(j) => i <= j
           /\ file' = [file EXCEPT ![k] = i]
           /\ pc' = [pc EXCEPT ![e].at = next, ![e].fd = i]
      /\ UNCHANGED <<lockdir, flock, tree, lock, held, raced, evicted, quarantined>>

\* open(lock_path, "a+"): the inode that the path names, or a new one.
OpenLock(e, next) ==
  LET k == pc[e].id
  IN  /\ lockdir # "absent"
      /\ \E i \in Inodes :
           /\ IF file[k] # 0 THEN i = file[k]
              ELSE Unused(i) /\ \A j \in Inodes : Unused(j) => i <= j
           /\ file' = [file EXCEPT ![k] = i]
           /\ pc' = [pc EXCEPT ![e].at = next, ![e].fd = i]
      /\ UNCHANGED <<lockdir, flock, tree, lock, held, raced, evicted, quarantined>>

Open(e) == Doing(e, "open") /\ OpenLock(e, "flock")
Reopen(e) == Doing(e, "reopen") /\ OpenLock(e, "reflock")

\* Another engine has removed the lock directory since it was made: open
\* raises; a lock taken before is released.
OpenRaises(e) ==
  /\ pc[e].at \in {"open", "reopen"} /\ lockdir = "absent"
  /\ pc' = IF Doing(e, "open") THEN [pc EXCEPT ![e].at = "reject"]
           ELSE [pc EXCEPT ![e].at = "unlock", ![e].then = "reject"]
  /\ UNCHANGED <<lockdir, file, flock, tree, lock, held, raced, evicted, quarantined>>

\* Mutated form: the result of the system call is not looked at.
TakeBlind(e, next) ==
  LET k == pc[e].id
      i == pc[e].fd
  IN  /\ flock' = [j \in Inodes |-> IF j = i THEN e
                                    ELSE IF j = lock[e][k] THEN "none" ELSE flock[j]]
      /\ lock' = [lock EXCEPT ![e][k] = i]
      /\ pc' = [pc EXCEPT ![e].at = next, ![e].fd = 0]
      /\ UNCHANGED <<lockdir, file, tree, held, raced, evicted, quarantined>>

\* flock(LOCK_EX | LOCK_NB) on a new descriptor: it fails against every other
\* descriptor of the inode, one of the same engine included.  A descriptor
\* that it replaces in _locks is closed, and its lock with it.
Take(e, next) ==
  LET k == pc[e].id
      i == pc[e].fd
  IN  /\ flock[i] = "none"
      /\ flock' = [j \in Inodes |-> IF j = i THEN e
                                    ELSE IF j = lock[e][k] THEN "none" ELSE flock[j]]
      /\ lock' = [lock EXCEPT ![e][k] = i]
      /\ pc' = [pc EXCEPT ![e].at = next, ![e].fd = 0]
      /\ UNCHANGED <<lockdir, file, tree, held, raced, evicted, quarantined>>

Flock(e) == Doing(e, "flock") /\ Take(e, "check")
Reflock(e) == Doing(e, "reflock") /\ Take(e, "build")

\* Mutated form: the same key is tried again.
FlockRetries(e) ==
  /\ pc[e].at \in {"flock", "reflock"} /\ flock[pc[e].fd] # "none"
  /\ pc' = [pc EXCEPT ![e].at = "open", ![e].fd = 0]
  /\ UNCHANGED <<lockdir, file, flock, tree, lock, held, raced, evicted, quarantined>>

\* Mutated form: the creation goes on.
FlockIgnored(e) ==
  /\ pc[e].at \in {"flock", "reflock"} /\ flock[pc[e].fd] # "none"
  /\ pc' = [pc EXCEPT ![e].at = "check", ![e].fd = 0]
  /\ UNCHANGED <<lockdir, file, flock, tree, lock, held, raced, evicted, quarantined>>

\* The lock is taken: ConcurrentWorktreeError, and another attempt with a
\* fresh key.  A lock that this attempt registered before stays registered.
FlockFails(e) ==
  /\ pc[e].at \in {"flock", "reflock"} /\ flock[pc[e].fd] # "none"
  /\ pc' = [pc EXCEPT ![e].at = "aside", ![e].fd = 0]
  /\ UNCHANGED <<lockdir, file, flock, tree, lock, held, raced, evicted, quarantined>>

Check(e) ==
  /\ Doing(e, "check")
  /\ Goto(e, IF tree[pc[e].id] = "absent" THEN "build" ELSE "clean")
  /\ UNCHANGED <<lockdir, file, flock, tree, lock, held, raced, evicted, quarantined>>

\* The directory that was found is removed, the lock kept, and the lock is
\* acquired a second time.
Clean(e) ==
  /\ Doing(e, "clean")
  /\ SetTree(pc[e].id, "absent")
  /\ lockdir' = Made
  /\ Goto(e, "reopen")
  /\ UNCHANGED <<file, flock, lock, held, raced, evicted, quarantined>>

\* The workspace is built, over whatever lies there.
Build(e) ==
  /\ Doing(e, "build")
  /\ SetTree(pc[e].id, e)
  /\ SetHeld(e, pc[e].id, "own")
  /\ Become(e, Idle)
  /\ UNCHANGED <<lockdir, file, flock, lock, raced, evicted, quarantined>>

\* Mutated form: what is left is marked.
BuildFailsPartly(e) ==
  /\ SetupFails /\ Doing(e, "build")
  /\ SetTree(pc[e].id, "partial")
  /\ pc' = [pc EXCEPT ![e].at = "unlock", ![e].then = "reject"]
  /\ UNCHANGED <<lockdir, file, flock, lock, held, raced, evicted, quarantined>>

\* Building raises, before or after it made the directory; the lock is
\* released on the way out.
BuildFails(e) ==
  /\ SetupFails /\ Doing(e, "build")
  /\ \E left \in {tree[pc[e].id], "stale"} : SetTree(pc[e].id, left)
  /\ pc' = [pc EXCEPT ![e].at = "unlock", ![e].then = "reject"]
  /\ UNCHANGED <<lockdir, file, flock, lock, held, raced, evicted, quarantined>>

\* A workspace under a fresh key, which no other engine knows.
Aside(e) ==
  /\ Doing(e, "aside")
  /\ lockdir' = Made
  /\ SetHeld(e, pc[e].id, "aside")
  /\ Become(e, Idle)
  /\ UNCHANGED <<file, flock, tree, lock, raced, evicted, quarantined>>

AsideFails(e) ==
  /\ SetupFails /\ Doing(e, "aside")
  /\ lockdir' = Made
  /\ Goto(e, "reject")
  /\ UNCHANGED <<file, flock, tree, lock, held, raced, evicted, quarantined>>

\* The handler of prepare_request_workspace: the request has failed,
Reject(e) ==
  /\ Doing(e, "reject") /\ tree[pc[e].id] = "absent"
  /\ Become(e, Idle)
  /\ UNCHANGED <<lockdir, file, flock, tree, lock, held, raced, evicted, quarantined>>

\* and the directory rollout_<id>, if it exists, is removed, whoever built it.
Evict(e) ==
  /\ Doing(e, "reject") /\ tree[pc[e].id] # "absent"
  /\ SetTree(pc[e].id, "absent")
  /\ evicted' = (evicted \/ tree[pc[e].id] \in Engines)
  /\ pc' = [pc EXCEPT ![e].at = "unlock", ![e].then = "idle"]
  /\ UNCHANGED <<lockdir, file, flock, lock, held, raced, quarantined>>

\* remove_worktree: the directory first.
Remove(e, k, then) ==
  /\ SetTree(k, "absent")
  /\ SetHeld(e, k, "none")
  /\ pc' = [pc EXCEPT ![e] = [at |-> "unlock", id |-> k, fd |-> 0,
                              then |-> then]]
  /\ UNCHANGED <<lockdir, file, flock, lock, raced, evicted, quarantined>>

\* A finished rollout whose workspace is not kept.
Release(e, k) ==
  /\ Doing(e, "idle") /\ held[e][k] = "own" /\ ~quarantined[e][k]
  /\ Remove(e, k, "idle")

ReleaseAside(e, k) ==
  /\ pc[e].at \in {"idle", "close"} /\ held[e][k] = "aside"
  /\ ~quarantined[e][k]
  /\ SetHeld(e, k, "none")
  /\ UNCHANGED <<lockdir, file, flock, tree, lock, pc, raced, evicted, quarantined>>

\* A call ends and the worker of an abandoned rollout still runs: nothing takes
\* the path out of _quarantined_worktree_paths any more.
Quarantine(e, k) ==
  /\ Doing(e, "idle") /\ held[e][k] # "none"
  /\ quarantined' = [quarantined EXCEPT ![e][k] = TRUE]
  /\ UNCHANGED <<lockdir, file, flock, tree, lock, held, pc, raced, evicted>>

\* _release_rollout_lock: with no descriptor there is nothing to do,
NoUnlock(e) ==
  /\ Doing(e, "unlock") /\ lock[e][pc[e].id] = 0
  /\ Goto(e, pc[e].then)
  /\ UNCHANGED <<lockdir, file, flock, tree, lock, held, raced, evicted, quarantined>>

\* else it is unlocked and closed;
Unlock(e) ==
  LET k == pc[e].id
      i == lock[e][k]
  IN  /\ Doing(e, "unlock") /\ i # 0
      /\ lock' = [lock EXCEPT ![e][k] = 0]
      /\ flock' = [flock EXCEPT ![i] = "none"]
      /\ Goto(e, "unlink")
      /\ UNCHANGED <<lockdir, file, tree, held, raced, evicted, quarantined>>

\* then the path is unlinked, whatever inode it names by now.
Unlink(e) ==
  LET k == pc[e].id
  IN  /\ Doing(e, "unlink")
      /\ file' = [file EXCEPT ![k] = 0]
      /\ raced' = (raced \/ \E f \in Engines \ {e} :
                              file[k] # 0 /\ Opened(f, file[k]))
      /\ Goto(e, pc[e].then)
      /\ UNCHANGED <<lockdir, flock, tree, lock, held, evicted,
                     quarantined>>

LockdirEmpty ==
  /\ lockdir # "littered"
  /\ \A k \in Ids : file[k] = 0 /\ \A e \in Engines : held[e][k] # "aside"

\* Mutated form: the quarantine is not looked at.
CloseBlind(e) ==
  /\ Doing(e, "idle")
  /\ Become(e, At("close"))
  /\ UNCHANGED <<lockdir, file, flock, tree, lock, held, raced, evicted, quarantined>>

\* cleanup, when nothing is quarantined: cleanup_all removes every workspace,
Close(e) ==
  /\ Doing(e, "idle") /\ \A k \in Ids : ~quarantined[e][k]
  /\ Become(e, At("close"))
  /\ UNCHANGED <<lockdir, file, flock, tree, lock, held, raced, evicted, quarantined>>

CloseTree(e, k) ==
  Doing(e, "close") /\ held[e][k] = "own" /\ Remove(e, k, "close")

\* then the locks of creations that bailed out,
CloseLock(e, k) ==
  /\ Doing(e, "close") /\ \A j \in Ids : held[e][j] = "none"
  /\ lock[e][k] # 0
  /\ pc' = [pc EXCEPT ![e] = [at |-> "unlock", id |-> k, fd |-> 0,
                              then |-> "close"]]
  /\ UNCHANGED <<lockdir, file, flock, tree, lock, held, raced, evicted, quarantined>>

\* Mutated form: only the workspaces.
CloseEarly(e) ==
  /\ Doing(e, "close")
  /\ \A k \in Ids : held[e][k] = "none"
  /\ lockdir' = IF LockdirEmpty THEN "absent" ELSE lockdir
  /\ Become(e, Down)
  /\ UNCHANGED <<file, flock, tree, lock, held, raced, evicted, quarantined>>

\* and the lock directory, if it is empty.
CloseDone(e) ==
  /\ Doing(e, "close")
  /\ \A k \in Ids : held[e][k] = "none" /\ lock[e][k] = 0
  /\ lockdir' = IF LockdirEmpty THEN "absent" ELSE lockdir
  /\ Become(e, Down)
  /\ UNCHANGED <<file, flock, tree, lock, held, raced, evicted, quarantined>>

\* cleanup with a workspace in quarantine, or keep_worktrees: cleanup_all is not
\* called; all directories and registered descriptors stay.
Leave(e) ==
  /\ Doing(e, "idle")
  /\ Become(e, At("left"))
  /\ UNCHANGED <<lockdir, file, flock, tree, lock, held, raced, evicted, quarantined>>

\* Another solve with the same workspace_dir.
Start(e) ==
  /\ Doing(e, "down")
  /\ Become(e, Idle)
  /\ UNCHANGED <<lockdir, file, flock, tree, lock, held, raced, evicted, quarantined>>

\* The process dies, or drops an engine that has left its workspaces: the
\* descriptors are closed and the locks gone, the files stay.
Crash(e) ==
  /\ ~Doing(e, "down")
  /\ flock' = [i \in Inodes |-> IF flock[i] = e THEN "none" ELSE flock[i]]
  /\ tree' = [k \in Ids |-> IF tree[k] = e THEN "stale" ELSE tree[k]]
  /\ lock' = [lock EXCEPT ![e] = [k \in Ids |-> 0]]
  /\ held' = [held EXCEPT ![e] = [k \in Ids |-> "none"]]
  /\ quarantined' = [quarantined EXCEPT ![e] = [k \in Ids |-> FALSE]]
  /\ lockdir' = IF \E k \in Ids : held[e][k] = "aside" THEN "littered"
                ELSE lockdir
  /\ Become(e, Down)
  /\ UNCHANGED <<file, raced, evicted>>

Serve(e) ==
  \/ Open(e) \/ OpenRaises(e) \/ Flock(e) \/ FlockFails(e) \/ Check(e)
  \/ Clean(e) \/ Reopen(e) \/ Reflock(e) \/ Build(e) \/ BuildFails(e)
  \/ Aside(e) \/ AsideFails(e) \/ Reject(e) \/ Evict(e)
  \/ NoUnlock(e) \/ Unlock(e) \/ Unlink(e)

Shut(e) == CloseDone(e) \/ \E k \in Ids : CloseTree(e, k) \/ CloseLock(e, k)

Next ==
  \E e \in Engines :
    \/ Serve(e) \/ Shut(e) \/ Close(e) \/ Leave(e) \/ Start(e) \/ Crash(e)
    \/ \E k \in Ids : \/ Ask(e, k) \/ Release(e, k) \/ ReleaseAside(e, k)
                      \/ Quarantine(e, k)

\* A thread that has something to do goes on.
Fairness ==
  \A e \in Engines :
    /\ WF_vars(Serve(e)) /\ WF_vars(Shut(e))
    /\ WF_vars(Doing(e, "close") /\ \E k \in Ids : ReleaseAside(e, k))

Spec == Init /\ [][Next]_vars /\ Fairness

-----------------------------------------------------------------------------

LockOK ==
  /\ lockdir \in {"absent", "present", "littered"}
  /\ raced \in BOOLEAN /\ evicted \in BOOLEAN
  /\ file \in [Ids -> Inodes \cup {0}]
  /\ flock \in [Inodes -> Engines \cup {"none"}]
  /\ tree \in [Ids -> Engines \cup {"absent", "stale"}]
  /\ lock \in [Engines -> [Ids -> Inodes \cup {0}]]
  /\ held \in [Engines -> [Ids -> {"none", "own", "aside"}]]
  /\ pc \in [Engines -> Threads]

\* Every variable has its type.
TypeOK ==
  /\ LockOK
  /\ quarantined \in [Engines -> [Ids -> BOOLEAN]]

\* An engine keeps the lock of a workspace as long as it has the workspace
\* (create_worktree up to remove_worktree): the registered descriptor has its
\* inode locked.
OwnerHoldsLock ==
  \A e \in Engines, k \in Ids :
    held[e][k] = "own" => lock[e][k] # 0 /\ flock[lock[e][k]] = e

\* Two engines never both have the lock of a rollout, as long as no lock path
\* was unlinked while another engine had the file open
\* (_acquire_rollout_lock, _release_rollout_lock).
OneLockPerRollout ==
  ~raced => \A k \in Ids, e, f \in Engines :
              lock[e][k] # 0 /\ lock[f][k] # 0 => e = f

\* The workspace of an engine stays the one it built, unless a lock path was
\* unlinked under another engine or a failed set-up removed the directory of
\* another: refused, retried, stale and crashed creations, releases and
\* cleanups of others do not touch it.
OwnWorkspaceIntact ==
  ~raced /\ ~evicted =>
    \A e \in Engines, k \in Ids : held[e][k] = "own" => tree[k] = e

\* A cleanup takes all or nothing.  An engine that has cleaned up, or is gone,
\* has no lock and no directory left that counts as its own, the locks of
\* creations that bailed out included (cleanup_all); one that has quarantined a
\* workspace keeps it, with its lock, through its cleanup: nothing is removed
\* from under a worker that still writes there (cleanup).
CleanupAllOrNothing ==
  \A e \in Engines :
    /\ Doing(e, "down") => /\ \A i \in Inodes : flock[i] # e
                           /\ \A k \in Ids : tree[k] # e
    /\ \A k \in Ids : quarantined[e][k] =>
         /\ held[e][k] # "none"
         /\ held[e][k] = "own" => \E i \in Inodes : lock[e][k] = i /\ flock[i] = e

\* No scheduler thread waits for a lock: a request, a release or a cleanup
\* ends, also when an engine meets its own leaked lock.
ThreadsReturn ==
  \A e \in Engines :
    pc[e].at \notin {"idle", "left", "down"}
      ~> pc[e].at \in {"idle", "left", "down"}

\* The lock "protects concurrent solve() calls that share a workspace_dir
\* from silently destroying each other's work" (docstring of
\* GitWorktreeManager).  The code does not keep this, failed set-ups aside: a
\* lock that was released is unlinked after another engine may have taken it.
NoEngineDestroysAnother ==
  ~evicted =>
    \A e \in Engines, k \in Ids : held[e][k] = "own" => tree[k] = e

\* A workspace that cannot be set up is removed (prepare_request_workspace):
\* it is never one that another engine works in.  It is, when the lock of the
\* rollout was another's and the retry under a fresh key failed.
FailedSetupEvictsNoOne == ~evicted

\* "The lock guarantees no concurrent owner exists; safe to clean up a stale
\* directory left behind by a previous run" (create_worktree): a creation that
\* has cleaned the directory builds the workspace there.  It does not.
StaleIsReclaimed ==
  [][\A e \in Engines :
       Doing(e, "reflock") => pc'[e].at \in {"reflock", "build", "down"}]_vars
=============================================================================
