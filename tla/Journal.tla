------------------------------ MODULE Journal ------------------------------
(***************************************************************************)
(* The durable call journal (apex_omega/journal/wal.py) and the resume-or- *)
(* run chokepoint every journaled call goes through.                       *)
(*                                                                         *)
(* A thread calling get_or_run(key) looks the key up, and on a miss        *)
(* appends an in_flight record, runs the work, appends a committed record  *)
(* and returns.  The process may be killed between any two of these steps  *)
(* and in the middle of an append; a new process rebuilds its memory from  *)
(* the file.  A record is identified by its seq; payloads are left out.    *)
(***************************************************************************)
EXTENDS Integers, Sequences, FiniteSets

CONSTANTS
  Keys,          \* input hashes (canonical_key of a call's components)
  AgentKeys,     \* the keys whose kind is "agent"
  Threads,       \* threads of the process that call get_or_run
  TearPoints,    \* where a killed append may leave the file, see Tears
  DiskMayFail,   \* may an append raise (disk full) with the process alive?
  MaxSeq,        \* bound: seqs a process may allocate
  MaxCrashes     \* bound: number of kills

\* "torn": a prefix of the line that does not parse; "unterminated": the
\* whole line without its newline, which does parse.
Tears == {"torn", "unterminated"}

ASSUME ConstantsAssumption ==
  /\ AgentKeys \subseteq Keys
  /\ TearPoints \subseteq Tears
  /\ DiskMayFail \in BOOLEAN
  /\ MaxSeq \in Nat
  /\ MaxCrashes \in Nat

VARIABLES
  wal,        \* the readable records of calls_wal.jsonl, in file order
  tail,       \* how the file ends: "clean" (newline) or one of Tears
  up,         \* is the process alive (and recovered)?
  index,      \* _index: key -> seq of the entry a lookup hits, or None
  inFlight,   \* the keys of _in_flight
  nextSeq,    \* _next_seq
  agents,     \* _committed_agents
  pc,         \* where each thread stands in get_or_run
  key,        \* the key each thread is working on
  ok,         \* result_status = "ok" of the work a thread has finished
  mine,       \* seq of the record a thread has committed
  acked,      \* history: key -> largest seq of an ok result handed to a caller
  crashes     \* number of kills so far

vars == <<wal, tail, up, index, inFlight, nextSeq, agents, pc, key, ok, mine,
          acked, crashes>>
memory == <<index, inFlight, nextSeq, agents>>

None == -1
Status == {"in_flight", "committed"}
Record == [seq : Nat, key : Keys, status : Status, ok : BOOLEAN]
PCs == {"idle", "missed", "running", "finished", "committed"}

----------------------------------------------------------------------------
(* What a scan of the file rebuilds (Journal._recover).                    *)

\* Positions of the committed ok records of key k.
OkAt(w, k) == {i \in DOMAIN w : /\ w[i].key = k
                                /\ w[i].status = "committed"
                                /\ w[i].ok}

\* The scan keeps the record with the largest seq: its seq, or None.
RecoveredSeq(w, k) ==
  IF OkAt(w, k) = {} THEN None
  ELSE CHOOSE s \in {w[i].seq : i \in OkAt(w, k)} :
         \A i \in OkAt(w, k) : w[i].seq <= s

\* Mutated form: an in_flight marker invalidates the key's earlier commits.
RecoveredIndexForgetful(w) ==
  [k \in Keys |-> IF \E i \in DOMAIN w :
                        /\ w[i].key = k /\ w[i].status = "in_flight"
                        /\ \A j \in OkAt(w, k) : j < i
                   THEN None ELSE RecoveredSeq(w, k)]

RecoveredIndex(w) == [k \in Keys |-> RecoveredSeq(w, k)]

\* A terminal record clears an earlier in_flight one.
RecoveredInFlight(w) ==
  {k \in Keys : \E i \in DOMAIN w :
     /\ w[i].key = k /\ w[i].status = "in_flight"
     /\ \A j \in DOMAIN w : j > i /\ w[j].key = k => w[j].status = "in_flight"}

\* Mutated form: only the usable results are counted.
RecoveredAgentsOkOnly(w) ==
  Cardinality({i \in DOMAIN w : w[i].status = "committed" /\ w[i].ok
                                /\ w[i].key \in AgentKeys})

\* Every committed agent record counts, ok or not.
RecoveredAgents(w) ==
  Cardinality({i \in DOMAIN w : w[i].status = "committed"
                                /\ w[i].key \in AgentKeys})

\* Mutated form: the largest seq of the file itself.
RecoveredLastSeq(w) ==
  CHOOSE n \in {None} \cup {w[i].seq : i \in DOMAIN w} :
    \A i \in DOMAIN w : w[i].seq <= n

\* One more than the largest seq of the file.
RecoveredNextSeq(w) ==
  CHOOSE n \in {0} \cup {w[i].seq + 1 : i \in DOMAIN w} :
    \A i \in DOMAIN w : w[i].seq < n

----------------------------------------------------------------------------
(* The low-level append.  What is written after a ragged tail continues    *)
(* that line: neither part of a glued line parses again.                   *)

Appended(w, t, rec) ==
  CASE t = "clean"        -> Append(w, rec)
    [] t = "torn"         -> w
    [] t = "unterminated" -> SubSeq(w, 1, Len(w) - 1)

\* The file after an append cut short at p (a tear point).
TornWal(w, t, rec, p) ==
  IF t = "clean" /\ p = "unterminated" THEN Append(w, rec)
  ELSE IF t = "unterminated" THEN SubSeq(w, 1, Len(w) - 1) ELSE w

TornTail(t, p) == IF t = "clean" THEN p ELSE "torn"

BeginRecord(t) ==
  [seq |-> nextSeq, key |-> key[t], status |-> "in_flight", ok |-> TRUE]
CommitRecord(t) ==
  [seq |-> nextSeq, key |-> key[t], status |-> "committed", ok |-> ok[t]]
\* The record thread t is about to append.
Pending(t) == IF pc[t] = "missed" THEN BeginRecord(t) ELSE CommitRecord(t)

----------------------------------------------------------------------------
Init ==
  /\ wal = <<>> /\ tail = "clean" /\ up = TRUE
  /\ index = [k \in Keys |-> None] /\ inFlight = {} /\ nextSeq = 0
  /\ agents = 0
  /\ pc = [t \in Threads |-> "idle"]
  /\ key \in [Threads -> Keys]
  /\ ok = [t \in Threads |-> FALSE]
  /\ mine = [t \in Threads |-> None]
  /\ acked = [k \in Keys |-> None]
  /\ crashes = 0

\* lookup misses: the caller will run the work.
LookupMiss(t, k) ==
  /\ up /\ pc[t] = "idle" /\ index[k] = None
  /\ pc' = [pc EXCEPT ![t] = "missed"]
  /\ key' = [key EXCEPT ![t] = k]
  /\ UNCHANGED <<wal, tail, up, memory, ok, mine, acked, crashes>>

\* lookup hits: the recorded entry is replayed to the caller, nothing runs.
LookupHit(t, k) ==
  /\ up /\ pc[t] = "idle" /\ index[k] # None
  /\ acked' = [acked EXCEPT ![k] = IF index[k] > @ THEN index[k] ELSE @]
  /\ UNCHANGED <<wal, tail, up, memory, pc, key, ok, mine, crashes>>

\* Mutated form: the in_flight marker is kept in memory only.
BeginUnlogged(t) ==
  /\ up /\ pc[t] = "missed" /\ nextSeq < MaxSeq
  /\ nextSeq' = nextSeq + 1
  /\ inFlight' = inFlight \cup {key[t]}
  /\ pc' = [pc EXCEPT ![t] = "running"]
  /\ UNCHANGED <<wal, tail, up, index, agents, key, ok, mine, acked, crashes>>

\* begin: the in_flight record, durable before the work starts.
Begin(t) ==
  /\ up /\ pc[t] = "missed" /\ nextSeq < MaxSeq
  /\ wal' = Appended(wal, tail, BeginRecord(t)) /\ tail' = "clean"
  /\ nextSeq' = nextSeq + 1
  /\ inFlight' = inFlight \cup {key[t]}
  /\ pc' = [pc EXCEPT ![t] = "running"]
  /\ UNCHANGED <<up, index, agents, key, ok, mine, acked, crashes>>

\* fn() returns, with a usable result or an infra_nonresult.
Finish(t, res) ==
  /\ up /\ pc[t] = "running"
  /\ ok' = [ok EXCEPT ![t] = res]
  /\ pc' = [pc EXCEPT ![t] = "finished"]
  /\ UNCHANGED <<wal, tail, up, memory, key, mine, acked, crashes>>

\* fn() raises: no terminal record is written, the caller gets the exception.
Raise(t) ==
  /\ up /\ pc[t] = "running"
  /\ pc' = [pc EXCEPT ![t] = "idle"]
  /\ UNCHANGED <<wal, tail, up, memory, key, ok, mine, acked, crashes>>

\* commit: the terminal record, then the in-memory index.
Commit(t) ==
  /\ up /\ pc[t] = "finished" /\ nextSeq < MaxSeq
  /\ wal' = Appended(wal, tail, CommitRecord(t)) /\ tail' = "clean"
  /\ nextSeq' = nextSeq + 1
  /\ inFlight' = inFlight \ {key[t]}
  /\ agents' = IF key[t] \in AgentKeys THEN agents + 1 ELSE agents
  /\ index' = IF ok[t] THEN [index EXCEPT ![key[t]] = nextSeq] ELSE index
  /\ mine' = [mine EXCEPT ![t] = nextSeq]
  /\ pc' = [pc EXCEPT ![t] = "committed"]
  /\ UNCHANGED <<up, key, ok, acked, crashes>>

\* get_or_run returns the fresh result.
Return(t) ==
  /\ up /\ pc[t] = "committed"
  /\ acked' = IF ok[t] /\ mine[t] > acked[key[t]]
              THEN [acked EXCEPT ![key[t]] = mine[t]] ELSE acked
  /\ pc' = [pc EXCEPT ![t] = "idle"]
  /\ UNCHANGED <<wal, tail, up, memory, key, ok, mine, crashes>>

\* The write or the fsync in begin or commit raises: the seq is spent, none,
\* part or all of the line is in the file, and the exception reaches the caller.
AppendRaises(t) ==
  /\ DiskMayFail
  /\ up /\ pc[t] \in {"missed", "finished"} /\ nextSeq < MaxSeq
  /\ nextSeq' = nextSeq + 1
  /\ \/ UNCHANGED <<wal, tail>>
     \/ \E p \in TearPoints : /\ wal' = TornWal(wal, tail, Pending(t), p)
                              /\ tail' = TornTail(tail, p)
     \/ wal' = Appended(wal, tail, Pending(t)) /\ tail' = "clean"
  /\ pc' = [pc EXCEPT ![t] = "idle"]
  /\ UNCHANGED <<up, index, inFlight, agents, key, ok, mine, acked, crashes>>

\* kill -9: the memory and the threads are gone; a thread that was appending
\* may leave part of its line.
Kill ==
  /\ up /\ crashes < MaxCrashes
  /\ crashes' = crashes + 1
  /\ up' = FALSE
  /\ pc' = [t \in Threads |-> "idle"]
  /\ \/ UNCHANGED <<wal, tail>>
     \/ \E t \in Threads, p \in TearPoints :
          /\ pc[t] \in {"missed", "finished"}
          /\ wal' = TornWal(wal, tail, Pending(t), p)
          /\ tail' = TornTail(tail, p)
  /\ UNCHANGED <<memory, key, ok, mine, acked>>

\* A new process opens the journal: _recover.
Recover ==
  /\ ~up
  /\ up' = TRUE
  /\ index' = RecoveredIndex(wal)
  /\ inFlight' = RecoveredInFlight(wal)
  /\ agents' = RecoveredAgents(wal)
  /\ nextSeq' = RecoveredNextSeq(wal)
  /\ UNCHANGED <<wal, tail, pc, key, ok, mine, acked, crashes>>

Next ==
  \/ \E t \in Threads :
       \/ \E k \in Keys : LookupMiss(t, k) \/ LookupHit(t, k)
       \/ Begin(t)
       \/ \E res \in BOOLEAN : Finish(t, res)
       \/ Raise(t) \/ Commit(t) \/ Return(t) \/ AppendRaises(t)
  \/ Kill
  \/ Recover

Spec == Init /\ [][Next]_vars

----------------------------------------------------------------------------
TypeOK ==
  /\ wal \in Seq(Record)
  /\ tail \in {"clean"} \cup Tears
  /\ up \in BOOLEAN
  /\ index \in [Keys -> Nat \cup {None}]
  /\ inFlight \subseteq Keys
  /\ nextSeq \in Nat
  /\ agents \in Nat
  /\ pc \in [Threads -> PCs]
  /\ key \in [Threads -> Keys]
  /\ ok \in [Threads -> BOOLEAN]
  /\ mine \in [Threads -> Nat \cup {None}]
  /\ acked \in [Keys -> Nat \cup {None}]
  /\ crashes \in Nat

\* "each append is ... fsync-durable BEFORE the result is returned to the
\* caller" (wal.py:10): a result a caller has seen, or a newer one for the
\* same key, is what a scan of the file would find, at every moment and
\* across any number of kills.
AckedIsDurable ==
  \A k \in Keys : acked[k] # None
                    => \E i \in OkAt(wal, k) : wal[i].seq >= acked[k]

\* "seq is a monotonic counter (the order key)" (wal.py:12): later lines of
\* the file have larger seqs, over all the processes that wrote it, and the
\* live counter is past all of them.  Latest-wins by seq rests on it.
SeqOrdersTheFile ==
  /\ \A i, j \in DOMAIN wal : i < j => wal[i].seq < wal[j].seq
  /\ up => \A i \in DOMAIN wal : wal[i].seq < nextSeq

\* A process killed now and restarted would know what the live one knows:
\* the same hits and the same agent tally, and no in_flight marker it lacks.
RecoveryIsExact ==
  up => /\ index = RecoveredIndex(wal)
        /\ agents = RecoveredAgents(wal)
        /\ RecoveredInFlight(wal) \subseteq inFlight

\* The journal implements the memo table: what a scan of its file finds is
\* only ever replaced by something newer, kill or no kill, and callers are
\* given nothing else (resume.py:3, "resumable for free").
MemoTable == INSTANCE Memo WITH known <- RecoveredIndex(wal), seen <- acked
ImplementsMemo == MemoTable!Spec

\* To the engine the journal is a ledger of its agent calls: a call that is
\* settled stays so and a record that counts keeps counting, kill or no kill,
\* whatever else is journaled.
SettledCalls(w) == {k \in AgentKeys : RecoveredIndex(w)[k] # None}
CallLedger == INSTANCE Ledger
  WITH Keys <- AgentKeys, settled <- SettledCalls(wal),
       recs <- RecoveredAgents(wal)
ImplementsLedger == CallLedger!Spec

\* "resume re-runs ONLY edited/new calls" (wal.py:6): no call starts the work
\* of a key whose ok result a caller already holds.
SettledNeverReruns ==
  [][\A t \in Threads : pc[t] = "idle" /\ pc'[t] = "missed"
                          => acked[key'[t]] = None]_vars
=============================================================================
