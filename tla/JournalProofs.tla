--------------------------- MODULE JournalProofs ---------------------------
(***************************************************************************)
(* Proofs about the call journal, for any keys, threads and bounds.        *)
(*                                                                         *)
(* SeqInv needs nothing of the environment.  DurInv, the durability of     *)
(* what callers have seen, is proved for the failures the code tolerates:  *)
(* kills that leave at most an unparseable last line.                      *)
(***************************************************************************)
EXTENDS Journal, TLAPS, FiniteSetTheorems, SequenceTheorems,
        WellFoundedInduction

----------------------------------------------------------------------------
(* Facts about the file.                                                   *)

\* A non-empty set of positions has a last one.
LEMMA LastExists ==
  ASSUME NEW n \in Nat, NEW S \in SUBSET (1 .. n), S # {}
  PROVE  \E m \in S : \A i \in S : i <= m
<1> DEFINE R == OpToRel(<, Nat)
           T == {n - i : i \in S}
<1>1. IsWellFoundedOn(R, Nat)  BY NatLessThanWellFounded
<1>2. T \subseteq Nat
  <2>1. \A i \in S : i \in Int /\ i <= n  OBVIOUS
  <2>2. QED  BY <2>1
<1>3. T # {}  OBVIOUS
<1> HIDE DEF R, T
<1>4. \E x \in T : \A y \in T : ~ (<<y, x>> \in R)
  BY <1>1, <1>2, <1>3, WFMin
<1>5. \A x, y \in Nat : y < x => <<y, x>> \in R  BY DEF R, OpToRel
<1>6. PICK x \in T : \A y \in T : ~ (y < x)  BY <1>2, <1>4, <1>5
<1>7. PICK m \in S : x = n - m  BY <1>6 DEF T
<1>8. \A i \in S : n - i \in T  BY DEF T
<1>9. QED  BY <1>6, <1>7, <1>8

\* Each record of the file after an append is an old one at its old place,
\* or the new one at the end.
LEMMA AppendedRecords ==
  ASSUME NEW w \in Seq(Record), NEW r \in Record, NEW t \in {"clean"} \cup Tears
  PROVE  /\ Appended(w, t, r) \in Seq(Record)
         /\ \A i \in DOMAIN Appended(w, t, r) :
              \/ i \in DOMAIN w /\ Appended(w, t, r)[i] = w[i]
              \/ i = Len(w) + 1 /\ Appended(w, t, r)[i] = r
<1>1. CASE t = "clean"
  <2>1. Appended(w, t, r) = Append(w, r)  BY <1>1 DEF Appended
  <2>2. QED  BY <2>1, AppendProperties
<1>2. CASE t = "torn"
  <2>1. Appended(w, t, r) = w  BY <1>2 DEF Appended
  <2>2. QED  BY <2>1
<1>3. CASE t = "unterminated"
  <2>1. Appended(w, t, r) = SubSeq(w, 1, Len(w) - 1)  BY <1>3 DEF Appended
  <2>2. Len(w) \in Nat /\ DOMAIN w = 1 .. Len(w)  BY LenProperties
  <2>3. QED  BY <2>1, <2>2
<1>4. QED  BY <1>1, <1>2, <1>3 DEF Tears

\* The same of an append cut short.
LEMMA TornRecords ==
  ASSUME NEW w \in Seq(Record), NEW r \in Record,
         NEW t \in {"clean"} \cup Tears, NEW p \in Tears
  PROVE  /\ TornWal(w, t, r, p) \in Seq(Record)
         /\ \A i \in DOMAIN TornWal(w, t, r, p) :
              \/ i \in DOMAIN w /\ TornWal(w, t, r, p)[i] = w[i]
              \/ i = Len(w) + 1 /\ TornWal(w, t, r, p)[i] = r
         /\ TornTail(t, p) \in {"clean"} \cup Tears
<1>0. TornTail(t, p) \in {"clean"} \cup Tears  BY DEF TornTail, Tears
<1>1. CASE t = "clean" /\ p = "unterminated"
  <2>1. TornWal(w, t, r, p) = Append(w, r)  BY <1>1 DEF TornWal
  <2>2. QED  BY <1>0, <2>1, AppendProperties
<1>2. CASE t = "unterminated"
  <2>1. TornWal(w, t, r, p) = SubSeq(w, 1, Len(w) - 1)
    BY <1>2 DEF TornWal
  <2>2. Len(w) \in Nat /\ DOMAIN w = 1 .. Len(w)  BY LenProperties
  <2>3. QED  BY <1>0, <2>1, <2>2
<1>3. CASE t # "unterminated" /\ ~(t = "clean" /\ p = "unterminated")
  <2>1. TornWal(w, t, r, p) = w  BY <1>3 DEF TornWal
  <2>2. QED  BY <1>0, <2>1
<1>4. QED  BY <1>1, <1>2, <1>3

\* What a position of the file holds.
LEMMA RecordsOfFile ==
  ASSUME NEW w \in Seq(Record), NEW i \in DOMAIN w
  PROVE  w[i] \in Record
<1>1. Len(w) \in Nat /\ DOMAIN w = 1 .. Len(w)  BY LenProperties
<1>2. QED  BY <1>1, ElementOfSeq

\* A file whose seqs increase has a next seq past all of them.
LEMMA NextSeqPastAll ==
  ASSUME NEW w \in Seq(Record),
         \A i, j \in DOMAIN w : i < j => w[i].seq < w[j].seq
  PROVE  /\ RecoveredNextSeq(w) \in Nat
         /\ \A i \in DOMAIN w : w[i].seq < RecoveredNextSeq(w)
<1> DEFINE S == {0} \cup {w[i].seq + 1 : i \in DOMAIN w}
<1>1. Len(w) \in Nat /\ DOMAIN w = 1 .. Len(w)  BY LenProperties
<1>2. \A i \in DOMAIN w : w[i].seq \in Nat
  BY RecordsOfFile DEF Record
<1>3. \E n \in S : \A i \in DOMAIN w : w[i].seq < n
  <2>1. CASE Len(w) = 0  BY <2>1, <1>1
  <2>2. CASE Len(w) # 0
    <3>1. Len(w) \in DOMAIN w  BY <1>1, <2>2
    <3>2. \A i \in DOMAIN w : w[i].seq < w[Len(w)].seq + 1
      <4> SUFFICES ASSUME NEW i \in DOMAIN w
                   PROVE  w[i].seq < w[Len(w)].seq + 1
        OBVIOUS
      <4>1. i = Len(w) \/ w[i].seq < w[Len(w)].seq  BY <1>1, <3>1
      <4>2. w[i].seq \in Nat /\ w[Len(w)].seq \in Nat  BY <1>2, <3>1
      <4>3. QED  BY <4>1, <4>2
    <3>3. QED  BY <3>1, <3>2
  <2>3. QED  BY <2>1, <2>2
<1>4. RecoveredNextSeq(w) \in S /\ \A i \in DOMAIN w : w[i].seq < RecoveredNextSeq(w)
  BY <1>3 DEF RecoveredNextSeq
<1>5. S \subseteq Nat  BY <1>2
<1>6. QED  BY <1>4, <1>5


\* Latest-wins by seq picks the last ok record of a key, when seqs increase.
LEMMA LatestIsLast ==
  ASSUME NEW w \in Seq(Record), NEW k \in Keys, OkAt(w, k) # {},
         \A i, j \in DOMAIN w : i < j => w[i].seq < w[j].seq
  PROVE  /\ RecoveredSeq(w, k) \in Nat
         /\ \E m \in OkAt(w, k) : RecoveredSeq(w, k) = w[m].seq
         /\ \A i \in OkAt(w, k) : w[i].seq <= RecoveredSeq(w, k)
<1> DEFINE S == {w[i].seq : i \in OkAt(w, k)}
           P(s) == \A i \in OkAt(w, k) : w[i].seq <= s
<1>1. Len(w) \in Nat /\ DOMAIN w = 1 .. Len(w)  BY LenProperties
<1>2. OkAt(w, k) \subseteq DOMAIN w  BY DEF OkAt
<1>3. \A i \in OkAt(w, k) : w[i].seq \in Nat
  BY <1>2, RecordsOfFile DEF Record
<1>4. PICK m \in OkAt(w, k) : \A i \in OkAt(w, k) : i <= m
  BY <1>1, <1>2, LastExists
<1>5. P(w[m].seq)
  <2> SUFFICES ASSUME NEW i \in OkAt(w, k)  PROVE w[i].seq <= w[m].seq
    OBVIOUS
  <2>1. i = m \/ i < m  BY <1>1, <1>2, <1>4
  <2>2. i = m \/ w[i].seq < w[m].seq  BY <2>1, <1>2
  <2>3. QED  BY <2>2, <1>3
<1>6. \E s \in S : P(s)  BY <1>5
<1>7. RecoveredSeq(w, k) = CHOOSE s \in S : P(s)  BY DEF RecoveredSeq
<1>8. RecoveredSeq(w, k) \in S /\ P(RecoveredSeq(w, k))
  <2> HIDE DEF S, P
  <2>1. QED  BY <1>6, <1>7
<1>9. QED  BY <1>3, <1>8

----------------------------------------------------------------------------
(* The type invariant and the order of the file, under any failures.       *)

SeqInv == TypeOK /\ SeqOrdersTheFile

LEMMA SeqInvInit == Init => SeqInv
  BY ConstantsAssumption DEF Init, SeqInv, TypeOK, SeqOrdersTheFile, Tears, PCs

\* What a durable append of the next record does to the file.
LEMMA AppendKeepsSeqInv ==
  ASSUME SeqInv, up, NEW r \in Record, r.seq = nextSeq,
         wal' = Appended(wal, tail, r), up' = up, nextSeq' = nextSeq + 1
  PROVE  wal' \in Seq(Record) /\ SeqOrdersTheFile'
<1>1. /\ wal \in Seq(Record) /\ tail \in {"clean"} \cup Tears /\ nextSeq \in Nat
      /\ \A i, j \in DOMAIN wal : i < j => wal[i].seq < wal[j].seq
      /\ \A i \in DOMAIN wal : wal[i].seq < nextSeq
  BY DEF SeqInv, TypeOK, SeqOrdersTheFile
<1>2. /\ wal' \in Seq(Record)
      /\ \A i \in DOMAIN wal' : \/ i \in DOMAIN wal /\ wal'[i] = wal[i]
                                \/ i = Len(wal) + 1 /\ wal'[i] = r
  BY <1>1, AppendedRecords
<1>3. Len(wal) \in Nat /\ DOMAIN wal = 1 .. Len(wal)  BY <1>1, LenProperties
<1>4. \A i \in DOMAIN wal : wal[i].seq \in Nat  BY <1>1, RecordsOfFile DEF Record
<1>5. \A i, j \in DOMAIN wal' : i < j => wal'[i].seq < wal'[j].seq
  <2> SUFFICES ASSUME NEW i \in DOMAIN wal', NEW j \in DOMAIN wal', i < j
               PROVE  wal'[i].seq < wal'[j].seq
    OBVIOUS
  <2>1. i \in DOMAIN wal /\ wal'[i] = wal[i]  BY <1>2, <1>3
  <2>2. CASE j \in DOMAIN wal /\ wal'[j] = wal[j]  BY <2>1, <2>2, <1>1
  <2>3. CASE j = Len(wal) + 1 /\ wal'[j] = r  BY <2>1, <2>3, <1>1
  <2>4. QED  BY <2>2, <2>3, <1>2
<1>6. \A i \in DOMAIN wal' : wal'[i].seq < nextSeq'  BY <1>1, <1>2, <1>4
<1>7. QED  BY <1>2, <1>5, <1>6 DEF SeqOrdersTheFile

\* The same of an append cut short.
LEMMA TearKeepsSeqInv ==
  ASSUME SeqInv, up, NEW r \in Record, r.seq = nextSeq, NEW p \in Tears,
         wal' = TornWal(wal, tail, r, p), tail' = TornTail(tail, p),
         \/ up' = FALSE
         \/ nextSeq' = nextSeq + 1
  PROVE  /\ wal' \in Seq(Record) /\ tail' \in {"clean"} \cup Tears
         /\ SeqOrdersTheFile'
<1>1. /\ wal \in Seq(Record) /\ tail \in {"clean"} \cup Tears /\ nextSeq \in Nat
      /\ \A i, j \in DOMAIN wal : i < j => wal[i].seq < wal[j].seq
      /\ \A i \in DOMAIN wal : wal[i].seq < nextSeq
  BY DEF SeqInv, TypeOK, SeqOrdersTheFile
<1>2. /\ wal' \in Seq(Record) /\ tail' \in {"clean"} \cup Tears
      /\ \A i \in DOMAIN wal' : \/ i \in DOMAIN wal /\ wal'[i] = wal[i]
                                \/ i = Len(wal) + 1 /\ wal'[i] = r
  BY <1>1, TornRecords
<1>3. Len(wal) \in Nat /\ DOMAIN wal = 1 .. Len(wal)  BY <1>1, LenProperties
<1>4. \A i \in DOMAIN wal : wal[i].seq \in Nat  BY <1>1, RecordsOfFile DEF Record
<1>5. \A i, j \in DOMAIN wal' : i < j => wal'[i].seq < wal'[j].seq
  <2> SUFFICES ASSUME NEW i \in DOMAIN wal', NEW j \in DOMAIN wal', i < j
               PROVE  wal'[i].seq < wal'[j].seq
    OBVIOUS
  <2>1. i \in DOMAIN wal /\ wal'[i] = wal[i]  BY <1>2, <1>3
  <2>2. CASE j \in DOMAIN wal /\ wal'[j] = wal[j]  BY <2>1, <2>2, <1>1
  <2>3. CASE j = Len(wal) + 1 /\ wal'[j] = r  BY <2>1, <2>3, <1>1
  <2>4. QED  BY <2>2, <2>3, <1>2
<1>6. up' => \A i \in DOMAIN wal' : wal'[i].seq < nextSeq'  BY <1>1, <1>2, <1>4
<1>7. QED  BY <1>2, <1>5, <1>6 DEF SeqOrdersTheFile

\* The records a thread appends are records, numbered by the counter.
LEMMA PendingRecords ==
  ASSUME TypeOK, NEW t \in Threads
  PROVE  \A r \in {BeginRecord(t), CommitRecord(t), Pending(t)} :
           r \in Record /\ r.seq = nextSeq
<1>1. nextSeq \in Nat /\ key[t] \in Keys /\ ok[t] \in BOOLEAN  BY DEF TypeOK
<1>2. BeginRecord(t) \in Record /\ BeginRecord(t).seq = nextSeq
  BY <1>1 DEF BeginRecord, Record, Status
<1>3. CommitRecord(t) \in Record /\ CommitRecord(t).seq = nextSeq
  BY <1>1 DEF CommitRecord, Record, Status
<1>4. Pending(t) = BeginRecord(t) \/ Pending(t) = CommitRecord(t)
  BY DEF Pending
<1>5. QED  BY <1>2, <1>3, <1>4


\* What a recovery rebuilds is well typed.
LEMMA RecoveredTypes ==
  ASSUME NEW w \in Seq(Record),
         \A i, j \in DOMAIN w : i < j => w[i].seq < w[j].seq
  PROVE  /\ RecoveredIndex(w) \in [Keys -> Nat \cup {None}]
         /\ RecoveredInFlight(w) \subseteq Keys
         /\ RecoveredAgents(w) \in Nat
<1>1. \A k \in Keys : RecoveredSeq(w, k) \in Nat \cup {None}
  <2> SUFFICES ASSUME NEW k \in Keys
               PROVE  RecoveredSeq(w, k) \in Nat \cup {None}
    OBVIOUS
  <2>1. CASE OkAt(w, k) = {}  BY <2>1 DEF RecoveredSeq
  <2>2. CASE OkAt(w, k) # {}  BY <2>2, LatestIsLast
  <2>3. QED  BY <2>1, <2>2
<1>2. RecoveredIndex(w) \in [Keys -> Nat \cup {None}]
  BY <1>1 DEF RecoveredIndex
<1>3. RecoveredInFlight(w) \subseteq Keys  BY DEF RecoveredInFlight
<1>4. RecoveredAgents(w) \in Nat
  <2> DEFINE A == {i \in DOMAIN w : /\ w[i].status = "committed"
                                    /\ w[i].key \in AgentKeys}
  <2>1. Len(w) \in Nat /\ DOMAIN w = 1 .. Len(w)  BY LenProperties
  <2>2. IsFiniteSet(1 .. Len(w))  BY <2>1, FS_Interval
  <2>3. IsFiniteSet(A)  BY <2>1, <2>2, FS_Subset
  <2>4. Cardinality(A) \in Nat  BY <2>3, FS_CardinalityType
  <2>5. QED  BY <2>4 DEF RecoveredAgents
<1>5. QED  BY <1>2, <1>3, <1>4

LEMMA SeqInvNext == SeqInv /\ [Next]_vars => SeqInv'
<1> SUFFICES ASSUME SeqInv, [Next]_vars  PROVE SeqInv'
  OBVIOUS
<1> USE DEF SeqInv
<1>1. ASSUME NEW t \in Threads, NEW k \in Keys,
             LookupMiss(t, k) \/ LookupHit(t, k)
      PROVE  SeqInv'
  BY <1>1 DEF LookupMiss, LookupHit, TypeOK, SeqOrdersTheFile, memory, PCs
<1>2. ASSUME NEW t \in Threads, Begin(t)  PROVE SeqInv'
  <2>1. wal' \in Seq(Record) /\ SeqOrdersTheFile'
    BY <1>2, PendingRecords, AppendKeepsSeqInv DEF Begin
  <2>2. key[t] \in Keys  BY DEF TypeOK
  <2>3. QED  BY <1>2, <2>1, <2>2 DEF Begin, TypeOK, PCs
<1>3. ASSUME NEW t \in Threads, NEW res \in BOOLEAN, Finish(t, res)
      PROVE  SeqInv'
  BY <1>3 DEF Finish, TypeOK, SeqOrdersTheFile, memory, PCs
<1>4. ASSUME NEW t \in Threads, Raise(t)  PROVE SeqInv'
  BY <1>4 DEF Raise, TypeOK, SeqOrdersTheFile, memory, PCs
<1>5. ASSUME NEW t \in Threads, Commit(t)  PROVE SeqInv'
  <2>1. wal' \in Seq(Record) /\ SeqOrdersTheFile'
    BY <1>5, PendingRecords, AppendKeepsSeqInv DEF Commit
  <2>2. key[t] \in Keys  BY DEF TypeOK
  <2>3. index' \in [Keys -> Nat \cup {None}]
    BY <1>5, <2>2 DEF Commit, TypeOK
  <2>4. QED  BY <1>5, <2>1, <2>2, <2>3 DEF Commit, TypeOK, PCs
<1>6. ASSUME NEW t \in Threads, Return(t)  PROVE SeqInv'
  BY <1>6 DEF Return, TypeOK, SeqOrdersTheFile, memory, PCs
<1>7. ASSUME NEW t \in Threads, AppendRaises(t)  PROVE SeqInv'
  <2>1. CASE UNCHANGED <<wal, tail>>
    <3>1. \A i \in DOMAIN wal : wal[i].seq \in Nat
      BY RecordsOfFile DEF TypeOK, Record
    <3>2. SeqOrdersTheFile'
      BY <1>7, <2>1, <3>1 DEF AppendRaises, SeqOrdersTheFile, TypeOK
    <3>3. QED  BY <1>7, <2>1, <3>2 DEF AppendRaises, TypeOK, PCs
  <2>2. ASSUME NEW p \in TearPoints, wal' = TornWal(wal, tail, Pending(t), p),
               tail' = TornTail(tail, p)
        PROVE  SeqInv'
    <3>1. p \in Tears  BY ConstantsAssumption
    <3>2. /\ wal' \in Seq(Record) /\ tail' \in {"clean"} \cup Tears
          /\ SeqOrdersTheFile'
      BY <1>7, <2>2, <3>1, PendingRecords, TearKeepsSeqInv DEF AppendRaises
    <3>3. QED  BY <1>7, <3>2 DEF AppendRaises, TypeOK, PCs
  <2>3. CASE wal' = Appended(wal, tail, Pending(t)) /\ tail' = "clean"
    <3>1. wal' \in Seq(Record) /\ SeqOrdersTheFile'
      BY <1>7, <2>3, PendingRecords, AppendKeepsSeqInv DEF AppendRaises
    <3>2. QED  BY <1>7, <2>3, <3>1 DEF AppendRaises, TypeOK, PCs
  <2>4. QED  BY <1>7, <2>1, <2>2, <2>3 DEF AppendRaises
<1>8. ASSUME Kill  PROVE SeqInv'
  <2>0. /\ up /\ up' = FALSE /\ crashes' \in Nat
        /\ pc' \in [Threads -> PCs]
        /\ UNCHANGED <<index, inFlight, nextSeq, agents, key, ok, mine, acked>>
    BY <1>8 DEF Kill, TypeOK, memory, PCs
  <2>1. CASE UNCHANGED <<wal, tail>>
    BY <2>0, <2>1 DEF TypeOK, SeqOrdersTheFile
  <2>2. ASSUME NEW t \in Threads, NEW p \in TearPoints,
               wal' = TornWal(wal, tail, Pending(t), p),
               tail' = TornTail(tail, p)
        PROVE  SeqInv'
    <3>1. p \in Tears  BY ConstantsAssumption
    <3>2. /\ wal' \in Seq(Record) /\ tail' \in {"clean"} \cup Tears
          /\ SeqOrdersTheFile'
      BY <2>0, <2>2, <3>1, PendingRecords, TearKeepsSeqInv
    <3>3. QED  BY <2>0, <3>2 DEF TypeOK
  <2>3. QED  BY <1>8, <2>1, <2>2 DEF Kill
<1>9. ASSUME Recover  PROVE SeqInv'
  <2>1. /\ RecoveredIndex(wal) \in [Keys -> Nat \cup {None}]
        /\ RecoveredInFlight(wal) \subseteq Keys
        /\ RecoveredAgents(wal) \in Nat
        /\ RecoveredNextSeq(wal) \in Nat
        /\ \A i \in DOMAIN wal : wal[i].seq < RecoveredNextSeq(wal)
    BY RecoveredTypes, NextSeqPastAll DEF TypeOK, SeqOrdersTheFile
  <2>2. QED  BY <1>9, <2>1 DEF Recover, TypeOK, SeqOrdersTheFile
<1>10. CASE UNCHANGED vars
  BY <1>10 DEF vars, memory, TypeOK, SeqOrdersTheFile
<1>11. QED
  BY <1>1, <1>2, <1>3, <1>4, <1>5, <1>6, <1>7, <1>8, <1>9, <1>10 DEF Next

\* Whatever is killed, torn or refused by the disk: the state stays well
\* typed, a recovery included.
THEOREM TypeCorrect == Spec => []TypeOK
<1>1. SeqInv => TypeOK  BY DEF SeqInv
<1>2. QED  BY <1>1, SeqInvInit, SeqInvNext, PTL DEF Spec

\* Whatever is killed, torn or refused by the disk: the file is ordered by
\* seq and the live counter is past it, so latest-wins by seq (_recover) is
\* latest-wins by position.
THEOREM SeqOrder == Spec => []SeqOrdersTheFile
<1>1. SeqInv => SeqOrdersTheFile  BY DEF SeqInv
<1>2. QED  BY <1>1, SeqInvInit, SeqInvNext, PTL DEF Spec

----------------------------------------------------------------------------
(* What one appended record changes in what a recovery rebuilds.           *)

AppendedOk(r, k) == r.key = k /\ r.status = "committed" /\ r.ok

\* The records of the file after a clean append.
LEMMA CleanAppend ==
  ASSUME NEW w \in Seq(Record), NEW r \in Record
  PROVE  /\ Append(w, r) \in Seq(Record)
         /\ Len(w) \in Nat /\ DOMAIN w = 1 .. Len(w)
         /\ DOMAIN Append(w, r) = 1 .. Len(w) + 1
         /\ \A i \in DOMAIN w : Append(w, r)[i] = w[i]
         /\ Append(w, r)[Len(w) + 1] = r
  BY AppendProperties, LenProperties

LEMMA OkAfterAppend ==
  ASSUME NEW w \in Seq(Record), NEW r \in Record, NEW k \in Keys
  PROVE  OkAt(Append(w, r), k) = OkAt(w, k)
           \cup (IF AppendedOk(r, k) THEN {Len(w) + 1} ELSE {})
<1> DEFINE v == Append(w, r)
<1>1. /\ Len(w) \in Nat /\ DOMAIN w = 1 .. Len(w)
      /\ DOMAIN v = 1 .. Len(w) + 1
      /\ \A i \in DOMAIN w : v[i] = w[i]
      /\ v[Len(w) + 1] = r
  BY CleanAppend
<1> HIDE DEF v
<1>2. \A i : i \in OkAt(v, k) <=> i \in OkAt(w, k)
                                  \/ (i = Len(w) + 1 /\ AppendedOk(r, k))
  BY <1>1 DEF OkAt, AppendedOk
<1>3. QED  BY <1>2 DEF v

LEMMA IndexAfterAppend ==
  ASSUME NEW w \in Seq(Record), NEW r \in Record, NEW k \in Keys,
         \A i, j \in DOMAIN w : i < j => w[i].seq < w[j].seq,
         \A i \in DOMAIN w : w[i].seq < r.seq
  PROVE  RecoveredSeq(Append(w, r), k)
           = IF AppendedOk(r, k) THEN r.seq ELSE RecoveredSeq(w, k)
<1> DEFINE v == Append(w, r)
<1>1. /\ Len(w) \in Nat /\ DOMAIN w = 1 .. Len(w)
      /\ v \in Seq(Record) /\ DOMAIN v = 1 .. Len(w) + 1
      /\ \A i \in DOMAIN w : v[i] = w[i]
      /\ v[Len(w) + 1] = r
  BY CleanAppend
<1>2. OkAt(v, k) = OkAt(w, k)
                     \cup (IF AppendedOk(r, k) THEN {Len(w) + 1} ELSE {})
  BY OkAfterAppend
<1> HIDE DEF v
<1>3. OkAt(w, k) \subseteq DOMAIN w  BY DEF OkAt
<1>4. r.seq \in Nat /\ \A i \in DOMAIN w : w[i].seq \in Nat
  BY RecordsOfFile DEF Record
<1>5. \A i, j \in DOMAIN v : i < j => v[i].seq < v[j].seq
  <2> SUFFICES ASSUME NEW i \in DOMAIN v, NEW j \in DOMAIN v, i < j
               PROVE  v[i].seq < v[j].seq
    OBVIOUS
  <2>1. i \in DOMAIN w  BY <1>1
  <2>2. j \in DOMAIN w \/ j = Len(w) + 1  BY <1>1
  <2>3. QED  BY <1>1, <2>1, <2>2
<1>6. CASE AppendedOk(r, k)
  <2>1. OkAt(v, k) = OkAt(w, k) \cup {Len(w) + 1}  BY <1>2, <1>6
  <2>2. \A i \in OkAt(v, k) : v[i].seq <= r.seq  BY <1>1, <1>3, <1>4, <2>1
  <2>3. /\ RecoveredSeq(v, k) \in Nat
        /\ \E m \in OkAt(v, k) : RecoveredSeq(v, k) = v[m].seq
        /\ v[Len(w) + 1].seq <= RecoveredSeq(v, k)
    BY <1>1, <1>5, <2>1, LatestIsLast
  <2>4. RecoveredSeq(v, k) = r.seq  BY <1>1, <1>4, <2>2, <2>3
  <2>5. QED  BY <1>6, <2>4 DEF v
<1>7. CASE ~ AppendedOk(r, k)
  <2>1. OkAt(v, k) = OkAt(w, k)  BY <1>2, <1>7
  <2>2. CASE OkAt(w, k) = {}
    BY <1>7, <2>1, <2>2 DEF RecoveredSeq, v
  <2>3. CASE OkAt(w, k) # {}
    <3>1. /\ RecoveredSeq(v, k) \in Nat
          /\ \E m \in OkAt(v, k) : RecoveredSeq(v, k) = v[m].seq
          /\ \A i \in OkAt(v, k) : v[i].seq <= RecoveredSeq(v, k)
      BY <1>1, <1>5, <2>1, <2>3, LatestIsLast
    <3>2. /\ RecoveredSeq(w, k) \in Nat
          /\ \E m \in OkAt(w, k) : RecoveredSeq(w, k) = w[m].seq
          /\ \A i \in OkAt(w, k) : w[i].seq <= RecoveredSeq(w, k)
      BY <2>3, LatestIsLast
    <3>3. \A i \in OkAt(w, k) : v[i].seq = w[i].seq  BY <1>1, <1>3
    <3>4. RecoveredSeq(v, k) = RecoveredSeq(w, k)
      BY <2>1, <3>1, <3>2, <3>3
    <3>5. QED  BY <1>7, <3>4 DEF v
  <2>4. QED  BY <2>2, <2>3
<1>8. QED  BY <1>6, <1>7

LEMMA AgentsAfterAppend ==
  ASSUME NEW w \in Seq(Record), NEW r \in Record
  PROVE  /\ RecoveredAgents(w) \in Nat
         /\ RecoveredAgents(Append(w, r)) = RecoveredAgents(w)
              + IF r.status = "committed" /\ r.key \in AgentKeys THEN 1 ELSE 0
<1> DEFINE v == Append(w, r)
           A(x) == {i \in DOMAIN x : /\ x[i].status = "committed"
                                     /\ x[i].key \in AgentKeys}
<1>1. /\ Len(w) \in Nat /\ DOMAIN w = 1 .. Len(w)
      /\ DOMAIN v = 1 .. Len(w) + 1
      /\ \A i \in DOMAIN w : v[i] = w[i]
      /\ v[Len(w) + 1] = r
  BY CleanAppend
<1> HIDE DEF v
<1>2. IsFiniteSet(A(w)) /\ Cardinality(A(w)) \in Nat
  <2>1. IsFiniteSet(1 .. Len(w))  BY <1>1, FS_Interval
  <2>2. IsFiniteSet(A(w))  BY <1>1, <2>1, FS_Subset
  <2>3. QED  BY <2>2, FS_CardinalityType
<1>3. A(v) = A(w) \cup (IF r.status = "committed" /\ r.key \in AgentKeys
                        THEN {Len(w) + 1} ELSE {})
  BY <1>1
<1>4. Len(w) + 1 \notin A(w)  BY <1>1
<1>5. RecoveredAgents(w) = Cardinality(A(w))
      /\ RecoveredAgents(v) = Cardinality(A(v))
  BY DEF RecoveredAgents
<1> HIDE DEF A
<1>6. Cardinality(A(v)) = Cardinality(A(w))
        + IF r.status = "committed" /\ r.key \in AgentKeys THEN 1 ELSE 0
  <2>1. CASE r.status = "committed" /\ r.key \in AgentKeys
    <3>1. A(v) = A(w) \cup {Len(w) + 1}  BY <1>3, <2>1
    <3>2. Cardinality(A(v)) = Cardinality(A(w)) + 1
      BY <1>2, <1>4, <3>1, FS_AddElement
    <3>3. QED  BY <2>1, <3>2
  <2>2. CASE ~ (r.status = "committed" /\ r.key \in AgentKeys)
    <3>1. A(v) = A(w)  BY <1>3, <2>2
    <3>2. QED  BY <1>2, <2>2, <3>1
  <2>3. QED  BY <2>1, <2>2
<1>7. QED  BY <1>2, <1>5, <1>6 DEF v

LEMMA InFlightAfterAppend ==
  ASSUME NEW w \in Seq(Record), NEW r \in Record
  PROVE  /\ RecoveredInFlight(Append(w, r))
              \subseteq RecoveredInFlight(w) \cup {r.key}
         /\ r.status = "committed"
              => r.key \notin RecoveredInFlight(Append(w, r))
<1> DEFINE v == Append(w, r)
<1>1. /\ Len(w) \in Nat /\ DOMAIN w = 1 .. Len(w)
      /\ DOMAIN v = 1 .. Len(w) + 1
      /\ \A i \in DOMAIN w : v[i] = w[i]
      /\ v[Len(w) + 1] = r
  BY CleanAppend
<1> HIDE DEF v
<1>2. ASSUME NEW k \in RecoveredInFlight(v), k # r.key
      PROVE  k \in RecoveredInFlight(w)
  <2>1. PICK i \in DOMAIN v :
          /\ v[i].key = k /\ v[i].status = "in_flight"
          /\ \A j \in DOMAIN v :
               j > i /\ v[j].key = k => v[j].status = "in_flight"
    BY <1>2 DEF RecoveredInFlight
  <2>2. i \in DOMAIN w /\ w[i] = v[i]  BY <1>1, <1>2, <2>1
  <2>3. \A j \in DOMAIN w : j \in DOMAIN v /\ v[j] = w[j]  BY <1>1
  <2>4. \A j \in DOMAIN w : j > i /\ w[j].key = k => w[j].status = "in_flight"
    BY <2>1, <2>3
  <2>5. QED  BY <1>2, <2>1, <2>2, <2>4 DEF RecoveredInFlight
<1>3. ASSUME r.status = "committed", r.key \in RecoveredInFlight(v)
      PROVE  FALSE
  <2>1. PICK i \in DOMAIN v :
          /\ v[i].key = r.key /\ v[i].status = "in_flight"
          /\ \A j \in DOMAIN v :
               j > i /\ v[j].key = r.key => v[j].status = "in_flight"
    BY <1>3 DEF RecoveredInFlight
  <2>2. CASE i = Len(w) + 1  BY <1>1, <1>3, <2>1, <2>2
  <2>3. CASE i # Len(w) + 1
    <3>1. Len(w) + 1 > i /\ Len(w) + 1 \in DOMAIN v  BY <1>1, <2>1, <2>3
    <3>2. QED  BY <1>1, <1>3, <2>1, <3>1
  <2>4. QED  BY <2>2, <2>3
<1>4. QED  BY <1>2, <1>3 DEF v

----------------------------------------------------------------------------
(* Durability, under the failures the journal tolerates.                   *)

\* No append fails in a live process, and a kill in the middle of one leaves
\* at most a last line that does not parse.
Tolerated == DiskMayFail = FALSE /\ TearPoints \subseteq {"torn"}

\* A torn line is absorbed by a begin, never by a commit: after a restart no
\* thread is past its begin while the file still ends in a torn line.
TailAbsorbed ==
  /\ tail # "unterminated"
  /\ ~ up => \A t \in Threads : pc[t] = "idle"
  /\ tail = "torn" => \A t \in Threads : pc[t] \in {"idle", "missed"}

\* What a thread has committed and not yet returned is in the file.
CommittedIsLogged ==
  \A t \in Threads : pc[t] = "committed" /\ ok[t] =>
    \E i \in OkAt(wal, key[t]) : wal[i].seq = mine[t]

DurInv == /\ SeqInv /\ TailAbsorbed /\ RecoveryIsExact
          /\ AckedIsDurable /\ CommittedIsLogged

LEMMA DurInvInit == Init => DurInv
<1> SUFFICES ASSUME Init  PROVE DurInv
  OBVIOUS
<1>1. SeqInv  BY SeqInvInit
<1>2. wal = <<>> /\ DOMAIN wal = {} /\ \A k \in Keys : OkAt(wal, k) = {}
  BY DEF Init, OkAt
<1>3. TailAbsorbed /\ CommittedIsLogged  BY DEF Init, TailAbsorbed, CommittedIsLogged
<1>4. AckedIsDurable  BY DEF Init, AckedIsDurable
<1>5. RecoveryIsExact
  <2>1. RecoveredIndex(wal) = [k \in Keys |-> None]
    BY <1>2 DEF RecoveredIndex, RecoveredSeq
  <2>2. RecoveredInFlight(wal) = {}  BY <1>2 DEF RecoveredInFlight
  <2>3. RecoveredAgents(wal) = 0
    <3>1. {i \in DOMAIN wal : wal[i].status = "committed"
                              /\ wal[i].key \in AgentKeys} = {}
      BY <1>2
    <3>2. QED  BY <3>1, FS_EmptySet DEF RecoveredAgents
  <2>4. QED  BY <2>1, <2>2, <2>3 DEF Init, RecoveryIsExact
<1>6. QED  BY <1>1, <1>3, <1>4, <1>5 DEF DurInv

\* A step that leaves the file and the memory alone keeps the memory exact.
LEMMA ExactUnchanged ==
  ASSUME RecoveryIsExact, UNCHANGED <<wal, index, inFlight, agents>>, up' => up
  PROVE  RecoveryIsExact'
  BY DEF RecoveryIsExact

\* An append keeps every ok record of the file.
LEMMA AppendKeepsOk ==
  ASSUME NEW w \in Seq(Record), NEW r \in Record, NEW k \in Keys,
         NEW i \in OkAt(w, k)
  PROVE  i \in OkAt(Append(w, r), k) /\ Append(w, r)[i].seq = w[i].seq
<1>1. i \in DOMAIN w  BY DEF OkAt
<1>2. QED  BY <1>1, OkAfterAppend, CleanAppend

LEMMA BeginDurable ==
  ASSUME DurInv, NEW t \in Threads, Begin(t), SeqInv'
  PROVE  DurInv'
<1> DEFINE r == BeginRecord(t)
<1>1. wal \in Seq(Record) /\ key[t] \in Keys /\ up  /\ up'
      /\ tail \in {"clean"} \cup Tears
  BY DEF DurInv, SeqInv, TypeOK, Begin
<1>2. r \in Record /\ r.key = key[t] /\ r.status = "in_flight"
  <2>1. r \in Record  BY PendingRecords DEF DurInv, SeqInv
  <2>2. QED  BY <2>1 DEF BeginRecord
<1>3. r.seq = nextSeq  BY DEF BeginRecord
<1> HIDE DEF r
<1>4. CASE tail = "clean"
  <2>1. wal' = Append(wal, r)  BY <1>4 DEF Begin, Appended, r
  <2>2. RecoveredIndex(wal') = index'
    <3>1. \A k \in Keys : RecoveredSeq(Append(wal, r), k) = RecoveredSeq(wal, k)
      <4> SUFFICES ASSUME NEW k \in Keys
                   PROVE  RecoveredSeq(Append(wal, r), k) = RecoveredSeq(wal, k)
        OBVIOUS
      <4>1. /\ \A i, j \in DOMAIN wal : i < j => wal[i].seq < wal[j].seq
            /\ \A i \in DOMAIN wal : wal[i].seq < r.seq
        BY <1>1, <1>3 DEF DurInv, SeqInv, SeqOrdersTheFile
      <4>2. ~ AppendedOk(r, k)  BY <1>2 DEF AppendedOk
      <4>3. QED  BY <1>1, <1>2, <4>1, <4>2, IndexAfterAppend
    <3>2. RecoveredIndex(Append(wal, r)) = RecoveredIndex(wal)
      BY <3>1 DEF RecoveredIndex
    <3>3. index = RecoveredIndex(wal) /\ index' = index
      BY <1>1 DEF DurInv, RecoveryIsExact, Begin
    <3>4. QED  BY <2>1, <3>2, <3>3
  <2>3. RecoveredAgents(wal') = agents'
    <3>1. RecoveredAgents(wal) = agents /\ agents' = agents
      BY <1>1 DEF DurInv, RecoveryIsExact, Begin
    <3>2. RecoveredAgents(Append(wal, r)) = RecoveredAgents(wal)
      BY <1>1, <1>2, AgentsAfterAppend
    <3>3. QED  BY <2>1, <3>1, <3>2
  <2>4. RecoveredInFlight(wal') \subseteq inFlight'
    <3>1. RecoveredInFlight(wal) \subseteq inFlight
          /\ inFlight' = inFlight \cup {key[t]}
      BY <1>1 DEF DurInv, RecoveryIsExact, Begin
    <3>2. QED  BY <1>1, <1>2, <2>1, <3>1, InFlightAfterAppend
  <2>5. \A k \in Keys : \A i \in OkAt(wal, k) :
          i \in OkAt(wal', k) /\ wal'[i].seq = wal[i].seq
    BY <1>1, <1>2, <2>1, AppendKeepsOk
  <2>6. AckedIsDurable'
    BY <2>5 DEF DurInv, AckedIsDurable, Begin
  <2>7. CommittedIsLogged'
    <3>1. ASSUME NEW u \in Threads, (pc[u] = "committed")', ok'[u]
          PROVE  \E i \in OkAt(wal', key'[u]) : wal'[i].seq = mine'[u]
      <4>1. pc[u] = "committed" /\ ok[u] /\ key'[u] = key[u]
            /\ mine'[u] = mine[u] /\ key[u] \in Keys
        BY <3>1 DEF Begin, DurInv, SeqInv, TypeOK
      <4>2. PICK i \in OkAt(wal, key[u]) : wal[i].seq = mine[u]
        BY <4>1 DEF DurInv, CommittedIsLogged
      <4>3. QED  BY <2>5, <4>1, <4>2
    <3>2. QED  BY <3>1 DEF CommittedIsLogged
  <2>8. TailAbsorbed'  BY <1>1 DEF Begin, TailAbsorbed
  <2>9. RecoveryIsExact'  BY <2>2, <2>3, <2>4 DEF RecoveryIsExact
  <2>10. QED  BY <2>6, <2>7, <2>8, <2>9 DEF DurInv
<1>5. CASE tail = "torn"
  <2>1. wal' = wal  BY <1>5 DEF Begin, Appended
  <2>2. /\ index' = index /\ agents' = agents /\ key' = key /\ ok' = ok
        /\ inFlight \subseteq inFlight' /\ mine' = mine /\ acked' = acked
        /\ \A u \in Threads : pc'[u] = "committed" => pc[u] = "committed"
        /\ tail' = "clean"
    BY DEF Begin, DurInv, SeqInv, TypeOK
  <2>3. RecoveryIsExact'
    BY <1>1, <2>1, <2>2 DEF DurInv, RecoveryIsExact
  <2>4. AckedIsDurable' /\ CommittedIsLogged'
    BY <2>1, <2>2 DEF DurInv, AckedIsDurable, CommittedIsLogged, OkAt
  <2>5. TailAbsorbed'  BY <1>1, <2>2 DEF TailAbsorbed
  <2>6. QED  BY <2>3, <2>4, <2>5 DEF DurInv
<1>6. QED  BY <1>1, <1>4, <1>5 DEF DurInv, TailAbsorbed, Tears

LEMMA CommitDurable ==
  ASSUME DurInv, NEW t \in Threads, Commit(t), SeqInv'
  PROVE  DurInv'
<1> DEFINE r == CommitRecord(t)
<1>1. /\ wal \in Seq(Record) /\ key[t] \in Keys /\ up /\ up'
      /\ ok[t] \in BOOLEAN /\ nextSeq \in Nat /\ pc[t] = "finished"
      /\ tail \in {"clean"} \cup Tears
  BY DEF DurInv, SeqInv, TypeOK, Commit
<1>2. r \in Record /\ r.key = key[t] /\ r.status = "committed" /\ r.ok = ok[t]
  <2>1. r \in Record  BY PendingRecords DEF DurInv, SeqInv
  <2>2. QED  BY <2>1 DEF CommitRecord
<1>3. r.seq = nextSeq  BY DEF CommitRecord
<1>4. tail = "clean"  BY <1>1 DEF DurInv, TailAbsorbed, Tears
<1>5. wal' = Append(wal, r)  BY <1>4 DEF Commit, Appended
<1> HIDE DEF r
<1>6. RecoveredIndex(wal') = index'
  <2>1. /\ \A i, j \in DOMAIN wal : i < j => wal[i].seq < wal[j].seq
        /\ \A i \in DOMAIN wal : wal[i].seq < r.seq
    BY <1>1, <1>3 DEF DurInv, SeqInv, SeqOrdersTheFile
  <2>2. \A k \in Keys : RecoveredSeq(Append(wal, r), k) =
           IF k = key[t] /\ ok[t] THEN nextSeq ELSE RecoveredSeq(wal, k)
    BY <1>1, <1>2, <1>3, <2>1, IndexAfterAppend DEF AppendedOk
  <2>3. index = RecoveredIndex(wal)  BY <1>1 DEF DurInv, RecoveryIsExact
  <2>4. index' = IF ok[t] THEN [index EXCEPT ![key[t]] = nextSeq] ELSE index
    BY DEF Commit
  <2>5. QED  BY <1>1, <1>5, <2>2, <2>3, <2>4 DEF RecoveredIndex
<1>7. RecoveredAgents(wal') = agents'
  <2>1. RecoveredAgents(wal) = agents
        /\ agents' = IF key[t] \in AgentKeys THEN agents + 1 ELSE agents
    BY <1>1 DEF DurInv, RecoveryIsExact, Commit
  <2>2. RecoveredAgents(Append(wal, r)) = RecoveredAgents(wal)
          + IF key[t] \in AgentKeys THEN 1 ELSE 0
    BY <1>1, <1>2, AgentsAfterAppend
  <2>3. RecoveredAgents(wal) \in Nat  BY <1>1, <1>2, AgentsAfterAppend
  <2>4. QED  BY <1>5, <2>1, <2>2, <2>3
<1>8. RecoveredInFlight(wal') \subseteq inFlight'
  <2>1. RecoveredInFlight(wal) \subseteq inFlight
        /\ inFlight' = inFlight \ {key[t]}
    BY <1>1 DEF DurInv, RecoveryIsExact, Commit
  <2>2. QED  BY <1>1, <1>2, <1>5, <2>1, InFlightAfterAppend
<1>9. \A k \in Keys : \A i \in OkAt(wal, k) :
        i \in OkAt(wal', k) /\ wal'[i].seq = wal[i].seq
  BY <1>1, <1>2, <1>5, AppendKeepsOk
<1>10. AckedIsDurable'
  BY <1>9 DEF DurInv, AckedIsDurable, Commit
<1>11. CommittedIsLogged'
  <2>1. ASSUME NEW u \in Threads, (pc[u] = "committed")', ok'[u]
        PROVE  \E i \in OkAt(wal', key'[u]) : wal'[i].seq = mine'[u]
    <3>1. CASE u = t
      <4>1. mine'[t] = nextSeq /\ key'[t] = key[t] /\ ok[t]
        BY <2>1, <3>1 DEF Commit, DurInv, SeqInv, TypeOK
      <4>2. Len(wal) + 1 \in OkAt(wal', key[t])
        BY <1>1, <1>2, <1>5, <4>1, OkAfterAppend DEF AppendedOk
      <4>3. wal'[Len(wal) + 1].seq = nextSeq
        BY <1>1, <1>2, <1>3, <1>5, CleanAppend
      <4>4. QED  BY <3>1, <4>1, <4>2, <4>3
    <3>2. CASE u # t
      <4>1. pc[u] = "committed" /\ ok[u] /\ key'[u] = key[u]
            /\ mine'[u] = mine[u] /\ key[u] \in Keys
        BY <2>1, <3>2 DEF Commit, DurInv, SeqInv, TypeOK
      <4>2. PICK i \in OkAt(wal, key[u]) : wal[i].seq = mine[u]
        BY <4>1 DEF DurInv, CommittedIsLogged
      <4>3. QED  BY <1>9, <4>1, <4>2
    <3>3. QED  BY <3>1, <3>2
  <2>2. QED  BY <2>1 DEF CommittedIsLogged
<1>12. TailAbsorbed'  BY <1>1 DEF Commit, TailAbsorbed
<1>13. RecoveryIsExact'  BY <1>6, <1>7, <1>8 DEF RecoveryIsExact
<1>14. QED  BY <1>10, <1>11, <1>12, <1>13 DEF DurInv

\* The steps that touch neither the file nor what a process knows of it.
LEMMA QuietDurable ==
  ASSUME DurInv, SeqInv', UNCHANGED <<wal, tail, index, inFlight, agents, up>>,
         up, AckedIsDurable', CommittedIsLogged',
         \A t \in Threads : pc'[t] \in {"idle", "missed"} \/ pc[t] \in
                            {"running", "finished", "committed"}
  PROVE  DurInv'
<1>1. RecoveryIsExact'  BY ExactUnchanged DEF DurInv
<1>2. TailAbsorbed'  BY DEF DurInv, TailAbsorbed
<1>3. QED  BY <1>1, <1>2 DEF DurInv

LEMMA DurInvNext == Tolerated /\ DurInv /\ [Next]_vars => DurInv'
<1> SUFFICES ASSUME Tolerated, DurInv, [Next]_vars  PROVE DurInv'
  OBVIOUS
<1>0. SeqInv'  BY SeqInvNext DEF DurInv
<1>1. ASSUME NEW t \in Threads, NEW k \in Keys, LookupMiss(t, k)
      PROVE  DurInv'
  <2>1. /\ UNCHANGED <<wal, tail, index, inFlight, agents, up, acked, ok, mine>>
        /\ up
        /\ \A u \in Threads : /\ u # t => pc'[u] = pc[u] /\ key'[u] = key[u]
                              /\ pc'[t] = "missed"
    BY <1>1 DEF LookupMiss, memory, DurInv, SeqInv, TypeOK
  <2>2. AckedIsDurable'  BY <2>1 DEF DurInv, AckedIsDurable, OkAt
  <2>3. CommittedIsLogged'
    BY <2>1 DEF DurInv, CommittedIsLogged, OkAt
  <2>4. \A u \in Threads : pc'[u] \in {"idle", "missed"} \/ pc[u] \in
                            {"running", "finished", "committed"}
    BY <2>1 DEF DurInv, SeqInv, TypeOK, PCs
  <2>5. QED  BY <1>0, <2>1, <2>2, <2>3, <2>4, QuietDurable
<1>2. ASSUME NEW t \in Threads, NEW k \in Keys, LookupHit(t, k)
      PROVE  DurInv'
  <2>1. UNCHANGED <<wal, tail, index, inFlight, agents, up, ok, mine, pc, key>>
        /\ up
    BY <1>2 DEF LookupHit, memory
  <2>2. \A j \in Keys : acked'[j] # None
          => \E i \in OkAt(wal, j) : wal[i].seq >= acked'[j]
    <3> SUFFICES ASSUME NEW j \in Keys, acked'[j] # None
                 PROVE  \E i \in OkAt(wal, j) : wal[i].seq >= acked'[j]
      OBVIOUS
    <3>1. CASE acked'[j] = acked[j]
      BY <3>1 DEF DurInv, AckedIsDurable
    <3>2. CASE acked'[j] # acked[j]
      <4>1. j = k /\ acked'[j] = index[k] /\ index[k] # None
        BY <1>2, <3>2 DEF LookupHit, DurInv, SeqInv, TypeOK
      <4>2. index[k] = RecoveredSeq(wal, k)
        BY <2>1 DEF DurInv, RecoveryIsExact, RecoveredIndex
      <4>3. OkAt(wal, k) # {}  BY <4>1, <4>2 DEF RecoveredSeq
      <4>4. \E m \in OkAt(wal, k) : index[k] = wal[m].seq
        BY <4>2, <4>3, LatestIsLast
           DEF DurInv, SeqInv, TypeOK, SeqOrdersTheFile
      <4>5. index[k] \in Nat
        BY <4>2, <4>3, LatestIsLast
           DEF DurInv, SeqInv, TypeOK, SeqOrdersTheFile
      <4>6. QED  BY <4>1, <4>4, <4>5
    <3>3. QED  BY <3>1, <3>2
  <2>3. AckedIsDurable'  BY <2>1, <2>2 DEF AckedIsDurable
  <2>4. CommittedIsLogged'  BY <2>1 DEF DurInv, CommittedIsLogged
  <2>5. \A u \in Threads : pc'[u] \in {"idle", "missed"} \/ pc[u] \in
                            {"running", "finished", "committed"}
    BY <2>1 DEF DurInv, SeqInv, TypeOK, PCs
  <2>6. QED  BY <1>0, <2>1, <2>3, <2>4, <2>5, QuietDurable
<1>3. ASSUME NEW t \in Threads, Begin(t)  PROVE DurInv'
  BY <1>0, <1>3, BeginDurable
<1>4. ASSUME NEW t \in Threads, NEW res \in BOOLEAN, Finish(t, res)
      PROVE  DurInv'
  <2>1. /\ UNCHANGED <<wal, tail, index, inFlight, agents, up, acked, key, mine>>
        /\ up /\ pc[t] = "running" /\ pc'[t] = "finished"
        /\ \A u \in Threads : u # t => pc'[u] = pc[u] /\ ok'[u] = ok[u]
    BY <1>4 DEF Finish, memory, DurInv, SeqInv, TypeOK
  <2>2. AckedIsDurable'  BY <2>1 DEF DurInv, AckedIsDurable
  <2>3. CommittedIsLogged'  BY <2>1 DEF DurInv, CommittedIsLogged
  <2>4. \A u \in Threads : pc'[u] \in {"idle", "missed"} \/ pc[u] \in
                            {"running", "finished", "committed"}
    BY <2>1 DEF DurInv, SeqInv, TypeOK, PCs
  <2>5. QED  BY <1>0, <2>1, <2>2, <2>3, <2>4, QuietDurable
<1>5. ASSUME NEW t \in Threads, Raise(t)  PROVE DurInv'
  <2>1. /\ UNCHANGED <<wal, tail, index, inFlight, agents, up, acked, key, mine, ok>>
        /\ up /\ pc[t] = "running" /\ pc'[t] = "idle"
        /\ \A u \in Threads : u # t => pc'[u] = pc[u]
    BY <1>5 DEF Raise, memory, DurInv, SeqInv, TypeOK
  <2>2. AckedIsDurable'  BY <2>1 DEF DurInv, AckedIsDurable
  <2>3. CommittedIsLogged'  BY <2>1 DEF DurInv, CommittedIsLogged
  <2>4. \A u \in Threads : pc'[u] \in {"idle", "missed"} \/ pc[u] \in
                            {"running", "finished", "committed"}
    BY <2>1 DEF DurInv, SeqInv, TypeOK, PCs
  <2>5. QED  BY <1>0, <2>1, <2>2, <2>3, <2>4, QuietDurable
<1>6. ASSUME NEW t \in Threads, Commit(t)  PROVE DurInv'
  BY <1>0, <1>6, CommitDurable
<1>7. ASSUME NEW t \in Threads, Return(t)  PROVE DurInv'
  <2>1. /\ UNCHANGED <<wal, tail, index, inFlight, agents, up, key, mine, ok>>
        /\ up /\ pc[t] = "committed" /\ pc'[t] = "idle"
        /\ \A u \in Threads : u # t => pc'[u] = pc[u]
        /\ key[t] \in Keys
    BY <1>7 DEF Return, memory, DurInv, SeqInv, TypeOK
  <2>2. \A j \in Keys : acked'[j] # None
          => \E i \in OkAt(wal, j) : wal[i].seq >= acked'[j]
    <3> SUFFICES ASSUME NEW j \in Keys, acked'[j] # None
                 PROVE  \E i \in OkAt(wal, j) : wal[i].seq >= acked'[j]
      OBVIOUS
    <3>1. CASE acked'[j] = acked[j]
      BY <3>1 DEF DurInv, AckedIsDurable
    <3>2. CASE acked'[j] # acked[j]
      <4>1. j = key[t] /\ ok[t] /\ acked'[j] = mine[t]
        BY <1>7, <3>2 DEF Return, DurInv, SeqInv, TypeOK
      <4>2. mine[t] \in Int  BY DEF DurInv, SeqInv, TypeOK, None
      <4>3. \E i \in OkAt(wal, j) : wal[i].seq = mine[t]
        BY <2>1, <4>1 DEF DurInv, CommittedIsLogged
      <4>4. QED  BY <4>1, <4>2, <4>3
    <3>3. QED  BY <3>1, <3>2
  <2>3. AckedIsDurable'  BY <2>1, <2>2 DEF AckedIsDurable
  <2>4. CommittedIsLogged'  BY <2>1 DEF DurInv, CommittedIsLogged
  <2>5. \A u \in Threads : pc'[u] \in {"idle", "missed"} \/ pc[u] \in
                            {"running", "finished", "committed"}
    BY <2>1 DEF DurInv, SeqInv, TypeOK, PCs
  <2>6. QED  BY <1>0, <2>1, <2>3, <2>4, <2>5, QuietDurable
<1>8. ASSUME NEW t \in Threads, AppendRaises(t)  PROVE DurInv'
  BY <1>8 DEF AppendRaises, Tolerated
<1>9. ASSUME Kill  PROVE DurInv'
  <2>1. /\ UNCHANGED <<key, ok, mine, acked>> /\ up' = FALSE
        /\ \A t \in Threads : pc'[t] = "idle"
    BY <1>9 DEF Kill
  <2>2. wal' = wal /\ tail' \in {"clean", "torn"}
    <3>1. tail \in {"clean", "torn"}
      BY DEF DurInv, SeqInv, TypeOK, TailAbsorbed, Tears
    <3>2. CASE UNCHANGED <<wal, tail>>  BY <3>1, <3>2
    <3>3. ASSUME NEW t \in Threads, NEW p \in TearPoints,
                 wal' = TornWal(wal, tail, Pending(t), p),
                 tail' = TornTail(tail, p)
          PROVE  wal' = wal /\ tail' \in {"clean", "torn"}
      <4>1. p = "torn"  BY DEF Tolerated
      <4>2. QED  BY <3>1, <3>3, <4>1 DEF TornWal, TornTail
    <3>4. QED  BY <1>9, <3>2, <3>3 DEF Kill
  <2>3. AckedIsDurable'  BY <2>1, <2>2 DEF DurInv, AckedIsDurable
  <2>4. QED
    BY <1>0, <2>1, <2>2, <2>3
       DEF DurInv, TailAbsorbed, CommittedIsLogged, RecoveryIsExact
<1>10. ASSUME Recover  PROVE DurInv'
  <2>1. UNCHANGED <<wal, tail, pc, key, ok, mine, acked>> /\ ~ up
    BY <1>10 DEF Recover
  <2>2. RecoveryIsExact'  BY <1>10 DEF Recover, RecoveryIsExact
  <2>3. AckedIsDurable' /\ CommittedIsLogged'
    BY <2>1 DEF DurInv, AckedIsDurable, CommittedIsLogged
  <2>4. TailAbsorbed'  BY <2>1 DEF DurInv, TailAbsorbed
  <2>5. QED  BY <1>0, <2>2, <2>3, <2>4 DEF DurInv
<1>11. CASE UNCHANGED vars
  <2>1. UNCHANGED <<wal, tail, up, index, inFlight, agents, pc, key, ok, mine,
                    acked>>
    BY <1>11 DEF vars
  <2>2. RecoveryIsExact'  BY <2>1, ExactUnchanged DEF DurInv
  <2>3. AckedIsDurable' /\ CommittedIsLogged' /\ TailAbsorbed'
    BY <2>1 DEF DurInv, AckedIsDurable, CommittedIsLogged, TailAbsorbed
  <2>4. QED  BY <1>0, <2>2, <2>3 DEF DurInv
<1>12. QED
  BY <1>1, <1>2, <1>3, <1>4, <1>5, <1>6, <1>7, <1>8, <1>9, <1>10, <1>11 DEF Next

\* For any number of threads, keys and kills: what a caller has been handed is
\* in the file, as long as the failures are those the journal tolerates.
THEOREM Durability == Tolerated => (Spec => []AckedIsDurable)
<1> SUFFICES ASSUME Tolerated  PROVE Spec => []AckedIsDurable
  OBVIOUS
<1>1. DurInv /\ [Next]_vars => DurInv'  BY DurInvNext
<1>2. DurInv => AckedIsDurable  BY DEF DurInv
<1>3. QED  BY <1>1, <1>2, DurInvInit, PTL DEF Spec

\* The same for the memory: what the live process knows is what the process
\* that replaces it will rebuild.
THEOREM ExactRecovery == Tolerated => (Spec => []RecoveryIsExact)
<1> SUFFICES ASSUME Tolerated  PROVE Spec => []RecoveryIsExact
  OBVIOUS
<1>1. DurInv /\ [Next]_vars => DurInv'  BY DurInvNext
<1>2. DurInv => RecoveryIsExact  BY DEF DurInv
<1>3. QED  BY <1>1, <1>2, DurInvInit, PTL DEF Spec

\* A resume re-runs only what no caller has a usable result of: the lookup of
\* a settled key hits, in the process that settled it and in the next ones.
THEOREM NoRerun == Tolerated => (Spec => SettledNeverReruns)
<1> SUFFICES ASSUME Tolerated  PROVE Spec => SettledNeverReruns
  OBVIOUS
<1>1. DurInv /\ [Next]_vars => DurInv'  BY DurInvNext
<1>2. DurInv /\ [Next]_vars
        => [\A t \in Threads : pc[t] = "idle" /\ pc'[t] = "missed"
                                 => acked[key'[t]] = None]_vars
  <2> SUFFICES ASSUME DurInv, Next, NEW t \in Threads, pc[t] = "idle",
                      pc'[t] = "missed"
               PROVE  acked[key'[t]] = None
    BY DEF vars
  <2>1. PICK k \in Keys : LookupMiss(t, k)
    <3>1. ASSUME NEW u \in Threads, NEW k \in Keys, LookupMiss(u, k)
          PROVE  u = t
      BY <3>1 DEF LookupMiss, DurInv, SeqInv, TypeOK
    <3>2. ASSUME NEW u \in Threads,
                 \/ \E k \in Keys : LookupHit(u, k)
                 \/ Begin(u) \/ \E res \in BOOLEAN : Finish(u, res)
                 \/ Raise(u) \/ Commit(u) \/ Return(u) \/ AppendRaises(u)
          PROVE  FALSE
      BY <3>2 DEF LookupHit, Begin, Finish, Raise, Commit, Return,
         AppendRaises, DurInv, SeqInv, TypeOK
    <3>3. ~ Kill /\ ~ Recover  BY DEF Kill, Recover
    <3>4. QED  BY <3>1, <3>2, <3>3 DEF Next
  <2>2. key'[t] = k /\ up /\ index[k] = None
    BY <2>1 DEF LookupMiss, DurInv, SeqInv, TypeOK
  <2>3. RecoveredSeq(wal, k) = None
    BY <2>2 DEF DurInv, RecoveryIsExact, RecoveredIndex
  <2>4. OkAt(wal, k) = {}
    BY <2>3, LatestIsLast DEF DurInv, SeqInv, TypeOK, SeqOrdersTheFile, None
  <2>5. QED  BY <2>2, <2>4 DEF DurInv, AckedIsDurable
<1>3. QED  BY <1>1, <1>2, DurInvInit, PTL DEF Spec, SettledNeverReruns

----------------------------------------------------------------------------
(* The journal implements the memo table.                                  *)

\* What a scan finds for a key: nothing, or its last ok record.
LEMMA ScanBounds ==
  ASSUME DurInv, NEW k \in Keys
  PROVE  /\ RecoveredIndex(wal)[k] \in Nat \cup {None}
         /\ \A i \in OkAt(wal, k) : wal[i].seq <= RecoveredIndex(wal)[k]
         /\ up => RecoveredIndex(wal)[k] < nextSeq
<1>1. /\ wal \in Seq(Record) /\ nextSeq \in Nat
      /\ \A i, j \in DOMAIN wal : i < j => wal[i].seq < wal[j].seq
      /\ up => \A i \in DOMAIN wal : wal[i].seq < nextSeq
  BY DEF DurInv, SeqInv, TypeOK, SeqOrdersTheFile
<1>2. RecoveredIndex(wal)[k] = RecoveredSeq(wal, k)  BY DEF RecoveredIndex
<1>3. CASE OkAt(wal, k) = {}  BY <1>1, <1>2, <1>3 DEF RecoveredSeq, None
<1>4. CASE OkAt(wal, k) # {}
  <2>1. /\ RecoveredSeq(wal, k) \in Nat
        /\ \E m \in OkAt(wal, k) : RecoveredSeq(wal, k) = wal[m].seq
        /\ \A i \in OkAt(wal, k) : wal[i].seq <= RecoveredSeq(wal, k)
    BY <1>1, <1>4, LatestIsLast
  <2>2. OkAt(wal, k) \subseteq DOMAIN wal  BY DEF OkAt
  <2>3. QED  BY <1>1, <1>2, <2>1, <2>2
<1>5. QED  BY <1>3, <1>4

\* A caller is given a result no newer than what a scan finds.
LEMMA ServeStep ==
  ASSUME DurInv, NEW k \in Keys, NEW v \in Nat, v > acked[k],
         v <= RecoveredIndex(wal)[k],
         acked' = [acked EXCEPT ![k] = v], RecoveredIndex(wal)' = RecoveredIndex(wal)
  PROVE  MemoTable!Next
<1>1. v \in 0 .. RecoveredIndex(wal)[k]
  <2>1. RecoveredIndex(wal)[k] \in Nat \cup {None}  BY ScanBounds
  <2>2. QED  BY <2>1 DEF None
<1>2. MemoTable!Serve(k)  BY <1>1 DEF MemoTable!Serve
<1>3. QED  BY <1>2 DEF MemoTable!Next

\* A tolerated kill leaves the readable records as they are.
LEMMA KillKeepsFile ==
  ASSUME Tolerated, DurInv, Kill
  PROVE  wal' = wal
<1>1. tail \in {"clean", "torn"}
  BY DEF DurInv, SeqInv, TypeOK, TailAbsorbed, Tears
<1>2. ASSUME NEW t \in Threads, NEW p \in TearPoints,
             wal' = TornWal(wal, tail, Pending(t), p)
      PROVE  wal' = wal
  BY <1>1, <1>2 DEF Tolerated, TornWal
<1>3. QED  BY <1>2 DEF Kill

LEMMA MemoStep ==
  ASSUME Tolerated, DurInv, DurInv', Next
  PROVE  \/ MemoTable!Next
         \/ RecoveredIndex(wal)' = RecoveredIndex(wal) /\ acked' = acked
<1> DEFINE Goal == \/ MemoTable!Next
                   \/ RecoveredIndex(wal)' = RecoveredIndex(wal) /\ acked' = acked
<1>0. /\ up => RecoveredIndex(wal) = index
      /\ up' => RecoveredIndex(wal)' = index'
  BY DEF DurInv, RecoveryIsExact
<1>1. ASSUME NEW t \in Threads,
             \/ \E k \in Keys : LookupMiss(t, k)
             \/ Begin(t) \/ (\E res \in BOOLEAN : Finish(t, res)) \/ Raise(t)
      PROVE  Goal
  <2>1. up /\ up' /\ index' = index /\ acked' = acked
    BY <1>1 DEF LookupMiss, Begin, Finish, Raise, memory
  <2>2. QED  BY <1>0, <2>1
<1>2. ASSUME NEW t \in Threads, NEW k \in Keys, LookupHit(t, k)  PROVE Goal
  <2>1. /\ up /\ up' /\ index' = index /\ index[k] # None
        /\ acked' = [acked EXCEPT ![k] = IF index[k] > @ THEN index[k] ELSE @]
    BY <1>2 DEF LookupHit, memory
  <2>2. index[k] \in Nat /\ acked \in [Keys -> Nat \cup {None}]
    BY <2>1 DEF DurInv, SeqInv, TypeOK
  <2>3. CASE index[k] > acked[k]
    <3>1. acked' = [acked EXCEPT ![k] = index[k]]  BY <2>1, <2>3
    <3>2. /\ RecoveredIndex(wal)' = RecoveredIndex(wal)
          /\ index[k] <= RecoveredIndex(wal)[k]
      BY <1>0, <2>1, <2>2
    <3>3. MemoTable!Next  BY <2>2, <2>3, <3>1, <3>2, ServeStep
    <3>4. QED  BY <3>3
  <2>4. CASE ~ (index[k] > acked[k])
    <3>1. acked' = acked  BY <2>1, <2>2, <2>4
    <3>2. QED  BY <1>0, <2>1, <3>1
  <2>5. QED  BY <2>3, <2>4
<1>3. ASSUME NEW t \in Threads, Commit(t)  PROVE Goal
  <2>1. /\ up /\ up' /\ acked' = acked
        /\ index' = IF ok[t] THEN [index EXCEPT ![key[t]] = nextSeq] ELSE index
    BY <1>3 DEF Commit
  <2>2. key[t] \in Keys /\ nextSeq \in Nat /\ index \in [Keys -> Nat \cup {None}]
    BY DEF DurInv, SeqInv, TypeOK
  <2>3. CASE ok[t]
    <3>1. index[key[t]] < nextSeq  BY <1>0, <2>1, <2>2, ScanBounds
    <3>2. /\ index'[key[t]] = nextSeq
          /\ index' = [index EXCEPT ![key[t]] = index'[key[t]]]
      BY <2>1, <2>2, <2>3
    <3>3. MemoTable!Learn(key[t])
      BY <1>0, <2>1, <2>2, <3>1, <3>2 DEF MemoTable!Learn
    <3>4. QED  BY <2>2, <3>3 DEF MemoTable!Next
  <2>4. CASE ~ ok[t]  BY <1>0, <2>1, <2>4
  <2>5. QED  BY <2>3, <2>4
<1>4. ASSUME NEW t \in Threads, Return(t)  PROVE Goal
  <2>1. /\ up /\ up' /\ index' = index /\ pc[t] = "committed"
        /\ acked' = IF ok[t] /\ mine[t] > acked[key[t]]
                    THEN [acked EXCEPT ![key[t]] = mine[t]] ELSE acked
    BY <1>4 DEF Return, memory
  <2>2. key[t] \in Keys  BY DEF DurInv, SeqInv, TypeOK
  <2>3. CASE ok[t] /\ mine[t] > acked[key[t]]
    <3>1. PICK i \in OkAt(wal, key[t]) : wal[i].seq = mine[t]
      BY <2>1, <2>3 DEF DurInv, CommittedIsLogged
    <3>2. mine[t] <= RecoveredIndex(wal)[key[t]]  BY <2>2, <3>1, ScanBounds
    <3>3. mine[t] \in Nat
      BY <2>2, <2>3, <3>1 DEF DurInv, SeqInv, TypeOK, None
    <3>4. MemoTable!Next
      BY <1>0, <2>1, <2>2, <2>3, <3>2, <3>3, ServeStep
    <3>5. QED  BY <3>4
  <2>4. CASE ~ (ok[t] /\ mine[t] > acked[key[t]])  BY <1>0, <2>1, <2>4
  <2>5. QED  BY <2>3, <2>4
<1>5. ASSUME NEW t \in Threads, AppendRaises(t)  PROVE Goal
  BY <1>5 DEF AppendRaises, Tolerated
<1>6. ASSUME Kill  PROVE Goal
  <2>1. acked' = acked  BY <1>6 DEF Kill
  <2>2. wal' = wal  BY <1>6, KillKeepsFile
  <2>3. QED  BY <2>1, <2>2
<1>7. ASSUME Recover  PROVE Goal
  BY <1>7 DEF Recover
<1>8. QED  BY <1>1, <1>2, <1>3, <1>4, <1>5, <1>6, <1>7 DEF Next

\* Under the tolerated failures the journal, with its threads, file, kills and
\* recoveries, implements a memo table that never forgets.
THEOREM Implements == Tolerated => (Spec => ImplementsMemo)
<1> SUFFICES ASSUME Tolerated  PROVE Spec => ImplementsMemo
  OBVIOUS
<1>1. DurInv /\ [Next]_vars => DurInv'  BY DurInvNext
<1>2. Init => MemoTable!Init
  <2> SUFFICES ASSUME Init  PROVE MemoTable!Init
    OBVIOUS
  <2>1. index = RecoveredIndex(wal)
    BY DurInvInit DEF DurInv, RecoveryIsExact, Init
  <2>2. QED
    BY <2>1 DEF Init, MemoTable!Init, MemoTable!Unknown, None
<1>3. DurInv /\ DurInv' /\ [Next]_vars
        => [MemoTable!Next]_<<RecoveredIndex(wal), acked>>
  <2> SUFFICES ASSUME DurInv, DurInv', [Next]_vars
               PROVE  [MemoTable!Next]_<<RecoveredIndex(wal), acked>>
    OBVIOUS
  <2>1. CASE Next  BY <2>1, MemoStep
  <2>2. CASE UNCHANGED vars  BY <2>2 DEF vars
  <2>3. QED  BY <2>1, <2>2
<1>4. QED
  BY <1>1, <1>2, <1>3, DurInvInit, PTL DEF Spec, ImplementsMemo, MemoTable!Spec

\* Every step notes one result in the ledger, or leaves the ledger alone: the
\* live process knows what is in the file (RecoveryIsExact), and a kill does
\* not change it.
LEMMA LedgerStep ==
  ASSUME Tolerated, DurInv, DurInv', Next
  PROVE  \/ CallLedger!Next
         \/ UNCHANGED <<SettledCalls(wal), RecoveredAgents(wal)>>
<1> DEFINE Settled == {k \in AgentKeys : index[k] # None}
           Goal == \/ CallLedger!Next
                   \/ UNCHANGED <<SettledCalls(wal), RecoveredAgents(wal)>>
<1>0. /\ up => SettledCalls(wal) = Settled /\ RecoveredAgents(wal) = agents
      /\ up' => SettledCalls(wal)' = Settled' /\ RecoveredAgents(wal)' = agents'
  BY DEF DurInv, RecoveryIsExact, SettledCalls
<1>1. ASSUME NEW t \in Threads,
             \/ \E k \in Keys : LookupMiss(t, k) \/ LookupHit(t, k)
             \/ Begin(t) \/ (\E res \in BOOLEAN : Finish(t, res)) \/ Raise(t)
             \/ Return(t)
      PROVE  Goal
  <2>1. up /\ up' /\ UNCHANGED <<index, agents>>
    BY <1>1 DEF LookupMiss, LookupHit, Begin, Finish, Raise, Return, memory
  <2>2. QED  BY <1>0, <2>1
<1>2. ASSUME NEW t \in Threads, Commit(t)  PROVE Goal
  <2>1. /\ up /\ up'
        /\ agents' = IF key[t] \in AgentKeys THEN agents + 1 ELSE agents
        /\ index' = IF ok[t] THEN [index EXCEPT ![key[t]] = nextSeq] ELSE index
    BY <1>2 DEF Commit
  <2>2. /\ key[t] \in Keys /\ ok[t] \in BOOLEAN /\ nextSeq \in Nat
        /\ index \in [Keys -> Nat \cup {None}]
    BY DEF DurInv, SeqInv, TypeOK
  <2>3. \A k \in AgentKeys :
          k \in Settled' <=> k \in Settled \/ (ok[t] /\ k = key[t])
    BY <2>1, <2>2, ConstantsAssumption DEF None
  <2>4. CASE key[t] \in AgentKeys
    <3>1. Settled' = IF ok[t] THEN Settled \cup {key[t]} ELSE Settled
      BY <2>3, <2>4
    <3>2. CallLedger!Note(key[t], ok[t])
      BY <1>0, <2>1, <2>4, <3>1 DEF CallLedger!Note
    <3>3. QED  BY <2>2, <2>4, <3>2 DEF CallLedger!Next
  <2>5. CASE key[t] \notin AgentKeys
    <3>1. Settled' = Settled  BY <2>3, <2>5
    <3>2. QED  BY <1>0, <2>1, <2>5, <3>1
  <2>6. QED  BY <2>4, <2>5
<1>3. ASSUME NEW t \in Threads, AppendRaises(t)  PROVE Goal
  BY <1>3 DEF AppendRaises, Tolerated
<1>4. ASSUME wal' = wal  PROVE Goal
  BY <1>4
<1>5. QED
  BY <1>1, <1>2, <1>3, <1>4, KillKeepsFile DEF Next, Recover

\* To the engine the journal is a ledger of its agent calls: whatever else is
\* journaled, and whenever the process is killed, a settled call stays
\* settled and the records that count against the ceiling keep counting.
THEOREM KeepsTheLedger == Tolerated => (Spec => ImplementsLedger)
<1> SUFFICES ASSUME Tolerated  PROVE Spec => ImplementsLedger
  OBVIOUS
<1>1. DurInv /\ [Next]_vars => DurInv'  BY DurInvNext
<1>2. Init => CallLedger!Init
  <2> SUFFICES ASSUME Init  PROVE CallLedger!Init
    OBVIOUS
  <2>1. index = RecoveredIndex(wal) /\ agents = RecoveredAgents(wal)
    BY DurInvInit DEF DurInv, RecoveryIsExact, Init
  <2>2. QED
    BY <2>1, ConstantsAssumption DEF Init, CallLedger!Init, SettledCalls
<1>3. DurInv /\ DurInv' /\ [Next]_vars
        => [CallLedger!Next]_<<SettledCalls(wal), RecoveredAgents(wal)>>
  <2> SUFFICES ASSUME DurInv, DurInv', [Next]_vars
               PROVE  [CallLedger!Next]_<<SettledCalls(wal),
                                          RecoveredAgents(wal)>>
    OBVIOUS
  <2>1. CASE Next  BY <2>1, LedgerStep
  <2>2. CASE UNCHANGED vars  BY <2>2 DEF vars
  <2>3. QED  BY <2>1, <2>2
<1>4. QED
  BY <1>1, <1>2, <1>3, DurInvInit, PTL
  DEF Spec, ImplementsLedger, CallLedger!Spec
=============================================================================
