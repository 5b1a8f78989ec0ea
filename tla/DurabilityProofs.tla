-------------------------- MODULE DurabilityProofs --------------------------
(***************************************************************************)
(* Proofs about the write-ahead log and the partition that recovers from   *)
(* it, for every number of records, changes, rows, snapshots and crashes.  *)
(*                                                                         *)
(* The log: whatever a crash leaves at the end of the file, what can be    *)
(* read are whole groups, and perhaps the beginning of one; the scan gets  *)
(* through it without an error, and every transaction that append          *)
(* acknowledged is among those it reads, under Sync even in the part that  *)
(* is on stable storage.                                                   *)
(*                                                                         *)
(* The partition: as long as no snapshot is astray, what recovery would    *)
(* make of the newest snapshot and any part of the log that a power loss   *)
(* may leave is a state of the timeline, not older than it is owed, and    *)
(* with the whole log it is the store in memory.                           *)
(***************************************************************************)
EXTENDS DurablePartition, Induction, SequenceTheorems, FiniteSetTheorems

(* The records that can be read, and the transactions read from them. *)
Log == ValidPrefix(file)
Txs == Scan(file).txs

Scans == [offset : Nat, open : Tx \cup {None}, txs : Seq(LoggedTx), error : BOOLEAN]
Results == [store : Stores, lsn : Nat, error : BOOLEAN]

(* File and handle. *)
Ready == handle \in {"Opened", "Recovered"}

WalInv ==
    /\ policy \in Policies
    /\ Log \in Seq(Record)
    /\ \E tail \in Tails : file = Log \o tail /\ (Ready => tail = <<>>)
    /\ synced \in 0 .. Len(Log)
    /\ ~Scan(file).error
    /\ handle # "Closed" => header = "Valid"
    /\ Ready => nextLsn = Len(file)
    /\ handle = "Failed" => nextLsn \in 0 .. Len(Log)
    /\ handle = "Recovered" => cursor = Len(file)
    /\ header = "Missing" => file = <<>>

(* What was acknowledged can be read; under Sync from what is synced. *)
AckInv ==
    /\ acked \in Seq(LoggedTx)
    /\ AckedAreRecovered
    /\ policy = "Sync" => \A i \in DOMAIN acked : acked[i].lsn < synced

(* The client of the log alone never uses a transaction number twice. *)
IssuedInv ==
    /\ issued \subseteq Tx /\ IsFiniteSet(issued)
    /\ \A t \in issued : t.tx < Cardinality(issued)
    /\ ToSet(RecoveredTxs(file)) \subseteq issued
-----------------------------------------------------------------------------
(* The loops are well defined: each has the value its recursion says. *)

(* recover_changes, record by record. *)
LEMMA ScanSteps ==
    ASSUME NEW f
    PROVE  /\ ScanTo(f, 0) = ScanStart
           /\ \A n \in Nat : ScanTo(f, n + 1) = ScanRecord(ScanTo(f, n), f[n + 1])
<1> DEFINE Runs(g, k) == g = [i \in 0 .. k |-> IF i = 0 THEN ScanStart
                                          ELSE ScanRecord(g[i - 1], f[i])]
           Exist == {k \in Nat : \E g : Runs(g, k)}
<1>1. 0 \in Exist
  <2>1. Runs([i \in 0 .. 0 |-> ScanStart], 0)
    OBVIOUS
  <2> QED BY <2>1
<1>2. ASSUME NEW k \in Nat, k \in Exist PROVE k + 1 \in Exist
  <2>1. PICK g : Runs(g, k)
    BY <1>2
  <2> DEFINE h == [i \in 0 .. k + 1 |-> IF i <= k THEN g[i]
                                      ELSE ScanRecord(g[k], f[k + 1])]
  <2>2. ASSUME NEW i \in 0 .. k + 1
        PROVE  h[i] = IF i = 0 THEN ScanStart ELSE ScanRecord(h[i - 1], f[i])
    <3>1. CASE i = 0
      <4>1. h[0] = g[0] /\ g[0] = ScanStart
        BY <2>1
      <4> QED BY <3>1, <4>1
    <3>2. CASE i \in 1 .. k
      <4>1. i - 1 \in 0 .. k /\ i \in 0 .. k /\ i # 0
        BY <3>2
      <4>2. h[i] = g[i] /\ h[i - 1] = g[i - 1]
        BY <4>1
      <4>3. g[i] = ScanRecord(g[i - 1], f[i])
        BY <2>1, <4>1
      <4> QED BY <4>1, <4>2, <4>3
    <3>3. CASE i = k + 1
      <4>1. h[i] = ScanRecord(g[k], f[k + 1]) /\ h[i - 1] = g[k] /\ i # 0
        BY <3>3
      <4> QED BY <3>3, <4>1
    <3> QED BY <3>1, <3>2, <3>3
  <2>3. Runs(h, k + 1)
    BY <2>2, Zenon
  <2> HIDE DEF h, Runs
  <2> QED BY <2>3
<1>3. \A k \in Nat : \E g : Runs(g, k)
  <2> HIDE DEF Exist
  <2>1. Nat \subseteq Exist
    BY <1>1, <1>2, InductionOnNat
  <2> QED BY <2>1 DEF Exist
<1> DEFINE run(k) == CHOOSE g : Runs(g, k)
<1>4. ASSUME NEW k \in Nat PROVE Runs(run(k), k)
  <2> HIDE DEF Runs
  <2> QED BY <1>3
<1>5. ASSUME NEW k \in Nat PROVE ScanTo(f, k) = run(k)[k]
  BY DEF ScanTo
<1> HIDE DEF run
<1>6. ASSUME NEW k \in Nat PROVE run(k)[0] = ScanStart
  BY <1>4
<1>7. ASSUME NEW k \in Nat, NEW i \in 1 .. k
      PROVE  run(k)[i] = ScanRecord(run(k)[i - 1], f[i])
  <2>1. i \in 0 .. k /\ i # 0
    OBVIOUS
  <2> QED BY <1>4, <2>1
<1>8. ASSUME NEW n \in Nat PROVE run(n + 1)[n] = run(n)[n]
  <2> DEFINE Same == {k \in Nat : k <= n => run(n + 1)[k] = run(n)[k]}
  <2>1. 0 \in Same
    BY <1>6
  <2>2. ASSUME NEW k \in Nat, k \in Same PROVE k + 1 \in Same
    <3> SUFFICES ASSUME k + 1 <= n PROVE run(n + 1)[k + 1] = run(n)[k + 1]
      OBVIOUS
    <3>1. k + 1 \in 1 .. n /\ k + 1 \in 1 .. n + 1 /\ (k + 1) - 1 = k
      OBVIOUS
    <3>2. run(n + 1)[k] = run(n)[k]
      BY <2>2
    <3> QED BY <1>7, <3>1, <3>2
  <2>3. n \in Same
    <3> HIDE DEF Same
    <3> QED BY <2>1, <2>2, InductionOnNat
  <2> QED BY <2>3
<1>9. ASSUME NEW n \in Nat
      PROVE  ScanTo(f, n + 1) = ScanRecord(ScanTo(f, n), f[n + 1])
  <2>1. n + 1 \in Nat /\ n + 1 \in 1 .. n + 1 /\ (n + 1) - 1 = n
    OBVIOUS
  <2>2. run(n + 1)[n + 1] = ScanRecord(run(n + 1)[n], f[n + 1])
    BY <1>7, <2>1
  <2> QED BY <1>5, <1>8, <2>1, <2>2
<1>10. ScanTo(f, 0) = ScanStart
  BY <1>5, <1>6
<1> QED BY <1>9, <1>10

(* recover, transaction by transaction. *)
LEMMA ReplaySteps ==
    ASSUME NEW result, NEW txs
    PROVE  /\ Replayed(result, txs, 0) = result
           /\ \A n \in Nat : Replayed(result, txs, n + 1) = ReplayTx(Replayed(result, txs, n), txs[n + 1])
<1> DEFINE Runs(g, k) == g = [i \in 0 .. k |-> IF i = 0 THEN result
                                          ELSE ReplayTx(g[i - 1], txs[i])]
           Exist == {k \in Nat : \E g : Runs(g, k)}
<1>1. 0 \in Exist
  <2>1. Runs([i \in 0 .. 0 |-> result], 0)
    OBVIOUS
  <2> QED BY <2>1
<1>2. ASSUME NEW k \in Nat, k \in Exist PROVE k + 1 \in Exist
  <2>1. PICK g : Runs(g, k)
    BY <1>2
  <2> DEFINE h == [i \in 0 .. k + 1 |-> IF i <= k THEN g[i]
                                      ELSE ReplayTx(g[k], txs[k + 1])]
  <2>2. ASSUME NEW i \in 0 .. k + 1
        PROVE  h[i] = IF i = 0 THEN result ELSE ReplayTx(h[i - 1], txs[i])
    <3>1. CASE i = 0
      <4>1. h[0] = g[0] /\ g[0] = result
        BY <2>1
      <4> QED BY <3>1, <4>1
    <3>2. CASE i \in 1 .. k
      <4>1. i - 1 \in 0 .. k /\ i \in 0 .. k /\ i # 0
        BY <3>2
      <4>2. h[i] = g[i] /\ h[i - 1] = g[i - 1]
        BY <4>1
      <4>3. g[i] = ReplayTx(g[i - 1], txs[i])
        BY <2>1, <4>1
      <4> QED BY <4>1, <4>2, <4>3
    <3>3. CASE i = k + 1
      <4>1. h[i] = ReplayTx(g[k], txs[k + 1]) /\ h[i - 1] = g[k] /\ i # 0
        BY <3>3
      <4> QED BY <3>3, <4>1
    <3> QED BY <3>1, <3>2, <3>3
  <2>3. Runs(h, k + 1)
    BY <2>2, Zenon
  <2> HIDE DEF h, Runs
  <2> QED BY <2>3
<1>3. \A k \in Nat : \E g : Runs(g, k)
  <2> HIDE DEF Exist
  <2>1. Nat \subseteq Exist
    BY <1>1, <1>2, InductionOnNat
  <2> QED BY <2>1 DEF Exist
<1> DEFINE run(k) == CHOOSE g : Runs(g, k)
<1>4. ASSUME NEW k \in Nat PROVE Runs(run(k), k)
  <2> HIDE DEF Runs
  <2> QED BY <1>3
<1>5. ASSUME NEW k \in Nat PROVE Replayed(result, txs, k) = run(k)[k]
  BY DEF Replayed
<1> HIDE DEF run
<1>6. ASSUME NEW k \in Nat PROVE run(k)[0] = result
  BY <1>4
<1>7. ASSUME NEW k \in Nat, NEW i \in 1 .. k
      PROVE  run(k)[i] = ReplayTx(run(k)[i - 1], txs[i])
  <2>1. i \in 0 .. k /\ i # 0
    OBVIOUS
  <2> QED BY <1>4, <2>1
<1>8. ASSUME NEW n \in Nat PROVE run(n + 1)[n] = run(n)[n]
  <2> DEFINE Same == {k \in Nat : k <= n => run(n + 1)[k] = run(n)[k]}
  <2>1. 0 \in Same
    BY <1>6
  <2>2. ASSUME NEW k \in Nat, k \in Same PROVE k + 1 \in Same
    <3> SUFFICES ASSUME k + 1 <= n PROVE run(n + 1)[k + 1] = run(n)[k + 1]
      OBVIOUS
    <3>1. k + 1 \in 1 .. n /\ k + 1 \in 1 .. n + 1 /\ (k + 1) - 1 = k
      OBVIOUS
    <3>2. run(n + 1)[k] = run(n)[k]
      BY <2>2
    <3> QED BY <1>7, <3>1, <3>2
  <2>3. n \in Same
    <3> HIDE DEF Same
    <3> QED BY <2>1, <2>2, InductionOnNat
  <2> QED BY <2>3
<1>9. ASSUME NEW n \in Nat
      PROVE  Replayed(result, txs, n + 1) = ReplayTx(Replayed(result, txs, n), txs[n + 1])
  <2>1. n + 1 \in Nat /\ n + 1 \in 1 .. n + 1 /\ (n + 1) - 1 = n
    OBVIOUS
  <2>2. run(n + 1)[n + 1] = ReplayTx(run(n + 1)[n], txs[n + 1])
    BY <1>7, <2>1
  <2> QED BY <1>5, <1>8, <2>1, <2>2
<1>10. Replayed(result, txs, 0) = result
  BY <1>5, <1>6
<1> QED BY <1>9, <1>10

LEMMA ScanSame ==
    ASSUME NEW f, NEW g, NEW n \in Nat, \A i \in 1 .. n : f[i] = g[i]
    PROVE  ScanTo(f, n) = ScanTo(g, n)
<1> DEFINE Same == {k \in Nat : k <= n => ScanTo(f, k) = ScanTo(g, k)}
<1>1. 0 \in Same
  BY ScanSteps
<1>2. ASSUME NEW k \in Nat, k \in Same PROVE k + 1 \in Same
  <2> SUFFICES ASSUME k + 1 <= n PROVE ScanTo(f, k + 1) = ScanTo(g, k + 1)
    OBVIOUS
  <2>1. ScanTo(f, k) = ScanTo(g, k) /\ f[k + 1] = g[k + 1]
    BY <1>2
  <2>2. /\ ScanTo(f, k + 1) = ScanRecord(ScanTo(f, k), f[k + 1])
        /\ ScanTo(g, k + 1) = ScanRecord(ScanTo(g, k), g[k + 1])
    BY ScanSteps
  <2> QED BY <2>1, <2>2
<1>3. n \in Same
  <2> HIDE DEF Same
  <2> QED BY <1>1, <1>2, InductionOnNat
<1> QED BY <1>3

(* One step of recover: what the k-th transaction makes of the rows. *)
LEMMA ReplayStep ==
    ASSUME NEW result, NEW txs, NEW k \in Nat
    PROVE  Replayed(result, txs, k + 1) = ReplayTx(Replayed(result, txs, k), txs[k + 1])
BY ReplaySteps

LEMMA ReplaySame ==
    ASSUME NEW result, NEW txs, NEW others, NEW n \in Nat,
           \A i \in 1 .. n : txs[i] = others[i]
    PROVE  Replayed(result, txs, n) = Replayed(result, others, n)
<1> DEFINE Same == {k \in Nat : k <= n => Replayed(result, txs, k) = Replayed(result, others, k)}
<1>1. 0 \in Same
  BY ReplaySteps
<1>2. ASSUME NEW k \in Nat, k \in Same PROVE k + 1 \in Same
  <2> SUFFICES ASSUME k + 1 <= n
               PROVE  Replayed(result, txs, k + 1) = Replayed(result, others, k + 1)
    OBVIOUS
  <2>1. Replayed(result, txs, k) = Replayed(result, others, k) /\ txs[k + 1] = others[k + 1]
    BY <1>2
  <2>2. Replayed(result, txs, k + 1) = ReplayTx(Replayed(result, txs, k), txs[k + 1])
    BY ReplayStep
  <2>3. Replayed(result, others, k + 1)
           = ReplayTx(Replayed(result, others, k), others[k + 1])
    BY ReplayStep
  <2> QED BY <2>1, <2>2, <2>3
<1>3. n \in Same
  <2> HIDE DEF Same
  <2> QED BY <1>1, <1>2, InductionOnNat
<1> QED BY <1>3
-----------------------------------------------------------------------------
(* The scan. *)

(* d is the scan s after one more record. *)
ScanNext(s, d) ==
    /\ d \in Scans
    /\ s.error => d = s
    /\ ~s.error => d.offset = s.offset + 1
    /\ \/ d.txs = s.txs
       \/ ~s.error /\ \E t \in LoggedTx : t.lsn = s.offset /\ d.txs = Append(s.txs, t)

LEMMA ScanRecordNext ==
    ASSUME NEW s \in Scans, NEW r \in Record
    PROVE  ScanNext(s, ScanRecord(s, r))
<1>1. CASE s.error
  BY <1>1 DEF ScanRecord, ScanNext
<1> USE NoTxAssumption
<1>2. CASE ~s.error /\ r.kind = "Begin"
  <2>1. r \in [kind : {"Begin"}, tx : Nat]
    BY <1>2 DEF Record
  <2>2. ScanRecord(s, r) = [offset |-> s.offset + 1, open |-> [tx |-> r.tx, changes |-> <<>>],
                            txs |-> s.txs, error |-> s.error]
    BY <1>2 DEF ScanRecord, ScanBegin, Scans
  <2>3. [tx |-> r.tx, changes |-> <<>>] \in Tx
    BY <2>1 DEF Tx
  <2> QED BY <1>2, <2>2, <2>3 DEF ScanNext, Scans
<1> DEFINE failed == [offset |-> s.offset + 1, open |-> s.open, txs |-> s.txs, error |-> TRUE]
<1>3. failed \in Scans /\ (~s.error => ScanNext(s, failed))
  BY DEF Scans, ScanNext
<1>4. CASE ~s.error /\ r.kind = "Change"
  <2>1. r \in [kind : {"Change"}, change : Payload]
    BY <1>4 DEF Record
  <2>2. CASE s.open = None
    <3>1. ScanRecord(s, r) = failed
      BY <1>4, <2>2 DEF ScanRecord, ScanChange, Fail, Scans
    <3> QED BY <1>3, <1>4, <3>1
  <2>3. CASE s.open # None
    <3>1. s.open \in Tx
      BY <2>3 DEF Scans
    <3> DEFINE longer == [tx |-> s.open.tx, changes |-> Append(s.open.changes, r.change)]
    <3>2. longer \in Tx
      BY <2>1, <3>1, AppendProperties DEF Tx
    <3>3. ScanRecord(s, r) = [offset |-> s.offset + 1, open |-> longer,
                              txs |-> s.txs, error |-> s.error]
      BY <1>4, <2>3, <3>1 DEF ScanRecord, ScanChange, Scans, Tx
    <3> HIDE DEF longer
    <3> QED BY <1>4, <3>2, <3>3 DEF ScanNext, Scans
  <2> QED BY <2>2, <2>3
<1>5. CASE ~s.error /\ r.kind = "Commit"
  <2>1. r \in [kind : {"Commit"}, tx : Nat, count : Nat]
    BY <1>5 DEF Record
  <2> DEFINE bad == s.open = None \/ s.open.tx # r.tx \/ Len(s.open.changes) # r.count
  <2>2. CASE bad
    <3>1. ScanRecord(s, r) = failed
      BY <1>5, <2>2 DEF ScanRecord, ScanCommit, Fail, Scans
    <3> QED BY <1>3, <1>5, <3>1
  <2>3. CASE ~bad
    <3>1. s.open \in Tx
      BY <2>3 DEF Scans
    <3> DEFINE t == [tx |-> r.tx, changes |-> s.open.changes, lsn |-> s.offset]
    <3>2. t \in LoggedTx /\ t.lsn = s.offset
      BY <2>1, <3>1 DEF Tx, LoggedTx, Scans
    <3>3. ScanRecord(s, r) = [offset |-> s.offset + 1, open |-> None,
                              txs |-> Append(s.txs, t), error |-> s.error]
      BY <1>5, <2>3 DEF ScanRecord, ScanCommit, Scans
    <3>4. s.txs \in Seq(LoggedTx)
      BY DEF Scans
    <3> HIDE DEF t
    <3>5. Append(s.txs, t) \in Seq(LoggedTx)
      BY <3>2, <3>4, AppendProperties
    <3> QED BY <1>5, <3>2, <3>3, <3>5 DEF ScanNext, Scans
  <2> QED BY <2>2, <2>3
<1>6. r.kind \in {"Begin", "Change", "Commit"}
  BY DEF Record
<1> QED BY <1>1, <1>2, <1>4, <1>5, <1>6

LEMMA ScanStartTyped == ScanStart \in Scans /\ ~ScanStart.error /\ ScanStart.txs = <<>>
                            /\ ScanStart.offset = 0
BY EmptySeq DEF ScanStart, Scans

LEMMA ScanTyped ==
    ASSUME NEW f \in Seq(Record), NEW n \in 0 .. Len(f)
    PROVE  LET s == ScanTo(f, n)
           IN  /\ s \in Scans
               /\ ~s.error => s.offset = n
               /\ \A k \in 1 .. Len(s.txs) : s.txs[k].lsn < n
<1> DEFINE Good(k) == LET s == ScanTo(f, k)
                      IN  /\ s \in Scans
                          /\ ~s.error => s.offset = k
                          /\ \A i \in 1 .. Len(s.txs) : s.txs[i].lsn < k
           T == {k \in Nat : k <= Len(f) => Good(k)}
<1>0. Len(f) \in Nat
  BY LenProperties
<1>1. 0 \in T
  <2>1. ScanTo(f, 0) = ScanStart
    BY ScanSteps
  <2>2. Len(ScanStart.txs) = 0
    BY ScanStartTyped
  <2> QED BY <2>1, <2>2, ScanStartTyped
<1>2. ASSUME NEW k \in Nat, k \in T PROVE k + 1 \in T
  <2> SUFFICES ASSUME k + 1 <= Len(f) PROVE Good(k + 1)
    OBVIOUS
  <2> DEFINE s == ScanTo(f, k)
             d == ScanTo(f, k + 1)
  <2>1. Good(k)
    BY <1>0, <1>2
  <2>2. f[k + 1] \in Record
    BY <1>0, ElementOfSeq
  <2>3. d = ScanRecord(s, f[k + 1])
    BY ScanSteps
  <2> HIDE DEF s, d
  <2>4. ScanNext(s, d)
    BY <2>1, <2>2, <2>3, ScanRecordNext DEF s
  <2>5. s \in Scans /\ s.txs \in Seq(LoggedTx) /\ d.txs \in Seq(LoggedTx) /\ Len(s.txs) \in Nat
    BY <2>1, <2>4, LenProperties DEF s, ScanNext, Scans
  <2>6. \A i \in 1 .. Len(s.txs) : s.txs[i].lsn \in Nat /\ s.txs[i].lsn < k
    <3>1. \A i \in 1 .. Len(s.txs) : s.txs[i] \in LoggedTx
      BY <2>5, ElementOfSeq
    <3>2. \A i \in 1 .. Len(s.txs) : s.txs[i].lsn < k
      BY <2>1 DEF s
    <3> QED BY <3>1, <3>2 DEF LoggedTx
  <2>7. ASSUME NEW i \in 1 .. Len(d.txs) PROVE d.txs[i].lsn < k + 1
    <3>1. CASE d.txs = s.txs
      BY <2>6, <3>1
    <3>2. CASE ~s.error /\ \E t \in LoggedTx : t.lsn = s.offset /\ d.txs = Append(s.txs, t)
      <4>1. PICK t \in LoggedTx : t.lsn = s.offset /\ d.txs = Append(s.txs, t)
        BY <3>2
      <4>2. t.lsn = k
        BY <2>1, <3>2, <4>1 DEF s
      <4>3. /\ Len(d.txs) = Len(s.txs) + 1
            /\ d.txs[Len(s.txs) + 1] = t
            /\ i <= Len(s.txs) => d.txs[i] = s.txs[i]
        BY <2>5, <4>1, AppendProperties
      <4>4. CASE i <= Len(s.txs)
        <5>1. i \in 1 .. Len(s.txs) /\ d.txs[i] = s.txs[i]
          BY <2>5, <4>3, <4>4
        <5>2. d.txs[i].lsn \in Nat /\ d.txs[i].lsn < k
          BY <2>6, <5>1
        <5> QED BY <5>2
      <4>5. CASE i = Len(s.txs) + 1
        BY <4>2, <4>3, <4>5
      <4> QED BY <2>5, <4>3, <4>4, <4>5
    <3> QED BY <2>4, <3>1, <3>2 DEF ScanNext
  <2>8. ~d.error => d.offset = k + 1
    BY <2>1, <2>4 DEF ScanNext, s
  <2> QED BY <2>4, <2>7, <2>8 DEF ScanNext, d
<1>3. n \in T
  <2> HIDE DEF T
  <2> QED BY <1>0, <1>1, <1>2, InductionOnNat
<1> QED BY <1>0, <1>3

(* What was read up to m stays; what is read later was committed later. *)
Extends(a, b, m) ==
    /\ Len(a) <= Len(b)
    /\ \A k \in 1 .. Len(a) : b[k] = a[k]
    /\ \A k \in Len(a) + 1 .. Len(b) : m <= b[k].lsn

LEMMA ScanGrows ==
    ASSUME NEW f \in Seq(Record), NEW n \in 0 .. Len(f), NEW m \in 0 .. n
    PROVE  /\ ScanTo(f, m).error => ScanTo(f, n).error
           /\ Extends(ScanTo(f, m).txs, ScanTo(f, n).txs, m)
<1> DEFINE s == ScanTo(f, m)
           Good(k) == /\ s.error => ScanTo(f, k).error
                      /\ Extends(s.txs, ScanTo(f, k).txs, m)
           T == {k \in Nat : m <= k /\ k <= Len(f) => Good(k)}
<1>0. Len(f) \in Nat /\ m \in 0 .. Len(f)
  BY LenProperties
<1>1. s \in Scans /\ s.txs \in Seq(LoggedTx) /\ Len(s.txs) \in Nat
  BY <1>0, ScanTyped, LenProperties DEF Scans
<1>2. m = 0 => Good(0)
  BY <1>1 DEF Extends
<1>3. 0 \in T
  BY <1>2
<1>4. ASSUME NEW k \in Nat, k \in T PROVE k + 1 \in T
  <2> SUFFICES ASSUME m <= k + 1, k + 1 <= Len(f) PROVE Good(k + 1)
    OBVIOUS
  <2>1. CASE m = k + 1
    BY <1>1, <2>1 DEF Extends
  <2>2. CASE m <= k
    <3> DEFINE c == ScanTo(f, k)
               d == ScanTo(f, k + 1)
    <3>1. Good(k)
      BY <1>0, <1>4, <2>2
    <3>2. f[k + 1] \in Record /\ k \in 0 .. Len(f)
      BY <1>0, ElementOfSeq
    <3>3. d = ScanRecord(c, f[k + 1])
      BY ScanSteps
    <3>4. c \in Scans /\ (~c.error => c.offset = k)
      BY <3>2, ScanTyped
    <3> HIDE DEF c, d, s
    <3>5. ScanNext(c, d)
      BY <3>2, <3>3, <3>4, ScanRecordNext
    <3>6. c.txs \in Seq(LoggedTx) /\ Len(c.txs) \in Nat
      BY <3>4, LenProperties DEF Scans
    <3>7. c.error => d.error
      BY <3>5 DEF ScanNext
    <3>8. Extends(s.txs, d.txs, m)
      <4>1. CASE d.txs = c.txs
        BY <3>1, <4>1 DEF c
      <4>2. CASE ~c.error /\ \E t \in LoggedTx : t.lsn = c.offset /\ d.txs = Append(c.txs, t)
        <5>1. PICK t \in LoggedTx : t.lsn = c.offset /\ d.txs = Append(c.txs, t)
          BY <4>2
        <5>2. t.lsn = k
          BY <3>4, <4>2, <5>1
        <5>3. /\ Len(d.txs) = Len(c.txs) + 1
              /\ d.txs[Len(c.txs) + 1] = t
              /\ \A i \in 1 .. Len(c.txs) : d.txs[i] = c.txs[i]
          BY <3>6, <5>1, AppendProperties
        <5>4. Extends(s.txs, c.txs, m)
          BY <3>1 DEF c
        <5>5. Len(s.txs) <= Len(d.txs)
          BY <1>1, <3>6, <5>3, <5>4 DEF Extends
        <5>6. ASSUME NEW i \in 1 .. Len(s.txs) PROVE d.txs[i] = s.txs[i]
          BY <1>1, <3>6, <5>3, <5>4 DEF Extends
        <5>7. ASSUME NEW i \in Len(s.txs) + 1 .. Len(d.txs) PROVE m <= d.txs[i].lsn
          <6>1. CASE i <= Len(c.txs)
            <7>1. i \in 1 .. Len(c.txs) /\ i \in Len(s.txs) + 1 .. Len(c.txs)
              BY <1>1, <3>6, <5>3, <6>1
            <7>2. d.txs[i] = c.txs[i]
              BY <5>3, <7>1
            <7> QED BY <5>4, <7>1, <7>2 DEF Extends
          <6>2. CASE i = Len(c.txs) + 1
            <7>1. d.txs[i] = t
              BY <5>3, <6>2
            <7> QED BY <2>2, <5>2, <7>1
          <6> QED BY <1>1, <3>6, <5>3, <6>1, <6>2
        <5> QED BY <5>5, <5>6, <5>7 DEF Extends
      <4> QED BY <3>5, <4>1, <4>2 DEF ScanNext
    <3> QED BY <3>1, <3>7, <3>8 DEF c, d
  <2> QED BY <2>1, <2>2
<1>5. n \in T
  <2> HIDE DEF T
  <2> QED BY <1>0, <1>3, <1>4, InductionOnNat
<1> QED BY <1>0, <1>5

LEMMA Concat ==
    ASSUME NEW S, NEW a \in Seq(S), NEW b \in Seq(S)
    PROVE  /\ Len(a) \in Nat /\ Len(b) \in Nat
           /\ a \o b \in Seq(S) /\ Len(a \o b) = Len(a) + Len(b)
           /\ \A i \in 1 .. Len(a) : (a \o b)[i] = a[i]
           /\ \A i \in 1 .. Len(b) : (a \o b)[Len(a) + i] = b[i]
<1>1. Len(a) \in Nat /\ Len(b) \in Nat
  BY LenProperties
<1>2. /\ a \o b \in Seq(S) /\ Len(a \o b) = Len(a) + Len(b)
      /\ \A i \in 1 .. Len(a) + Len(b) :
            (a \o b)[i] = IF i <= Len(a) THEN a[i] ELSE b[i - Len(a)]
  BY ConcatProperties
<1>3. \A i \in 1 .. Len(b) : /\ Len(a) + i \in 1 .. Len(a) + Len(b)
                             /\ ~(Len(a) + i <= Len(a)) /\ (Len(a) + i) - Len(a) = i
  BY <1>1
<1>4. \A i \in 1 .. Len(b) : (a \o b)[Len(a) + i] = b[i]
  BY <1>2, <1>3
<1>5. \A i \in 1 .. Len(a) : i \in 1 .. Len(a) + Len(b) /\ i <= Len(a)
  BY <1>1
<1>6. \A i \in 1 .. Len(a) : (a \o b)[i] = a[i]
  BY <1>2, <1>5
<1> QED BY <1>1, <1>2, <1>4, <1>6

(* BEGIN_TX, the changes, COMMIT_TX. *)
LEMMA GroupShape ==
    ASSUME NEW t \in Tx
    PROVE  /\ Len(t.changes) \in Nat
           /\ Group(t) \in Seq(Record)
           /\ Len(Group(t)) = Len(t.changes) + 2
           /\ Group(t)[1] = Begin(t)
           /\ \A i \in 1 .. Len(t.changes) : Group(t)[i + 1] = Change(t.changes[i])
           /\ Group(t)[Len(t.changes) + 2] = Commit(t)
<1> DEFINE n == Len(t.changes)
           b == <<Begin(t)>>
           m == [i \in DOMAIN t.changes |-> Change(t.changes[i])]
           e == <<Commit(t)>>
<1>1. t.tx \in Nat /\ t.changes \in Seq(Payload)
  BY DEF Tx
<1>2. n \in Nat /\ DOMAIN t.changes = 1 .. n /\ \A i \in 1 .. n : t.changes[i] \in Payload
  BY <1>1, LenProperties, ElementOfSeq
<1>3. b \in Seq(Record) /\ Len(b) = 1 /\ b[1] = Begin(t)
  <2>1. Begin(t) \in Record
    BY <1>1 DEF Begin, Record
  <2> QED BY <2>1
<1>4. e \in Seq(Record) /\ Len(e) = 1 /\ e[1] = Commit(t)
  <2>1. Commit(t) \in Record
    BY <1>1, <1>2 DEF Commit, Record
  <2> QED BY <2>1
<1>5. m \in Seq(Record) /\ Len(m) = n /\ \A i \in 1 .. n : m[i] = Change(t.changes[i])
  <2>1. \A i \in 1 .. n : Change(t.changes[i]) \in Record
    BY <1>2 DEF Change, Record
  <2>2. m \in [1 .. n -> Record]
    BY <1>2, <2>1
  <2>3. m \in Seq(Record)
    BY <1>2, <2>2, SeqDef
  <2> QED BY <1>2, <2>2, <2>3, LenProperties
<1>6. Group(t) = (b \o m) \o e
  BY DEF Group
<1> HIDE DEF b, m, e, n
<1>7. /\ b \o m \in Seq(Record) /\ Len(b \o m) = n + 1
      /\ (b \o m)[1] = Begin(t)
      /\ \A i \in 1 .. n : (b \o m)[i + 1] = Change(t.changes[i])
  <2>1. /\ b \o m \in Seq(Record) /\ Len(b \o m) = 1 + n
        /\ (b \o m)[1] = b[1]
        /\ \A i \in 1 .. n : (b \o m)[1 + i] = m[i]
    <3>1. /\ b \o m \in Seq(Record) /\ Len(b \o m) = Len(b) + Len(m)
          /\ \A i \in 1 .. Len(b) : (b \o m)[i] = b[i]
          /\ \A i \in 1 .. Len(m) : (b \o m)[Len(b) + i] = m[i]
      <4>1. b \in Seq(Record) /\ m \in Seq(Record)
        BY <1>3, <1>5
      <4> QED BY <4>1, Concat
    <3> QED BY <1>3, <1>5, <3>1
  <2>2. \A i \in 1 .. n : i + 1 = 1 + i
    BY <1>2
  <2> QED BY <1>2, <1>3, <1>5, <2>1, <2>2
<1>8. /\ (b \o m) \o e \in Seq(Record) /\ Len((b \o m) \o e) = n + 2
      /\ \A i \in 1 .. n + 1 : ((b \o m) \o e)[i] = (b \o m)[i]
      /\ ((b \o m) \o e)[n + 2] = Commit(t)
  <2> DEFINE bm == b \o m
  <2> HIDE DEF bm
  <2>1. bm \in Seq(Record) /\ Len(bm) = n + 1
    BY <1>7 DEF bm
  <2>2. /\ bm \o e \in Seq(Record) /\ Len(bm \o e) = (n + 1) + 1
        /\ \A i \in 1 .. n + 1 : (bm \o e)[i] = bm[i]
        /\ (bm \o e)[(n + 1) + 1] = e[1]
    <3>1. bm \in Seq(Record) /\ e \in Seq(Record)
      BY <1>4, <2>1
    <3>2. /\ bm \o e \in Seq(Record) /\ Len(bm \o e) = Len(bm) + Len(e)
          /\ \A i \in 1 .. Len(bm) : (bm \o e)[i] = bm[i]
          /\ \A i \in 1 .. Len(e) : (bm \o e)[Len(bm) + i] = e[i]
      BY <3>1, Concat
    <3> QED BY <1>4, <2>1, <3>2
  <2>3. (n + 1) + 1 = n + 2
    BY <1>2
  <2> QED BY <1>4, <2>2, <2>3 DEF bm
<1>9. \A i \in 1 .. n : Group(t)[i + 1] = Change(t.changes[i])
  <2>1. \A i \in 1 .. n : i + 1 \in 1 .. n + 1
    BY <1>2
  <2> QED BY <1>6, <1>7, <1>8, <2>1
<1>10. Group(t)[1] = Begin(t)
  BY <1>2, <1>6, <1>7, <1>8
<1> QED BY <1>2, <1>6, <1>8, <1>9, <1>10 DEF n

(* The scan inside a group: nothing is kept before its COMMIT_TX. *)
LEMMA ScanInGroup ==
    ASSUME NEW f \in Seq(Record), ~ScanTo(f, Len(f)).error, NEW t \in Tx
    PROVE  LET all == f \o Group(t)
               s == ScanTo(f, Len(f))
           IN  /\ ScanTo(all, Len(f)) = s
               /\ \A i \in 1 .. Len(t.changes) + 1 :
                     ScanTo(all, Len(f) + i) =
                         [offset |-> Len(f) + i,
                          open |-> [tx |-> t.tx, changes |-> SubSeq(t.changes, 1, i - 1)],
                          txs |-> s.txs, error |-> FALSE]
               /\ ScanTo(all, Len(f) + Len(t.changes) + 2) =
                      [offset |-> Len(f) + Len(t.changes) + 2, open |-> None,
                       txs |-> Append(s.txs, [tx |-> t.tx, changes |-> t.changes,
                                              lsn |-> Len(f) + Len(t.changes) + 1]),
                       error |-> FALSE]
<1> DEFINE all == f \o Group(t)
           s == ScanTo(f, Len(f))
           n == Len(t.changes)
           l == Len(f)
           In(i) == [offset |-> l + i,
                     open |-> [tx |-> t.tx, changes |-> SubSeq(t.changes, 1, i - 1)],
                     txs |-> s.txs, error |-> FALSE]
<1>1. l \in Nat /\ n \in Nat /\ t.tx \in Nat /\ t.changes \in Seq(Payload)
  BY LenProperties DEF Tx
<1>2. /\ \A i \in 1 .. l : all[i] = f[i]
      /\ \A i \in 1 .. n + 2 : all[l + i] = Group(t)[i]
  BY <1>1, GroupShape, Concat
<1>3. ScanTo(all, l) = s
  BY <1>1, <1>2, ScanSame
<1>4. s \in Scans /\ s.offset = l /\ ~s.error
  BY <1>1, ScanTyped
<1> HIDE DEF s, all, l, n
<1>5. all[l + 1] = Begin(t) /\ all[l + n + 2] = Commit(t)
      /\ \A i \in 1 .. n : all[l + i + 1] = Change(t.changes[i])
  <2>1. 1 \in 1 .. n + 2 /\ n + 2 \in 1 .. n + 2
    BY <1>1
  <2>2. \A i \in 1 .. n : i + 1 \in 1 .. n + 2 /\ l + (i + 1) = l + i + 1
    BY <1>1
  <2>3. l + (n + 2) = l + n + 2
    BY <1>1
  <2> QED BY <1>2, <2>1, <2>2, <2>3, GroupShape DEF n
<1>6. \A j \in Nat : ScanTo(all, j + 1) = ScanRecord(ScanTo(all, j), all[j + 1])
  BY ScanSteps
<1> DEFINE T == {i \in Nat : i + 1 <= n + 1 => ScanTo(all, l + i + 1) = In(i + 1)}
<1>7. 0 \in T
  <2>1. ScanTo(all, l + 1) = ScanRecord(s, Begin(t))
    BY <1>1, <1>3, <1>5, <1>6
  <2>2. ScanRecord(s, Begin(t)) = [offset |-> l + 1, open |-> [tx |-> t.tx, changes |-> <<>>],
                                   txs |-> s.txs, error |-> FALSE]
    BY <1>4 DEF ScanRecord, ScanBegin, Begin, Scans
  <2>3. SubSeq(t.changes, 1, 0) = <<>>
    BY <1>1, SubSeqEmpty
  <2>4. l + 0 + 1 = l + 1 /\ 0 + 1 = 1 /\ 1 - 1 = 0
    BY <1>1
  <2>5. In(0 + 1) = [offset |-> l + 1, open |-> [tx |-> t.tx, changes |-> <<>>],
                     txs |-> s.txs, error |-> FALSE]
    BY <2>3, <2>4
  <2>6. ScanTo(all, l + 0 + 1) = In(0 + 1)
    <3> HIDE DEF In
    <3> QED BY <2>1, <2>2, <2>4, <2>5
  <2> HIDE DEF In
  <2> QED BY <2>6
<1>8. ASSUME NEW i \in Nat, i \in T PROVE i + 1 \in T
  <2> SUFFICES ASSUME i + 2 <= n + 1 PROVE ScanTo(all, l + (i + 1) + 1) = In((i + 1) + 1)
    BY <1>1
  <2>1. ScanTo(all, l + i + 1) = In(i + 1) /\ i + 1 \in 1 .. n
    BY <1>1, <1>8
  <2>2. ScanTo(all, l + (i + 1) + 1) = ScanRecord(In(i + 1), Change(t.changes[i + 1]))
    <3>1. l + i + 1 \in Nat /\ l + (i + 1) + 1 = (l + i + 1) + 1
      BY <1>1
    <3>2. all[(l + i + 1) + 1] = Change(t.changes[i + 1])
      BY <1>5, <2>1, <3>1
    <3> HIDE DEF In
    <3> QED BY <1>6, <2>1, <3>1, <3>2
  <2>3. Append(SubSeq(t.changes, 1, i), t.changes[i + 1]) = SubSeq(t.changes, 1, i + 1)
    BY <1>1, <2>1, SubSeqProperties DEF n
  <2>4. [tx |-> t.tx, changes |-> SubSeq(t.changes, 1, i)] # None
    <3>1. SubSeq(t.changes, 1, i) \in Seq(Payload)
      BY <1>1, <2>1, SubSeqProperties DEF n
    <3> QED BY <1>1, <3>1, NoTxAssumption DEF Tx
  <2>5. (i + 1) - 1 = i /\ ((i + 1) + 1) - 1 = i + 1 /\ l + (i + 1) + 1 = l + ((i + 1) + 1)
    BY <1>1
  <2>6. ScanRecord(In(i + 1), Change(t.changes[i + 1]))
            = [offset |-> l + (i + 1) + 1,
               open |-> [tx |-> t.tx,
                         changes |-> Append(SubSeq(t.changes, 1, i), t.changes[i + 1])],
               txs |-> s.txs, error |-> FALSE]
    BY <2>4, <2>5 DEF ScanRecord, ScanChange, Change
  <2> QED BY <2>2, <2>3, <2>5, <2>6
<1>9. \A i \in Nat : i + 1 <= n + 1 => ScanTo(all, l + i + 1) = In(i + 1)
  <2> HIDE DEF T
  <2>1. Nat \subseteq T
    BY <1>7, <1>8, InductionOnNat
  <2> QED BY <2>1 DEF T
<1>10. ASSUME NEW i \in 1 .. n + 1 PROVE ScanTo(all, l + i) = In(i)
  <2>1. i - 1 \in Nat /\ (i - 1) + 1 = i /\ l + (i - 1) + 1 = l + i
    BY <1>1
  <2> HIDE DEF In
  <2> QED BY <1>9, <2>1
<1>11. ScanTo(all, l + n + 2) = [offset |-> l + n + 2, open |-> None,
                                 txs |-> Append(s.txs, [tx |-> t.tx, changes |-> t.changes,
                                                        lsn |-> l + n + 1]),
                                 error |-> FALSE]
  <2>1. ScanTo(all, l + (n + 1) + 1) = ScanRecord(ScanTo(all, l + (n + 1)), all[l + (n + 1) + 1])
    <3>1. l + (n + 1) \in Nat
      BY <1>1
    <3> QED BY <1>6, <3>1
  <2>2. l + (n + 1) + 1 = l + n + 2 /\ (n + 1) - 1 = n /\ n + 1 \in 1 .. n + 1
    BY <1>1
  <2>3. SubSeq(t.changes, 1, n) = t.changes
    BY <1>1, SubSeqFull DEF n
  <2>4. [tx |-> t.tx, changes |-> t.changes] # None
    BY <1>1, NoTxAssumption DEF Tx
  <2>5. ScanTo(all, l + n + 2) = ScanRecord(In(n + 1), Commit(t))
    <3> HIDE DEF In
    <3> QED BY <1>5, <1>10, <2>1, <2>2
  <2>6. In(n + 1) = [offset |-> l + (n + 1), open |-> [tx |-> t.tx, changes |-> t.changes],
                     txs |-> s.txs, error |-> FALSE]
    BY <2>2, <2>3
  <2>7. ScanRecord(In(n + 1), Commit(t))
            = [offset |-> l + (n + 1) + 1, open |-> None,
               txs |-> Append(s.txs, [tx |-> t.tx, changes |-> t.changes, lsn |-> l + (n + 1)]),
               error |-> FALSE]
    <3>1. Commit(t) = [kind |-> "Commit", tx |-> t.tx, count |-> n]
      BY DEF Commit, n
    <3> DEFINE i == In(n + 1)
    <3>2. /\ ~i.error /\ i.open # None /\ i.open.tx = t.tx /\ Len(i.open.changes) = n
          /\ i.open.changes = t.changes
      BY <2>4, <2>6 DEF n
    <3>3. i = [offset |-> l + (n + 1), open |-> [tx |-> t.tx, changes |-> t.changes],
               txs |-> s.txs, error |-> FALSE]
      BY <2>6
    <3> HIDE DEF i
    <3>4. ScanCommit(i, Commit(t)) =
              [offset |-> l + (n + 1), open |-> None,
               txs |-> Append(s.txs, [tx |-> t.tx, changes |-> t.changes, lsn |-> l + (n + 1)]),
               error |-> FALSE]
      <4>1. ScanCommit(i, Commit(t)) =
                [i EXCEPT !.open = None,
                          !.txs = Append(@, [tx |-> t.tx, changes |-> t.changes,
                                             lsn |-> i.offset])]
        BY <3>1, <3>2 DEF ScanCommit
      <4> QED BY <3>3, <4>1
    <3>5. ScanRecord(i, Commit(t)) = [ScanCommit(i, Commit(t)) EXCEPT !.offset = @ + 1]
      BY <3>1, <3>2 DEF ScanRecord
    <3>6. ScanRecord(i, Commit(t)) =
              [offset |-> l + (n + 1) + 1, open |-> None,
               txs |-> Append(s.txs, [tx |-> t.tx, changes |-> t.changes, lsn |-> l + (n + 1)]),
               error |-> FALSE]
      <4> DEFINE x == Append(s.txs, [tx |-> t.tx, changes |-> t.changes, lsn |-> l + (n + 1)])
      <4> HIDE DEF x
      <4>1. ScanCommit(i, Commit(t)) = [offset |-> l + (n + 1), open |-> None, txs |-> x,
                                        error |-> FALSE]
        BY <3>4 DEF x
      <4>2. ScanRecord(i, Commit(t)) = [offset |-> l + (n + 1) + 1, open |-> None, txs |-> x,
                                        error |-> FALSE]
        <5> DEFINE c == ScanCommit(i, Commit(t))
        <5>1. c = [offset |-> l + (n + 1), open |-> None, txs |-> x, error |-> FALSE]
          BY <4>1
        <5>2. ScanRecord(i, Commit(t)) = [c EXCEPT !.offset = @ + 1]
          BY <3>5
        <5> HIDE DEF c
        <5> QED BY <5>1, <5>2
      <4> QED BY <4>2 DEF x
    <3> QED BY <3>6 DEF i
  <2>8. l + (n + 1) = l + n + 1
    BY <1>1
  <2> QED BY <2>2, <2>5, <2>7, <2>8
<1> HIDE DEF T, In
<1>12. \A i \in 1 .. n + 1 : ScanTo(all, l + i) =
                         [offset |-> l + i,
                          open |-> [tx |-> t.tx, changes |-> SubSeq(t.changes, 1, i - 1)],
                          txs |-> s.txs, error |-> FALSE]
  BY <1>10 DEF In
<1> QED BY <1>3, <1>11, <1>12 DEF s, all, l, n

LEMMA Prefix ==
    ASSUME NEW S, NEW s \in Seq(S), NEW n \in 0 .. Len(s)
    PROVE  /\ SubSeq(s, 1, n) \in Seq(S) /\ Len(SubSeq(s, 1, n)) = n
           /\ \A i \in 1 .. n : SubSeq(s, 1, n)[i] = s[i]
<1>1. Len(s) \in Nat
  BY LenProperties
<1>2. CASE n = 0
  <2>1. SubSeq(s, 1, n) = <<>>
    BY <1>2, SubSeqEmpty
  <2> QED BY <1>2, <2>1
<1>3. CASE n # 0
  <2>1. 1 \in 1 .. Len(s) /\ n \in 1 .. Len(s) /\ 1 <= n /\ n - 1 + 1 = n
    BY <1>1, <1>3
  <2>2. \A i \in 1 .. n : 1 + i - 1 = i
    OBVIOUS
  <2>3. /\ SubSeq(s, 1, n) \in Seq(S) /\ Len(SubSeq(s, 1, n)) = n - 1 + 1
        /\ \A i \in 1 .. n - 1 + 1 : SubSeq(s, 1, n)[i] = s[1 + i - 1]
    BY <2>1, SubSeqProperties
  <2> QED BY <2>1, <2>2, <2>3
<1> QED BY <1>2, <1>3

LEMMA ScanOfPrefix ==
    ASSUME NEW f \in Seq(Record), NEW n \in 0 .. Len(f)
    PROVE  ScanTo(SubSeq(f, 1, n), n) = ScanTo(f, n)
<1>1. n \in Nat
  BY LenProperties
<1> QED BY <1>1, Prefix, ScanSame

(* What commit makes of a transaction in the log f. *)
Logged(t, f) == [tx |-> t.tx, changes |-> t.changes, lsn |-> Len(f) + Len(t.changes) + 1]

LEMMA ScanOfGroup ==
    ASSUME NEW f \in Seq(Record), ~ScanTo(f, Len(f)).error, NEW t \in Tx,
           NEW p \in 0 .. Len(t.changes) + 2
    PROVE  LET h == f \o SubSeq(Group(t), 1, p)
               txs == ScanTo(f, Len(f)).txs
           IN  /\ h \in Seq(Record) /\ Len(h) = Len(f) + p
               /\ ~ScanTo(h, Len(h)).error
               /\ ScanTo(h, Len(h)).txs = IF p = Len(t.changes) + 2 THEN Append(txs, Logged(t, f))
                                          ELSE txs
<1> DEFINE g == Group(t)
           all == f \o g
           part == SubSeq(g, 1, p)
           h == f \o part
           s == ScanTo(f, Len(f))
<1>1. g \in Seq(Record) /\ Len(g) = Len(t.changes) + 2 /\ Len(t.changes) \in Nat /\ Len(f) \in Nat
  BY GroupShape, LenProperties
<1>2. part \in Seq(Record) /\ Len(part) = p /\ \A i \in 1 .. p : part[i] = g[i]
  BY <1>1, Prefix
<1>3. /\ ScanTo(all, Len(f)) = s
      /\ \A i \in 1 .. Len(t.changes) + 1 :
            ScanTo(all, Len(f) + i).txs = s.txs /\ ~ScanTo(all, Len(f) + i).error
      /\ ScanTo(all, Len(f) + Len(t.changes) + 2).txs = Append(s.txs, Logged(t, f))
      /\ ~ScanTo(all, Len(f) + Len(t.changes) + 2).error
  <2>1. /\ ScanTo(all, Len(f)) = s
        /\ \A i \in 1 .. Len(t.changes) + 1 :
              ScanTo(all, Len(f) + i) =
                  [offset |-> Len(f) + i,
                   open |-> [tx |-> t.tx, changes |-> SubSeq(t.changes, 1, i - 1)],
                   txs |-> s.txs, error |-> FALSE]
        /\ ScanTo(all, Len(f) + Len(t.changes) + 2) =
               [offset |-> Len(f) + Len(t.changes) + 2, open |-> None,
                txs |-> Append(s.txs, [tx |-> t.tx, changes |-> t.changes,
                                       lsn |-> Len(f) + Len(t.changes) + 1]),
                error |-> FALSE]
    BY ScanInGroup
  <2> HIDE DEF all, s
  <2>2. \A i \in 1 .. Len(t.changes) + 1 :
            ScanTo(all, Len(f) + i).txs = s.txs /\ ~ScanTo(all, Len(f) + i).error
    <3> TAKE i \in 1 .. Len(t.changes) + 1
    <3> DEFINE x == ScanTo(all, Len(f) + i)
               o == [tx |-> t.tx, changes |-> SubSeq(t.changes, 1, i - 1)]
    <3>1. x = [offset |-> Len(f) + i, open |-> o, txs |-> s.txs, error |-> FALSE]
      BY <2>1
    <3> HIDE DEF x, o
    <3>2. x.txs = s.txs /\ ~x.error
      BY <3>1
    <3> QED BY <3>2 DEF x
  <2> DEFINE x == ScanTo(all, Len(f) + Len(t.changes) + 2)
  <2>3. x = [offset |-> Len(f) + Len(t.changes) + 2, open |-> None,
             txs |-> Append(s.txs, Logged(t, f)), error |-> FALSE]
    BY <2>1 DEF Logged
  <2>4. x.txs = Append(s.txs, Logged(t, f)) /\ ~x.error
    BY <2>3
  <2> QED BY <2>1, <2>2, <2>4
<1> HIDE DEF g, part
<1>4. /\ h \in Seq(Record) /\ Len(h) = Len(f) + p
      /\ \A i \in 1 .. Len(f) : h[i] = f[i]
      /\ \A i \in 1 .. p : h[Len(f) + i] = part[i]
  <2>1. /\ h \in Seq(Record) /\ Len(h) = Len(f) + Len(part)
        /\ \A i \in 1 .. Len(f) : h[i] = f[i]
        /\ \A i \in 1 .. Len(part) : h[Len(f) + i] = part[i]
    <3> HIDE DEF h
    <3>1. h = f \o part /\ part \in Seq(Record)
      BY <1>2 DEF h
    <3>2. /\ f \o part \in Seq(Record) /\ Len(f \o part) = Len(f) + Len(part)
          /\ \A i \in 1 .. Len(f) : (f \o part)[i] = f[i]
          /\ \A i \in 1 .. Len(part) : (f \o part)[Len(f) + i] = part[i]
      BY <3>1, Concat
    <3> QED BY <3>1, <3>2, Zenon
  <2> QED BY <1>2, <2>1
<1>5. /\ \A i \in 1 .. Len(f) : all[i] = f[i]
      /\ \A i \in 1 .. Len(t.changes) + 2 : all[Len(f) + i] = g[i]
  BY <1>1, Concat
<1> HIDE DEF all, h, s
<1>6. ASSUME NEW i \in 1 .. Len(f) + p PROVE h[i] = all[i]
  <2>1. CASE i \in 1 .. Len(f)
    BY <1>4, <1>5, <2>1
  <2>2. CASE i > Len(f)
    <3>1. i - Len(f) \in 1 .. p /\ i - Len(f) \in 1 .. Len(t.changes) + 2
          /\ Len(f) + (i - Len(f)) = i
      BY <1>1, <2>2
    <3>2. h[Len(f) + (i - Len(f))] = part[i - Len(f)]
      BY <1>4, <3>1
    <3>3. all[Len(f) + (i - Len(f))] = g[i - Len(f)]
      BY <1>5, <3>1
    <3> QED BY <1>2, <3>1, <3>2, <3>3
  <2> QED BY <1>1, <2>1, <2>2
<1>7. ScanTo(h, Len(h)) = ScanTo(all, Len(f) + p)
  <2>1. Len(f) + p \in Nat
    BY <1>1
  <2>2. ScanTo(h, Len(f) + p) = ScanTo(all, Len(f) + p)
    BY <1>6, <2>1, ScanSame
  <2> QED BY <1>4, <2>2
<1>8. CASE p = 0
  <2>1. Len(f) + p = Len(f) /\ p # Len(t.changes) + 2
    BY <1>1, <1>8
  <2> QED BY <1>3, <1>4, <1>7, <2>1 DEF h, s, part, g
<1>9. CASE p \in 1 .. Len(t.changes) + 1
  <2>1. p # Len(t.changes) + 2
    BY <1>1, <1>9
  <2> QED BY <1>3, <1>4, <1>7, <1>9, <2>1 DEF h, s, part, g
<1>10. CASE p = Len(t.changes) + 2
  <2>1. Len(f) + p = Len(f) + Len(t.changes) + 2
    BY <1>1, <1>10
  <2> QED BY <1>3, <1>4, <1>7, <1>10, <2>1 DEF h, s, part, g
<1> QED BY <1>1, <1>8, <1>9, <1>10

(* A file that ends in the middle of a record. *)
LEMMA ValidPrefixOf ==
    ASSUME NEW f \in Seq(Record), NEW tail \in Tails
    PROVE  ValidPrefix(f \o tail) = f
<1> DEFINE g == f \o tail
           bad == {i \in DOMAIN g : g[i] = Torn}
<1>1. Len(f) \in Nat /\ DOMAIN f = 1 .. Len(f) /\ \A i \in 1 .. Len(f) : f[i] # Torn
  <2>1. \A r \in Record : r # Torn
    BY DEF Record, Torn
  <2> QED BY <2>1, LenProperties, ElementOfSeq
<1>2. CASE tail = <<>>
  <2>1. g = f
    BY <1>2, ConcatEmptySeq
  <2>2. bad = {}
    BY <1>1, <2>1
  <2> QED BY <2>1, <2>2 DEF ValidPrefix
<1>3. CASE tail = <<Torn>>
  <2> DEFINE n == Len(f) + 1
  <2>1. f \in Seq(Record \cup {Torn}) /\ tail \in Seq(Record \cup {Torn}) /\ Len(tail) = 1
        /\ tail[1] = Torn
    BY <1>3
  <2>2. /\ g \in Seq(Record \cup {Torn}) /\ Len(g) = n
        /\ \A i \in 1 .. Len(f) : g[i] = f[i]
        /\ \A i \in 1 .. 1 : g[Len(f) + i] = tail[i]
    <3>1. /\ g \in Seq(Record \cup {Torn}) /\ Len(g) = Len(f) + Len(tail)
          /\ \A i \in 1 .. Len(f) : g[i] = f[i]
          /\ \A i \in 1 .. Len(tail) : g[Len(f) + i] = tail[i]
      <4> HIDE DEF g
      <4>1. g = f \o tail /\ f \in Seq(Record \cup {Torn}) /\ tail \in Seq(Record \cup {Torn})
        BY <2>1 DEF g
      <4>2. /\ f \o tail \in Seq(Record \cup {Torn}) /\ Len(f \o tail) = Len(f) + Len(tail)
            /\ \A i \in 1 .. Len(f) : (f \o tail)[i] = f[i]
            /\ \A i \in 1 .. Len(tail) : (f \o tail)[Len(f) + i] = tail[i]
        BY <4>1, Concat
      <4> QED BY <4>1, <4>2, Zenon
    <3> QED BY <2>1, <3>1
  <2>3. DOMAIN g = 1 .. n /\ g[n] = Torn
    BY <2>1, <2>2, LenProperties
  <2> HIDE DEF g
  <2>4. bad = {n}
    BY <1>1, <2>2, <2>3
  <2>5. (CHOOSE i \in bad : \A j \in bad : i <= j) = n
    BY <1>1, <2>4
  <2>6. ValidPrefix(g) = SubSeq(g, 1, n - 1)
    BY <2>4, <2>5 DEF ValidPrefix
  <2>7. n - 1 = Len(f) /\ Len(f) \in 0 .. Len(g)
    BY <1>1, <2>2
  <2>8. /\ SubSeq(g, 1, Len(f)) \in Seq(Record \cup {Torn}) /\ Len(SubSeq(g, 1, Len(f))) = Len(f)
        /\ \A i \in 1 .. Len(f) : SubSeq(g, 1, Len(f))[i] = g[i]
    BY <2>2, <2>7, Prefix
  <2>9. SubSeq(g, 1, Len(f)) = f
    BY <2>1, <2>2, <2>8, SeqEqual
  <2> QED BY <2>6, <2>7, <2>9 DEF g
<1> QED BY <1>2, <1>3 DEF Tails

-----------------------------------------------------------------------------
(* What is owed and what is read. *)

Read(txs) == [i \in DOMAIN txs |-> [tx |-> txs[i].tx, changes |-> txs[i].changes]]

LEMMA ReadTyped ==
    ASSUME NEW txs \in Seq(LoggedTx)
    PROVE  /\ Read(txs) \in Seq(Tx) /\ Len(Read(txs)) = Len(txs) /\ Len(txs) \in Nat
           /\ \A i \in 1 .. Len(txs) :
                 Read(txs)[i] = [tx |-> txs[i].tx, changes |-> txs[i].changes]
<1>1. Len(txs) \in Nat /\ DOMAIN txs = 1 .. Len(txs)
      /\ \A i \in 1 .. Len(txs) : txs[i] \in LoggedTx
  BY LenProperties, ElementOfSeq
<1>2. Read(txs) \in [1 .. Len(txs) -> Tx]
  BY <1>1 DEF Read, LoggedTx, Tx
<1>3. Read(txs) \in Seq(Tx)
  BY <1>1, <1>2, SeqDef
<1>4. Len(Read(txs)) = Len(txs)
  BY <1>1, <1>2, <1>3, LenProperties
<1> QED BY <1>1, <1>3, <1>4 DEF Read

LEMMA LoggedTyped ==
    ASSUME NEW t \in Tx, NEW f \in Seq(Record)
    PROVE  Logged(t, f) \in LoggedTx /\ Logged(t, f).tx = t.tx
           /\ Logged(t, f).changes = t.changes
           /\ Logged(t, f).lsn = Len(f) + Len(t.changes) + 1
<1>1. t.tx \in Nat /\ t.changes \in Seq(Payload) /\ Len(t.changes) \in Nat /\ Len(f) \in Nat
  BY LenProperties DEF Tx
<1> QED BY <1>1 DEF Logged, LoggedTx

LEMMA ReadAppend ==
    ASSUME NEW txs \in Seq(LoggedTx), NEW t \in Tx, NEW f \in Seq(Record)
    PROVE  Read(Append(txs, Logged(t, f))) = Append(Read(txs), t)
<1> DEFINE n == Len(txs)
           x == Logged(t, f)
           more == Append(txs, x)
<1>1. x \in LoggedTx /\ [tx |-> x.tx, changes |-> x.changes] = t
  BY LoggedTyped DEF Tx
<1> HIDE DEF x
<1>2. n \in Nat /\ more \in Seq(LoggedTx) /\ Len(more) = n + 1 /\ more[n + 1] = x
      /\ \A i \in 1 .. n : more[i] = txs[i]
  BY <1>1, AppendProperties, LenProperties
<1>3. /\ Read(more) \in Seq(Tx) /\ Len(Read(more)) = n + 1
      /\ \A i \in 1 .. n + 1 : Read(more)[i] = [tx |-> more[i].tx, changes |-> more[i].changes]
  BY <1>2, ReadTyped
<1>4. /\ Read(txs) \in Seq(Tx) /\ Len(Read(txs)) = n
      /\ \A i \in 1 .. n : Read(txs)[i] = [tx |-> txs[i].tx, changes |-> txs[i].changes]
  BY ReadTyped
<1>5. /\ Append(Read(txs), t) \in Seq(Tx) /\ Len(Append(Read(txs), t)) = n + 1
      /\ \A i \in 1 .. n : Append(Read(txs), t)[i] = Read(txs)[i]
      /\ Append(Read(txs), t)[n + 1] = t
  BY <1>4, AppendProperties
<1> HIDE DEF more, n
<1>6. ASSUME NEW i \in 1 .. n + 1 PROVE Read(more)[i] = Append(Read(txs), t)[i]
  <2>1. CASE i \in 1 .. n
    BY <1>2, <1>3, <1>4, <1>5, <2>1
  <2>2. CASE i = n + 1
    BY <1>1, <1>2, <1>3, <1>5, <2>2
  <2>3. i \in 1 .. n \/ i = n + 1
    BY <1>2
  <2> QED BY <2>1, <2>2, <2>3
<1>7. Read(more) = Append(Read(txs), t)
  BY <1>3, <1>5, <1>6, SeqEqual
<1> QED BY <1>7 DEF more, x

(* One more transaction is read, which is not owed. *)
LEMMA ReadBackMore ==
    ASSUME NEW owed \in Seq(LoggedTx), NEW read \in Seq(LoggedTx), ReadBack(owed, read),
           NEW t \in LoggedTx, t \notin ToSet(read)
    PROVE  ReadBack(owed, Append(read, t))
<1> DEFINE n == Len(read)
           more == Append(read, t)
<1>1. /\ n \in Nat /\ DOMAIN read = 1 .. n /\ DOMAIN more = 1 .. n + 1
      /\ more \in Seq(LoggedTx) /\ Len(more) = n + 1
      /\ \A i \in 1 .. n : more[i] = read[i]
      /\ more[n + 1] = t
  BY AppendProperties, LenProperties
<1>2. \A i \in DOMAIN owed : owed[i] \in ToSet(read) /\ owed[i] # t
  BY DEF ReadBack, ToSet
<1> HIDE DEF more, n
<1>3. \A i \in DOMAIN owed : \A k \in 1 .. n + 1 : more[k] = owed[i] => k \in 1 .. n
  BY <1>1, <1>2
<1>4. ToSet(owed) \subseteq ToSet(more)
  <2>1. ToSet(read) \subseteq ToSet(more)
    BY <1>1 DEF ToSet
  <2> QED BY <2>1 DEF ReadBack
<1>5. ASSUME NEW i \in DOMAIN owed, NEW j \in DOMAIN owed,
             NEW k \in DOMAIN more, NEW l \in DOMAIN more,
             more[k] = owed[i], more[l] = owed[j]
      PROVE  i < j <=> k < l
  <2>1. k \in 1 .. n /\ l \in 1 .. n
    BY <1>1, <1>3, <1>5
  <2>2. read[k] = owed[i] /\ read[l] = owed[j] /\ k \in DOMAIN read /\ l \in DOMAIN read
    BY <1>1, <1>5, <2>1
  <2> QED BY <2>2 DEF ReadBack
<1> QED BY <1>4, <1>5 DEF ReadBack, more

(* One more transaction is read and owed. *)
LEMMA ReadBackBoth ==
    ASSUME NEW owed \in Seq(LoggedTx), NEW read \in Seq(LoggedTx), ReadBack(owed, read),
           NEW t \in LoggedTx, t \notin ToSet(read)
    PROVE  ReadBack(Append(owed, t), Append(read, t))
<1> DEFINE n == Len(read)
           more == Append(read, t)
           m == Len(owed)
           due == Append(owed, t)
<1>1. /\ n \in Nat /\ DOMAIN read = 1 .. n /\ DOMAIN more = 1 .. n + 1
      /\ \A i \in 1 .. n : more[i] = read[i]
      /\ more[n + 1] = t
  BY AppendProperties, LenProperties
<1>2. /\ m \in Nat /\ DOMAIN owed = 1 .. m /\ DOMAIN due = 1 .. m + 1
      /\ \A i \in 1 .. m : due[i] = owed[i]
      /\ due[m + 1] = t
  BY AppendProperties, LenProperties
<1>3. ReadBack(owed, more)
  BY ReadBackMore
<1>4. \A i \in 1 .. m : owed[i] # t
  BY <1>2 DEF ReadBack, ToSet
<1>5. \A k \in 1 .. n : read[k] # t
  BY <1>1 DEF ToSet
<1> HIDE DEF more, n, due, m
<1>6. ToSet(due) \subseteq ToSet(more)
  <2>1. ASSUME NEW i \in DOMAIN due PROVE due[i] \in ToSet(more)
    <3>1. CASE i \in 1 .. m
      BY <1>2, <1>3, <3>1 DEF ReadBack, ToSet
    <3>2. CASE i = m + 1
      BY <1>1, <1>2, <3>2 DEF ToSet
    <3> QED BY <1>2, <3>1, <3>2
  <2> QED BY <2>1 DEF ToSet
<1>7. ASSUME NEW i \in 1 .. m + 1, NEW k \in 1 .. n + 1, more[k] = due[i]
      PROVE  \/ i \in 1 .. m /\ k \in 1 .. n /\ more[k] = owed[i]
             \/ i = m + 1 /\ k = n + 1
  <2>1. CASE i \in 1 .. m
    <3>1. due[i] = owed[i] /\ owed[i] # t
      BY <1>2, <1>4, <2>1
    <3>2. k # n + 1
      BY <1>1, <1>7, <3>1
    <3> QED BY <1>1, <1>7, <2>1, <3>1, <3>2
  <2>2. CASE i = m + 1
    <3>1. more[k] = t
      BY <1>2, <1>7, <2>2
    <3>2. k \notin 1 .. n
      BY <1>1, <1>5, <3>1
    <3> QED BY <1>1, <2>2, <3>2
  <2> QED BY <1>2, <2>1, <2>2
<1>8. ASSUME NEW i \in DOMAIN due, NEW j \in DOMAIN due,
             NEW k \in DOMAIN more, NEW l \in DOMAIN more,
             more[k] = due[i], more[l] = due[j]
      PROVE  i < j <=> k < l
  <2>1. /\ \/ i \in 1 .. m /\ k \in 1 .. n /\ more[k] = owed[i]
           \/ i = m + 1 /\ k = n + 1
        /\ \/ j \in 1 .. m /\ l \in 1 .. n /\ more[l] = owed[j]
           \/ j = m + 1 /\ l = n + 1
    BY <1>1, <1>2, <1>7, <1>8
  <2>2. CASE i \in 1 .. m /\ k \in 1 .. n /\ more[k] = owed[i]
             /\ j \in 1 .. m /\ l \in 1 .. n /\ more[l] = owed[j]
    BY <1>2, <1>3, <2>2 DEF ReadBack
  <2> QED BY <1>1, <1>2, <2>1, <2>2
<1> QED BY <1>6, <1>8 DEF ReadBack, more, due

(* Of a read cut short at p: what is still read of the owed is its beginning. *)
LEMMA KeptIsPrefix ==
    ASSUME NEW owed \in Seq(LoggedTx), NEW read \in Seq(LoggedTx), ReadBack(owed, read),
           NEW less \in Seq(LoggedTx), Len(less) <= Len(read),
           \A k \in 1 .. Len(less) : less[k] = read[k]
    PROVE  LET K == {i \in DOMAIN owed : owed[i] \in ToSet(less)}
           IN  /\ Cardinality(K) \in 0 .. Len(owed)
               /\ ReadBack(SubSeq(owed, 1, Cardinality(K)), less)
<1> DEFINE K == {i \in DOMAIN owed : owed[i] \in ToSet(less)}
           n == Len(owed)
           Out == {x \in 1 .. n + 1 : x \notin K}
<1>1. /\ n \in Nat /\ DOMAIN owed = 1 .. n
      /\ Len(read) \in Nat /\ DOMAIN read = 1 .. Len(read)
      /\ Len(less) \in Nat /\ DOMAIN less = 1 .. Len(less)
  BY LenProperties
<1>2. ASSUME NEW i \in K, NEW j \in 1 .. n, j < i PROVE j \in K
  <2>1. PICK k \in 1 .. Len(less) : less[k] = owed[i]
    BY <1>1 DEF ToSet
  <2>2. PICK l \in 1 .. Len(read) : read[l] = owed[j]
    <3>1. owed[j] \in ToSet(owed)
      BY <1>1 DEF ToSet
    <3>2. ToSet(owed) \subseteq ToSet(read)
      BY DEF ReadBack
    <3>3. owed[j] \in ToSet(read)
      BY <3>1, <3>2
    <3> QED BY <1>1, <3>3 DEF ToSet
  <2>3. k \in 1 .. Len(read) /\ read[k] = owed[i]
    BY <1>1, <2>1
  <2>4. l < k
    <3>1. i \in DOMAIN owed /\ j \in DOMAIN owed /\ k \in DOMAIN read /\ l \in DOMAIN read
      BY <1>1, <2>3
    <3> QED BY <1>2, <2>2, <2>3, <3>1 DEF ReadBack
  <2>5. l \in 1 .. Len(less) /\ less[l] = owed[j]
    BY <1>1, <2>1, <2>2, <2>4
  <2> QED BY <1>1, <2>5 DEF ToSet
<1> HIDE DEF K
<1>3. K \subseteq 1 .. n
  BY <1>1 DEF K
<1>4. n + 1 \in Out /\ Out \subseteq Nat
  BY <1>1, <1>3
<1>5. PICK x \in Out : \A y \in Out : x <= y
  <2> HIDE DEF Out
  <2> QED BY <1>4, LeastNatural
<1>6. K = 1 .. x - 1
  <2>1. x \in 1 .. n + 1 /\ x \notin K
    OBVIOUS
  <2>2. ASSUME NEW i \in 1 .. x - 1 PROVE i \in K
    <3>1. i \in 1 .. n + 1 /\ ~(x <= i)
      BY <1>1, <2>1
    <3> QED BY <1>5, <3>1
  <2>3. ASSUME NEW i \in K PROVE i \in 1 .. x - 1
    <3>1. CASE x < i
      <4>1. x \in 1 .. n
        BY <1>1, <1>3, <2>1, <3>1
      <4> QED BY <1>2, <2>1, <3>1, <4>1
    <3>2. i # x
      BY <2>1
    <3> QED BY <1>1, <1>3, <2>1, <3>1, <3>2
  <2> QED BY <2>2, <2>3
<1>7. Cardinality(K) = x - 1 /\ x - 1 \in 0 .. n
  <2>1. x - 1 \in Int /\ x - 1 \in 0 .. n /\ 1 \in Int
    BY <1>1, <1>5
  <2>2. Cardinality(1 .. x - 1) = IF 1 > x - 1 THEN 0 ELSE (x - 1) - 1 + 1
    BY <2>1, FS_Interval
  <2> QED BY <1>6, <2>1, <2>2
<1> DEFINE m == x - 1
           due == SubSeq(owed, 1, m)
<1> HIDE DEF m
<1>8. due \in Seq(LoggedTx) /\ Len(due) = m /\ \A i \in 1 .. m : due[i] = owed[i]
  BY <1>7, Prefix DEF m
<1>9. DOMAIN due = 1 .. m
  BY <1>8, LenProperties
<1>10. m \in Nat /\ m <= n
  BY <1>1, <1>7 DEF m
<1> HIDE DEF due
<1>11. ToSet(due) \subseteq ToSet(less)
  <2>1. ASSUME NEW i \in 1 .. m PROVE due[i] \in ToSet(less)
    <3>1. i \in K
      BY <1>6 DEF m
    <3> QED BY <1>8, <3>1 DEF K
  <2> QED BY <1>9, <2>1 DEF ToSet
<1>12. ASSUME NEW i \in DOMAIN due, NEW j \in DOMAIN due,
              NEW k \in DOMAIN less, NEW l \in DOMAIN less,
              less[k] = due[i], less[l] = due[j]
       PROVE  i < j <=> k < l
  <2>1. i \in DOMAIN owed /\ j \in DOMAIN owed /\ due[i] = owed[i] /\ due[j] = owed[j]
    BY <1>1, <1>8, <1>9, <1>10
  <2>2. k \in DOMAIN read /\ l \in DOMAIN read /\ read[k] = owed[i] /\ read[l] = owed[j]
    BY <1>1, <1>12, <2>1
  <2> QED BY <2>1, <2>2 DEF ReadBack
<1>13. ReadBack(due, less)
  BY <1>11, <1>12 DEF ReadBack
<1> QED BY <1>7, <1>13 DEF K, due, m

(* A read cut short behind all that is owed. *)
LEMMA ReadBackCut ==
    ASSUME NEW owed \in Seq(LoggedTx), NEW read \in Seq(LoggedTx), ReadBack(owed, read),
           NEW less \in Seq(LoggedTx), Len(less) <= Len(read),
           \A k \in 1 .. Len(less) : less[k] = read[k],
           ToSet(owed) \subseteq ToSet(less)
    PROVE  ReadBack(owed, less)
<1>1. /\ Len(read) \in Nat /\ DOMAIN read = 1 .. Len(read)
      /\ Len(less) \in Nat /\ DOMAIN less = 1 .. Len(less)
  BY LenProperties
<1>2. ASSUME NEW i \in DOMAIN owed, NEW j \in DOMAIN owed,
             NEW k \in DOMAIN less, NEW l \in DOMAIN less,
             less[k] = owed[i], less[l] = owed[j]
      PROVE  i < j <=> k < l
  <2>1. k \in DOMAIN read /\ l \in DOMAIN read /\ read[k] = owed[i] /\ read[l] = owed[j]
    BY <1>1, <1>2
  <2> QED BY <2>1 DEF ReadBack
<1> QED BY <1>2 DEF ReadBack

-----------------------------------------------------------------------------
(* The steps of the log. *)

LEMMA LogFacts ==
    ASSUME WalInv
    PROVE  /\ Log \in Seq(Record) /\ Len(Log) \in Nat
           /\ Scan(file) = ScanTo(Log, Len(Log)) /\ ~ScanTo(Log, Len(Log)).error
           /\ Txs = ScanTo(Log, Len(Log)).txs
           /\ Txs \in Seq(LoggedTx) /\ Len(Txs) \in Nat
           /\ \A k \in 1 .. Len(Txs) : Txs[k] \in LoggedTx /\ Txs[k].lsn < Len(Log)
           /\ RecoveredTxs(file) = Read(Txs)
           /\ Ready => file = Log
<1>1. Log \in Seq(Record) /\ Len(Log) \in Nat
  BY LenProperties DEF WalInv
<1>2. Scan(file) = ScanTo(Log, Len(Log)) /\ ~ScanTo(Log, Len(Log)).error
  BY DEF WalInv, Scan, Log
<1>3. Txs = ScanTo(Log, Len(Log)).txs
  BY <1>2 DEF Txs
<1>4. ScanTo(Log, Len(Log)) \in Scans /\ \A k \in 1 .. Len(Txs) : Txs[k].lsn < Len(Log)
  <2>1. Len(Log) \in 0 .. Len(Log)
    BY <1>1
  <2> QED BY <1>1, <1>3, <2>1, ScanTyped
<1>5. Txs \in Seq(LoggedTx)
  BY <1>3, <1>4 DEF Scans
<1>6. Len(Txs) \in Nat /\ \A k \in 1 .. Len(Txs) : Txs[k] \in LoggedTx
  BY <1>5, LenProperties, ElementOfSeq
<1>7. RecoveredTxs(file) = Read(Txs)
  BY DEF RecoveredTxs, Read, Txs
<1>8. Ready => file = Log
  BY <1>1, ConcatEmptySeq DEF WalInv
<1> QED BY <1>1, <1>2, <1>3, <1>4, <1>5, <1>6, <1>7, <1>8

LEMMA NewLog ==
    ASSUME NEW f \in Seq(Record), NEW tail \in Tails, file' = f \o tail
    PROVE  /\ Log' = f /\ Scan(file)' = ScanTo(f, Len(f)) /\ Txs' = ScanTo(f, Len(f)).txs
           /\ RecoveredTxs(file)' = Read(Txs')
<1>1. ValidPrefix(file') = f
  BY ValidPrefixOf
<1> QED BY <1>1 DEF Log, Scan, Txs, RecoveredTxs, Read

LEMMA SameLog ==
    ASSUME file' = file
    PROVE  Log' = Log /\ Txs' = Txs /\ Scan(file)' = Scan(file)
           /\ RecoveredTxs(file)' = RecoveredTxs(file)
BY DEF Log, Txs, Scan, RecoveredTxs

(* write_all appends while the file position is at the end. *)
LEMMA WrittenAtEnd ==
    ASSUME WalInv, handle = "Recovered", NEW x \in Seq(Record \cup {Torn})
    PROVE  Written(cursor, x) = Log \o x
<1>1. cursor = Len(file) /\ file = Log /\ Len(Log) \in Nat /\ Log \in Seq(Record)
  BY LogFacts DEF WalInv, Ready
<1>2. Holes(cursor - Len(file)) = <<>>
  <2>1. cursor - Len(file) = 0
    BY <1>1
  <2>2. Holes(0) = <<>>
    BY DEF Holes
  <2> QED BY <2>1, <2>2
<1>3. Log \o <<>> = Log
  BY <1>1, ConcatEmptySeq
<1> QED BY <1>1, <1>2, <1>3 DEF Written

(* What a step does to the transactions in the log. *)
Added(t) == Txs' = Append(Txs, Logged(t, Log)) /\ Len(Log') = Len(Log) + Len(t.changes) + 2
Kept == Txs' = Txs /\ Len(Log) <= Len(Log')

(* And to those that would be left if it lost its end. *)
Longer(t) ==
    /\ Len(Log) <= Len(Log')
    /\ \A k \in 0 .. Len(Log) : ScanTo(Log', k).txs = ScanTo(Log, k).txs
    /\ \A k \in Len(Log) .. Len(Log') :
          ScanTo(Log', k).txs = Txs \/ (k = Len(Log') /\ Added(t))

(* Some of the records of a group at the end of the log, and perhaps a part *)
(* of the next one.                                                         *)
LEMMA PartWritten ==
    ASSUME WalInv, handle = "Recovered", NEW t \in Tx, NEW n \in 0 .. Len(t.changes) + 2,
           NEW tail \in Tails, file' = Written(cursor, SubSeq(Group(t), 1, n) \o tail)
    PROVE  /\ Log' \in Seq(Record) /\ Len(Log') = Len(Log) + n /\ ~Scan(file)'.error
           /\ file' = Log' \o tail
           /\ n = Len(t.changes) + 2 => Added(t)
           /\ n # Len(t.changes) + 2 => Kept
           /\ Longer(t)
<1> DEFINE g == SubSeq(Group(t), 1, n)
           f == Log \o g
           all == Record \cup {Torn}
<1>2. g \in Seq(Record) /\ Len(g) = n /\ n \in Nat /\ Len(t.changes) \in Nat
      /\ Group(t) \in Seq(Record) /\ Len(Group(t)) = Len(t.changes) + 2
      /\ \A i \in 1 .. n : g[i] = Group(t)[i]
  BY GroupShape, Prefix
<1>3. g \in Seq(all) /\ tail \in Seq(all)
  <2>1. g \in Seq(all)
    <3> HIDE DEF g
    <3> QED BY <1>2
  <2>2. <<>> \in Seq(all) /\ <<Torn>> \in Seq(all)
    OBVIOUS
  <2> QED BY <2>1, <2>2 DEF Tails
<1>4. g \o tail \in Seq(all)
  BY <1>3, ConcatProperties
<1>5. /\ Log \in Seq(Record) /\ Len(Log) \in Nat /\ ~ScanTo(Log, Len(Log)).error
      /\ Txs = ScanTo(Log, Len(Log)).txs
  BY LogFacts
<1>6. /\ f \in Seq(Record) /\ Len(f) = Len(Log) + n /\ ~ScanTo(f, Len(f)).error
      /\ ScanTo(f, Len(f)).txs = IF n = Len(t.changes) + 2
                                 THEN Append(ScanTo(Log, Len(Log)).txs, Logged(t, Log))
                                 ELSE ScanTo(Log, Len(Log)).txs
  BY <1>5, ScanOfGroup
<1>7. file' = f \o tail
  <2> HIDE DEF g
  <2>1. file' = Log \o (g \o tail)
    BY <1>4, WrittenAtEnd DEF g
  <2>2. Log \in Seq(all)
    BY <1>5
  <2> HIDE DEF all
  <2>3. (Log \o g) \o tail = Log \o (g \o tail)
    BY <1>3, <2>2, ConcatAssociative
  <2> QED BY <2>1, <2>3
<1>8. Log' = f /\ Scan(file)' = ScanTo(f, Len(f)) /\ Txs' = ScanTo(f, Len(f)).txs
  <2> HIDE DEF f
  <2> QED BY <1>6, <1>7, NewLog
<1>9. /\ \A i \in 1 .. Len(Log) : f[i] = Log[i]
      /\ \A i \in 1 .. n : f[Len(Log) + i] = g[i]
  BY <1>2, <1>5, Concat
<1>10. n = Len(t.changes) + 2 => Added(t)
  <2> HIDE DEF f
  <2> QED BY <1>2, <1>5, <1>6, <1>8 DEF Added
<1>11. n # Len(t.changes) + 2 => Kept
  <2> HIDE DEF f
  <2> QED BY <1>2, <1>5, <1>6, <1>8 DEF Kept
<1>12. ASSUME NEW k \in 0 .. Len(Log) PROVE ScanTo(f, k) = ScanTo(Log, k)
  <2> HIDE DEF f
  <2>1. k \in Nat /\ \A i \in 1 .. k : f[i] = Log[i]
    BY <1>5, <1>9
  <2> QED BY <2>1, ScanSame
<1>13. ASSUME NEW k \in Len(Log) .. Len(Log) + n
       PROVE  ScanTo(f, k).txs = Txs \/ (k = Len(f) /\ Added(t))
  <2> DEFINE p == k - Len(Log)
             part == SubSeq(Group(t), 1, p)
             h == Log \o part
  <2>1. p \in 0 .. n /\ k = Len(Log) + p /\ k \in Nat
    BY <1>2, <1>5
  <2> HIDE DEF p
  <2>2. p \in 0 .. Len(t.changes) + 2 /\ p \in 0 .. Len(Group(t)) /\ p \in Nat
    BY <1>2, <2>1
  <2>3. /\ h \in Seq(Record) /\ Len(h) = Len(Log) + p
        /\ ScanTo(h, Len(h)).txs = IF p = Len(t.changes) + 2
                                   THEN Append(ScanTo(Log, Len(Log)).txs, Logged(t, Log))
                                   ELSE ScanTo(Log, Len(Log)).txs
    BY <1>5, <2>2, ScanOfGroup
  <2>4. part \in Seq(Record) /\ Len(part) = p /\ \A i \in 1 .. p : part[i] = Group(t)[i]
    BY <1>2, <2>2, Prefix
  <2>5. /\ \A i \in 1 .. Len(Log) : h[i] = Log[i]
        /\ \A i \in 1 .. p : h[Len(Log) + i] = part[i]
    BY <1>5, <2>4, Concat
  <2> HIDE DEF h, part, f, g
  <2>6. ASSUME NEW i \in 1 .. k PROVE f[i] = h[i]
    <3>1. CASE i \in 1 .. Len(Log)
      BY <1>9, <2>5, <3>1
    <3>2. CASE i \notin 1 .. Len(Log)
      <4> DEFINE j == i - Len(Log)
      <4>1. j \in 1 .. p /\ j \in 1 .. n /\ i = Len(Log) + j
        BY <1>2, <1>5, <2>1, <2>2, <3>2
      <4> HIDE DEF j
      <4>2. f[i] = Group(t)[j] /\ h[i] = Group(t)[j]
        BY <1>2, <1>9, <2>4, <2>5, <4>1
      <4> QED BY <4>2
    <3> QED BY <3>1, <3>2
  <2>7. ScanTo(f, k) = ScanTo(h, k)
    BY <2>1, <2>6, ScanSame
  <2>8. CASE p # Len(t.changes) + 2
    BY <1>5, <2>1, <2>3, <2>7, <2>8
  <2>9. CASE p = Len(t.changes) + 2
    <3>1. n = Len(t.changes) + 2
      BY <1>2, <2>1, <2>9
    <3>2. Len(f) = Len(Log) + n
      BY <1>6
    <3>3. k = Len(f)
      BY <2>1, <2>9, <3>1, <3>2
    <3> QED BY <1>10, <3>1, <3>3
  <2> QED BY <2>8, <2>9
<1> HIDE DEF f, g
<1>14. Longer(t)
  <2>1. Len(Log) <= Len(Log') /\ Len(Log') = Len(Log) + n
    BY <1>2, <1>5, <1>6, <1>8
  <2>2. \A k \in 0 .. Len(Log) : ScanTo(Log', k).txs = ScanTo(Log, k).txs
    BY <1>8, <1>12
  <2>3. \A k \in Len(Log) .. Len(Log') :
            ScanTo(Log', k).txs = Txs \/ (k = Len(Log') /\ Added(t))
    BY <1>8, <1>13, <2>1
  <2> QED BY <2>1, <2>2, <2>3 DEF Longer
<1> QED BY <1>6, <1>7, <1>8, <1>10, <1>11, <1>14

LEMMA AppendOkWal ==
    ASSUME WalInv, NEW t \in Tx, AppendOk(t)
    PROVE  /\ WalInv' /\ Added(t) /\ Longer(t) /\ synced <= synced'
           /\ policy = "Sync" => synced' = Len(Log')
           /\ nextLsn' = Len(Log') /\ nextLsn' - 1 = Len(Log) + Len(t.changes) + 1
<1> DEFINE g == Group(t)
           p == Len(t.changes) + 2
<1>1. /\ handle = "Recovered" /\ file' = Written(cursor, g)
      /\ synced' = IF policy = "Sync" THEN Len(file') ELSE synced
      /\ nextLsn' = nextLsn + Len(g) /\ cursor' = cursor + Len(g)
      /\ header' = header /\ policy' = policy /\ handle' = handle
  BY DEF AppendOk, MayAppend
<1>2. g \in Seq(Record) /\ Len(g) = p /\ Len(t.changes) \in Nat /\ p \in 0 .. p
  BY GroupShape
<1>3. SubSeq(g, 1, p) \o <<>> = g
  BY <1>2, SubSeqFull, ConcatEmptySeq
<1>4. <<>> \in Tails
  BY DEF Tails
<1>5. file' = Written(cursor, SubSeq(Group(t), 1, p) \o <<>>)
  BY <1>1, <1>3
<1>6. /\ Log' \in Seq(Record) /\ Len(Log') = Len(Log) + p /\ ~Scan(file)'.error
      /\ file' = Log' \o <<>> /\ Added(t) /\ Longer(t)
  BY <1>1, <1>2, <1>4, <1>5, PartWritten
<1>7. file' = Log'
  BY <1>6, ConcatEmptySeq
<1>8. /\ policy \in Policies /\ synced \in 0 .. Len(Log) /\ header = "Valid" /\ Len(Log) \in Nat
      /\ nextLsn = Len(Log) /\ cursor = Len(Log)
  BY <1>1, LogFacts DEF WalInv, Ready
<1> HIDE DEF g
<1>9. synced' \in 0 .. Len(Log') /\ synced <= synced'
  BY <1>1, <1>2, <1>6, <1>7, <1>8
<1>10. nextLsn' = Len(Log') /\ cursor' = Len(Log')
  BY <1>1, <1>2, <1>6, <1>8
<1>11. WalInv'
  <2>1. \E tail \in Tails : file' = Log' \o tail /\ (Ready' => tail = <<>>)
    BY <1>4, <1>6
  <2> QED BY <1>1, <1>6, <1>7, <1>8, <1>9, <1>10, <2>1 DEF WalInv, Ready
<1>12. nextLsn' - 1 = Len(Log) + Len(t.changes) + 1
  BY <1>2, <1>6, <1>8, <1>10
<1> QED BY <1>1, <1>6, <1>7, <1>9, <1>10, <1>11, <1>12

LEMMA CrashInAppendWal ==
    ASSUME WalInv, NEW t \in Tx, NEW n \in 0 .. Len(t.changes) + 2, NEW tail \in Tails,
           CrashInAppend(t, n, tail)
    PROVE  WalInv' /\ (Added(t) \/ Kept) /\ Longer(t)
<1>1. /\ handle = "Recovered"
      /\ file' = Written(cursor, SubSeq(Group(t), 1, n) \o tail)
      /\ synced' = synced /\ handle' = "Closed"
      /\ header' = header /\ policy' = policy
  BY DEF CrashInAppend, MayAppend
<1>2. /\ Log' \in Seq(Record) /\ Len(Log') = Len(Log) + n /\ ~Scan(file)'.error
      /\ file' = Log' \o tail /\ (Added(t) \/ Kept) /\ Longer(t)
  BY <1>1, PartWritten
<1>3. policy \in Policies /\ synced \in 0 .. Len(Log) /\ header = "Valid" /\ Len(Log) \in Nat
  BY <1>1, LogFacts DEF WalInv
<1>4. synced' \in 0 .. Len(Log')
  <2>1. n \in Nat
    BY GroupShape
  <2> QED BY <1>1, <1>2, <1>3, <2>1
<1>5. WalInv'
  <2>1. \E x \in Tails : file' = Log' \o x /\ (Ready' => x = <<>>)
    BY <1>1, <1>2 DEF Ready
  <2> QED BY <1>1, <1>2, <1>3, <1>4, <2>1 DEF WalInv, Ready
<1> QED BY <1>2, <1>5

(* The append that fails: its records are cut off, or they stay. *)
LEMMA AppendFailsWal ==
    ASSUME WalInv, NEW t \in Tx, NEW n \in 0 .. Len(t.changes) + 2, NEW tail \in Tails,
           AppendFails(t, n, tail)
    PROVE  /\ WalInv' /\ (Added(t) \/ Kept) /\ Longer(t) /\ nextLsn' = Len(Log)
<1> DEFINE g == SubSeq(Group(t), 1, n)
           left == Written(cursor, g \o tail)
           all == Record \cup {Torn}
<1>1. /\ handle = "Recovered" /\ (file' = SetLen(left, nextLsn) \/ file' = left)
      /\ synced' = synced /\ handle' = "Failed"
      /\ header' = header /\ policy' = policy /\ nextLsn' = nextLsn
  BY DEF AppendFails, MayAppend
<1>2. /\ Log \in Seq(Record) /\ Len(Log) \in Nat /\ file = Log /\ nextLsn = Len(Log)
      /\ policy \in Policies /\ synced \in 0 .. Len(Log) /\ header = "Valid"
      /\ Txs = ScanTo(Log, Len(Log)).txs
  BY <1>1, LogFacts DEF WalInv, Ready
<1>3. CASE file' = left
  <2>1. /\ Log' \in Seq(Record) /\ Len(Log') = Len(Log) + n /\ ~Scan(file)'.error
        /\ file' = Log' \o tail /\ (Added(t) \/ Kept) /\ Longer(t)
    BY <1>1, <1>3, PartWritten
  <2>2. n \in Nat
    BY GroupShape
  <2>3. synced' \in 0 .. Len(Log') /\ nextLsn' \in 0 .. Len(Log')
    BY <1>1, <1>2, <2>1, <2>2
  <2>4. \E x \in Tails : file' = Log' \o x /\ (Ready' => x = <<>>)
    BY <1>1, <2>1 DEF Ready
  <2>5. WalInv'
    BY <1>1, <1>2, <2>1, <2>3, <2>4 DEF WalInv, Ready
  <2> QED BY <1>1, <1>2, <2>1, <2>5
<1>4. CASE file' = SetLen(left, nextLsn)
  <2>1. g \in Seq(all) /\ tail \in Seq(all)
    <3>1. g \in Seq(Record)
      BY GroupShape, Prefix
    <3>2. g \in Seq(all)
      <4> HIDE DEF g
      <4> QED BY <3>1
    <3>3. <<>> \in Seq(all) /\ <<Torn>> \in Seq(all)
      OBVIOUS
    <3> QED BY <3>2, <3>3 DEF Tails
  <2> DEFINE x == g \o tail
             f == Log \o x
  <2>2. x \in Seq(all)
    BY <2>1, ConcatProperties
  <2> HIDE DEF g, x
  <2>3. left = f
    BY <1>1, <2>2, WrittenAtEnd DEF x
  <2>4. Log \in Seq(all)
    BY <1>2
  <2>5. /\ f \in Seq(all) /\ Len(f) = Len(Log) + Len(x) /\ Len(x) \in Nat
        /\ \A i \in 1 .. Len(Log) : f[i] = Log[i]
    <3> HIDE DEF all
    <3> QED BY <2>2, <2>4, Concat
  <2> HIDE DEF f, left
  <2>6. Len(Log) \in 0 .. Len(f)
    BY <1>2, <2>5
  <2>7. SubSeq(f, 1, Len(Log)) = Log
    <3> HIDE DEF all
    <3>1. /\ SubSeq(f, 1, Len(Log)) \in Seq(all) /\ Len(SubSeq(f, 1, Len(Log))) = Len(Log)
          /\ \A i \in 1 .. Len(Log) : SubSeq(f, 1, Len(Log))[i] = f[i]
      BY <2>5, <2>6, Prefix
    <3> QED BY <2>4, <2>5, <3>1, SeqEqual
  <2>8. file' = Log
    BY <1>2, <1>4, <2>3, <2>6, <2>7 DEF SetLen
  <2>9. Log' = Log /\ Txs' = Txs /\ Scan(file)' = Scan(file)
    BY <1>2, <2>8, SameLog
  <2>10. WalInv'
    <3>1. file' = Log' \o <<>> /\ <<>> \in Tails
      BY <1>2, <2>8, <2>9, ConcatEmptySeq DEF Tails
    <3>2. nextLsn' \in 0 .. Len(Log')
      BY <1>1, <1>2, <2>9
    <3>3. \E y \in Tails : file' = Log' \o y /\ (Ready' => y = <<>>)
      BY <3>1
    <3> QED BY <1>1, <1>2, <2>8, <2>9, <3>2, <3>3 DEF WalInv, Ready
  <2>11. Kept /\ Longer(t)
    <3>1. \A k \in Len(Log) .. Len(Log) : k = Len(Log)
      BY <1>2
    <3> QED BY <1>2, <2>9, <3>1 DEF Kept, Longer
  <2> QED BY <1>1, <1>2, <2>10, <2>11
<1> QED BY <1>1, <1>3, <1>4

(* The log after a power loss: its first m records. *)
Cut(m) ==
    /\ m \in 0 .. Len(Log) /\ synced <= m
    /\ Log' = SubSeq(Log, 1, m) /\ Len(Log') = m
    /\ Txs' = ScanTo(Log, m).txs /\ Extends(Txs', Txs, m) /\ Txs' \in Seq(LoggedTx)
    /\ \A k \in 0 .. m : ScanTo(Log', k) = ScanTo(Log, k)

LEMMA PowerLossWal ==
    ASSUME WalInv, NEW n \in 0 .. Len(file), NEW tail \in Tails, PowerLoss(n, tail)
    PROVE  /\ WalInv' /\ synced' = synced
           /\ \E m \in 0 .. Len(Log) : Cut(m)
<1> DEFINE x == IF n < Len(file) THEN tail ELSE <<>>
           all == Record \cup {Torn}
<1>1. /\ n >= synced /\ file' = SubSeq(file, 1, n) \o x
      /\ handle' = "Closed" /\ policy' = policy /\ header' = header /\ synced' = synced
  BY DEF PowerLoss, Die
<1>2. /\ Log \in Seq(Record) /\ Len(Log) \in Nat /\ ~ScanTo(Log, Len(Log)).error
      /\ Txs = ScanTo(Log, Len(Log)).txs
  BY LogFacts
<1>3. PICK end \in Tails : file = Log \o end
  BY DEF WalInv
<1>4. /\ end \in Seq(all) /\ Log \in Seq(all) /\ (Len(end) = 0 \/ Len(end) = 1)
  <2>1. <<>> \in Seq(all) /\ <<Torn>> \in Seq(all)
    OBVIOUS
  <2>2. Len(<<>>) = 0 /\ Len(<<Torn>>) = 1
    OBVIOUS
  <2>3. Log \in Seq(all)
    BY <1>2
  <2>4. end = <<>> \/ end = <<Torn>>
    BY DEF Tails
  <2> HIDE DEF all
  <2>5. CASE end = <<>>
    BY <2>1, <2>2, <2>3, <2>5
  <2>6. CASE end = <<Torn>>
    BY <2>1, <2>2, <2>3, <2>6
  <2> QED BY <2>4, <2>5, <2>6
<1> HIDE DEF all
<1>5. /\ file \in Seq(all) /\ Len(file) = Len(Log) + Len(end)
      /\ \A i \in 1 .. Len(Log) : file[i] = Log[i]
  BY <1>3, <1>4, Concat
<1>6. PICK m \in 0 .. Len(Log), y \in Tails : synced <= m /\ file' = SubSeq(Log, 1, m) \o y
  <2>1. CASE n <= Len(Log)
    <3>1. n \in 0 .. Len(Log)
      BY <1>2, <2>1
    <3>2. SubSeq(file, 1, n) = SubSeq(Log, 1, n)
      <4>1. /\ SubSeq(file, 1, n) \in Seq(all) /\ Len(SubSeq(file, 1, n)) = n
            /\ \A i \in 1 .. n : SubSeq(file, 1, n)[i] = file[i]
        BY <1>5, Prefix
      <4>2. /\ SubSeq(Log, 1, n) \in Seq(all) /\ Len(SubSeq(Log, 1, n)) = n
            /\ \A i \in 1 .. n : SubSeq(Log, 1, n)[i] = Log[i]
        BY <1>4, <3>1, Prefix
      <4>3. \A i \in 1 .. n : i \in 1 .. Len(Log)
        BY <1>2, <3>1
      <4> QED BY <1>5, <4>1, <4>2, <4>3, SeqEqual
    <3>3. x \in Tails /\ synced <= n
      BY <1>1 DEF Tails, WalInv
    <3> QED BY <1>1, <3>1, <3>2, <3>3
  <2>2. CASE ~(n <= Len(Log))
    <3>1. n = Len(file)
      <4>1. Len(Log) \in Nat /\ Len(file) = Len(Log) + Len(end) /\ (Len(end) = 0 \/ Len(end) = 1)
        BY <1>2, <1>4, <1>5
      <4> DEFINE l == Len(Log)
                 q == Len(file)
                 e == Len(end)
      <4>2. l \in Nat /\ q = l + e /\ (e = 0 \/ e = 1) /\ ~(n <= l) /\ n \in 0 .. q
        BY <2>2, <4>1
      <4> HIDE DEF l, q, e
      <4>3. n = q
        BY <4>2
      <4> QED BY <4>3 DEF q
    <3>2. file' = file
      <4>1. SubSeq(file, 1, Len(file)) = file /\ x = <<>>
        BY <1>5, <3>1, SubSeqFull
      <4> QED BY <1>1, <1>5, <3>1, <4>1, ConcatEmptySeq
    <3>3. SubSeq(Log, 1, Len(Log)) = Log
      BY <1>2, SubSeqFull
    <3>4. Len(Log) \in 0 .. Len(Log) /\ synced <= Len(Log)
      BY <1>2 DEF WalInv
    <3> QED BY <1>3, <3>2, <3>3, <3>4
  <2> QED BY <2>1, <2>2
<1> DEFINE f == SubSeq(Log, 1, m)
<1>7. f \in Seq(Record) /\ Len(f) = m /\ m \in Nat /\ \A i \in 1 .. m : f[i] = Log[i]
  BY <1>2, Prefix
<1>8. \A k \in 0 .. m : ScanTo(f, k) = ScanTo(Log, k)
  <2> HIDE DEF f
  <2> SUFFICES ASSUME NEW k \in 0 .. m PROVE ScanTo(f, k) = ScanTo(Log, k)
    OBVIOUS
  <2>1. k \in Nat /\ \A i \in 1 .. k : f[i] = Log[i]
    BY <1>7
  <2> QED BY <2>1, ScanSame
<1>9. file' = f \o y
  BY <1>6
<1> HIDE DEF f, x
<1>10. ScanTo(f, m) = ScanTo(Log, m)
  BY <1>7, <1>8
<1>11. Log' = f /\ Scan(file)' = ScanTo(Log, m) /\ Txs' = ScanTo(Log, m).txs
  BY <1>7, <1>9, <1>10, NewLog
<1>12. /\ ScanTo(Log, m).error => ScanTo(Log, Len(Log)).error
       /\ Extends(ScanTo(Log, m).txs, ScanTo(Log, Len(Log)).txs, m)
  <2>1. Len(Log) \in 0 .. Len(Log) /\ m \in 0 .. Len(Log)
    BY <1>2
  <2> QED BY <1>2, <2>1, ScanGrows
<1>13. Txs' \in Seq(LoggedTx)
  <2>1. ScanTo(Log, m) \in Scans
    BY <1>2, ScanTyped
  <2> QED BY <1>11, <2>1 DEF Scans
<1>14. Cut(m)
  <2>1. Log' = SubSeq(Log, 1, m)
    BY <1>11 DEF f
  <2> QED BY <1>2, <1>6, <1>7, <1>8, <1>11, <1>12, <1>13, <2>1 DEF Cut
<1>15. WalInv'
  <2>1. policy' \in Policies /\ (header' = "Missing" => file = <<>>) /\ synced \in 0 .. Len(Log)
    BY <1>1 DEF WalInv
  <2>2. synced' \in 0 .. Len(Log')
    BY <1>1, <1>2, <1>6, <1>7, <1>11, <2>1
  <2>3. \E z \in Tails : file' = Log' \o z /\ (Ready' => z = <<>>)
    BY <1>1, <1>9, <1>11 DEF Ready
  <2>4. header' = "Missing" => file' = <<>>
    <3> SUFFICES ASSUME file = <<>> PROVE file' = <<>>
      BY <2>1
    <3>1. n = 0 /\ x = <<>> /\ SubSeq(file, 1, 0) = <<>>
      BY SubSeqEmpty DEF x
    <3> QED BY <1>1, <3>1
  <2> QED BY <1>1, <1>2, <1>7, <1>11, <1>12, <2>1, <2>2, <2>3, <2>4 DEF WalInv, Ready
<1> QED BY <1>1, <1>14, <1>15

(* The steps that leave the transactions in the log as they are. *)
LEMMA CreateWal ==
    ASSUME WalInv, Create
    PROVE  WalInv' /\ Log' = Log /\ Txs' = Txs /\ file' = file /\ synced' = synced /\ file = <<>>
<1>1. /\ header = "Missing" /\ header' = "Valid" /\ handle' = "Recovered"
      /\ nextLsn' = 0 /\ cursor' = 0 /\ file' = file /\ synced' = synced /\ policy' = policy
  BY DEF Create
<1>2. file = <<>> /\ Len(file) = 0
  BY <1>1 DEF WalInv
<1>3. Log' = Log /\ Txs' = Txs /\ Scan(file)' = Scan(file)
  BY <1>1, SameLog
<1>4. Log = <<>>
  <2>1. <<>> \in Seq(Record) /\ <<>> \in Tails /\ file = <<>> \o <<>>
    BY <1>2 DEF Tails
  <2> QED BY <2>1, ValidPrefixOf DEF Log
<1>5. \E tail \in Tails : file' = Log' \o tail /\ (Ready' => tail = <<>>)
  <2>1. file' = Log' \o <<>> /\ <<>> \in Tails
    BY <1>1, <1>2, <1>3, <1>4 DEF Tails
  <2> QED BY <2>1
<1> QED BY <1>1, <1>2, <1>3, <1>5 DEF WalInv, Ready

LEMMA OpenWal ==
    ASSUME WalInv, Open
    PROVE  WalInv' /\ Log' = Log /\ Txs' = Txs /\ synced <= synced'
<1>1. /\ header' = "Valid" /\ file' = Log /\ handle' = "Opened" /\ nextLsn' = Len(file')
      /\ synced' = Len(file') \/ synced' = synced
      /\ policy' = policy
  BY DEF Open, Log
<1>2. Log \in Seq(Record) /\ Len(Log) \in Nat /\ Scan(file) = ScanTo(Log, Len(Log))
      /\ Txs = ScanTo(Log, Len(Log)).txs
  BY LogFacts
<1>3. file' = Log \o <<>> /\ <<>> \in Tails
  BY <1>1, <1>2, ConcatEmptySeq DEF Tails
<1>4. Log' = Log /\ Scan(file)' = ScanTo(Log, Len(Log)) /\ Txs' = ScanTo(Log, Len(Log)).txs
  BY <1>2, <1>3, NewLog
<1>5. synced' \in 0 .. Len(Log') /\ synced <= synced'
  <2>1. synced \in 0 .. Len(Log)
    BY DEF WalInv
  <2> QED BY <1>1, <1>2, <1>4, <2>1
<1>6. \E tail \in Tails : file' = Log' \o tail /\ (Ready' => tail = <<>>)
  BY <1>3, <1>4
<1> QED BY <1>1, <1>2, <1>4, <1>5, <1>6 DEF WalInv, Ready

LEMMA RecoverChangesWal ==
    ASSUME WalInv, RecoverChanges
    PROVE  WalInv' /\ Log' = Log /\ Txs' = Txs /\ file' = file /\ synced' = synced
<1>1. /\ handle = "Opened" /\ handle' = "Recovered" /\ cursor' = Len(file)
      /\ header' = header /\ file' = file /\ synced' = synced
      /\ policy' = policy /\ nextLsn' = nextLsn
  BY DEF RecoverChanges, disk
<1>2. Log' = Log /\ Txs' = Txs /\ Scan(file)' = Scan(file)
  BY <1>1, SameLog
<1> QED BY <1>1, <1>2 DEF WalInv, Ready

(* A crash, and the end of a handle: the file stays as it is. *)
LEMMA CloseWal ==
    ASSUME WalInv, file' = file, synced' = synced, policy' = policy, handle' = "Closed",
           header' = header \/ (header = "Missing" /\ header' \in {"Empty", "Short"})
    PROVE  WalInv' /\ Log' = Log /\ Txs' = Txs
<1>1. Log' = Log /\ Txs' = Txs /\ Scan(file)' = Scan(file)
  BY SameLog
<1> QED BY <1>1 DEF WalInv, Ready

-----------------------------------------------------------------------------
(* What was acknowledged stays readable. *)

LEMMA ReadIsRecovered ==
    RecoveredTxs(file) = Read(Txs) /\ RecoveredTxs(file)' = Read(Txs')
BY DEF RecoveredTxs, Read, Txs

LEMMA AckedIs ==
    /\ AckedAreRecovered <=> ReadBack(acked, Txs)
    /\ AckedAreRecovered' <=> ReadBack(acked', Txs')
BY DEF AckedAreRecovered, Txs, ReadBack

LEMMA TxsFacts ==
    ASSUME WalInv
    PROVE  /\ synced \in Nat /\ DOMAIN Txs = 1 .. Len(Txs)
           /\ \A k \in 1 .. Len(Txs) : Txs[k].lsn \in Nat /\ Txs[k].tx \in Nat
<1>1. Txs \in Seq(LoggedTx) /\ Len(Log) \in Nat /\ \A k \in 1 .. Len(Txs) : Txs[k] \in LoggedTx
  BY LogFacts
<1>2. \A k \in 1 .. Len(Txs) : Txs[k].lsn \in Nat /\ Txs[k].tx \in Nat
  BY <1>1 DEF LoggedTx
<1>3. DOMAIN Txs = 1 .. Len(Txs)
  BY <1>1, LenProperties
<1>4. synced \in Nat
  BY <1>1 DEF WalInv
<1> QED BY <1>2, <1>3, <1>4

LEMMA AckTyped ==
    ASSUME AckInv
    PROVE  \A i \in DOMAIN acked : acked[i] \in LoggedTx /\ acked[i].lsn \in Nat
<1>1. acked \in Seq(LoggedTx)
  BY DEF AckInv
<1>2. \A i \in DOMAIN acked : acked[i] \in LoggedTx
  BY <1>1, LenProperties, ElementOfSeq
<1> QED BY <1>2 DEF LoggedTx

(* A transaction that is committed now is none of those in the log. *)
LEMMA NewInLog ==
    ASSUME WalInv, NEW t \in Tx
    PROVE  Logged(t, Log) \in LoggedTx /\ Logged(t, Log) \notin ToSet(Txs)
           /\ Logged(t, Log).lsn = Len(Log) + Len(t.changes) + 1
<1> DEFINE x == Logged(t, Log)
<1>1. /\ Log \in Seq(Record) /\ Len(Log) \in Nat /\ Len(t.changes) \in Nat
      /\ \A k \in 1 .. Len(Txs) : Txs[k].lsn < Len(Log)
  BY LogFacts, GroupShape
<1>2. x \in LoggedTx /\ x.lsn = Len(Log) + Len(t.changes) + 1
  BY <1>1, LoggedTyped
<1>3. DOMAIN Txs = 1 .. Len(Txs) /\ \A k \in 1 .. Len(Txs) : Txs[k].lsn \in Nat
  BY TxsFacts
<1> HIDE DEF x
<1>4. \A k \in DOMAIN Txs : Txs[k] # x
  BY <1>1, <1>2, <1>3
<1>5. x \notin ToSet(Txs)
  BY <1>4 DEF ToSet
<1> QED BY <1>2, <1>5 DEF x

LEMMA AckKept ==
    ASSUME WalInv, AckInv, Txs' = Txs, acked' = acked, policy' = policy,
           synced' \in Nat, synced <= synced'
    PROVE  AckInv'
<1>1. acked' \in Seq(LoggedTx) /\ AckedAreRecovered'
  BY AckedIs DEF AckInv
<1>2. ASSUME policy' = "Sync", NEW i \in DOMAIN acked' PROVE acked'[i].lsn < synced'
  <2>1. acked[i].lsn < synced /\ acked[i].lsn \in Nat /\ synced \in Nat
    BY <1>2, AckTyped, TxsFacts DEF AckInv
  <2> QED BY <2>1
<1> QED BY <1>1, <1>2 DEF AckInv

LEMMA AckAppendOk ==
    ASSUME WalInv, AckInv, NEW t \in Tx, AppendOk(t)
    PROVE  AckInv'
<1> DEFINE m == Len(acked)
           x == Logged(t, Log)
<1>1. /\ WalInv' /\ Txs' = Append(Txs, x) /\ Len(Log') = Len(Log) + Len(t.changes) + 2
      /\ synced <= synced' /\ (policy = "Sync" => synced' = Len(Log'))
      /\ nextLsn' - 1 = Len(Log) + Len(t.changes) + 1
  BY AppendOkWal DEF Added
<1>2. acked' = Append(acked, x) /\ policy' = policy
  BY <1>1 DEF AppendOk, Logged
<1>3. x \in LoggedTx /\ x \notin ToSet(Txs) /\ x.lsn = Len(Log) + Len(t.changes) + 1
      /\ Len(Log) \in Nat /\ Len(t.changes) \in Nat
  BY NewInLog, LogFacts, GroupShape
<1>4. acked \in Seq(LoggedTx) /\ Txs \in Seq(LoggedTx) /\ ReadBack(acked, Txs)
  BY AckedIs, LogFacts DEF AckInv
<1> HIDE DEF x
<1>5. /\ m \in Nat /\ DOMAIN acked = 1 .. m /\ acked' \in Seq(LoggedTx) /\ DOMAIN acked' = 1 .. m + 1
      /\ \A i \in 1 .. m : acked'[i] = acked[i]
      /\ acked'[m + 1] = x
  BY <1>2, <1>3, <1>4, AppendProperties, LenProperties
<1>6. AckedAreRecovered'
  <2>1. ReadBack(Append(acked, x), Append(Txs, x))
    BY <1>3, <1>4, ReadBackBoth
  <2> QED BY <1>1, <1>2, <2>1, AckedIs
<1> HIDE DEF m
<1>7. ASSUME policy' = "Sync", NEW i \in DOMAIN acked' PROVE acked'[i].lsn < synced'
  <2>1. synced' = Len(Log) + Len(t.changes) + 2
    BY <1>1, <1>2, <1>7
  <2>2. CASE i \in 1 .. m
    <3>1. acked[i].lsn < synced /\ acked[i].lsn \in Nat /\ synced \in Nat /\ synced <= Len(Log)
      BY <1>2, <1>3, <1>5, <1>7, <2>2, AckTyped, TxsFacts DEF AckInv, WalInv
    <3> QED BY <1>3, <1>5, <2>1, <2>2, <3>1
  <2>3. CASE i = m + 1
    BY <1>3, <1>5, <2>1, <2>3
  <2> QED BY <1>5, <2>2, <2>3
<1> QED BY <1>5, <1>6, <1>7 DEF AckInv

(* The append that is not acknowledged. *)
LEMMA AckMore ==
    ASSUME WalInv, AckInv, NEW t \in Tx, Added(t) \/ Kept,
           acked' = acked, policy' = policy, synced' = synced
    PROVE  AckInv'
<1>1. Txs' = Append(Txs, Logged(t, Log)) \/ Txs' = Txs
  BY DEF Added, Kept
<1>2. synced \in Nat
  BY TxsFacts
<1>3. CASE Txs' = Txs
  BY <1>2, <1>3, AckKept
<1>4. CASE Txs' = Append(Txs, Logged(t, Log))
  <2> DEFINE x == Logged(t, Log)
  <2>1. x \in LoggedTx /\ x \notin ToSet(Txs)
    BY NewInLog
  <2>2. acked \in Seq(LoggedTx) /\ Txs \in Seq(LoggedTx) /\ ReadBack(acked, Txs)
    BY AckedIs, LogFacts DEF AckInv
  <2>3. Txs' = Append(Txs, x)
    BY <1>4
  <2> HIDE DEF x
  <2>4. AckedAreRecovered'
    <3>1. ReadBack(acked, Append(Txs, x))
      BY <2>1, <2>2, ReadBackMore
    <3> QED BY <2>3, <3>1, AckedIs
  <2> QED BY <2>4 DEF AckInv
<1> QED BY <1>1, <1>3, <1>4

(* A power loss takes nothing that is synced, and of the rest the end. *)
LEMMA AckPowerLoss ==
    ASSUME WalInv, AckInv, NEW n \in 0 .. Len(file), NEW tail \in Tails, PowerLoss(n, tail)
    PROVE  AckInv'
<1> DEFINE less == Txs'
           K == {i \in DOMAIN acked : acked[i] \in ToSet(less)}
<1>1. /\ policy' = policy
      /\ acked' = IF policy = "Sync" THEN acked ELSE SubSeq(acked, 1, Cardinality(K))
  BY DEF PowerLoss, Die, Txs
<1>2. synced' = synced /\ \E m \in 0 .. Len(Log) : Cut(m)
  BY PowerLossWal
<1>3. PICK m \in 0 .. Len(Log) : Cut(m)
  BY <1>2
<1>4. less \in Seq(LoggedTx) /\ Extends(less, Txs, m) /\ synced <= m /\ m \in Nat
  BY <1>3, LogFacts DEF Cut
<1>5. /\ Txs \in Seq(LoggedTx) /\ DOMAIN Txs = 1 .. Len(Txs) /\ Len(Txs) \in Nat
      /\ \A k \in 1 .. Len(Txs) : Txs[k].lsn \in Nat
      /\ synced \in Nat
  BY LogFacts, TxsFacts
<1>6. acked \in Seq(LoggedTx) /\ ReadBack(acked, Txs)
  BY AckedIs DEF AckInv
<1>7. Len(less) \in Nat /\ DOMAIN less = 1 .. Len(less)
  BY <1>4, LenProperties
<1>8. /\ Len(less) <= Len(Txs) /\ \A k \in 1 .. Len(less) : less[k] = Txs[k]
      /\ \A k \in Len(less) + 1 .. Len(Txs) : m <= Txs[k].lsn
  BY <1>4 DEF Extends
<1>9. AckedAreRecovered' <=> ReadBack(acked', less)
  BY AckedIs
<1> HIDE DEF less
<1>10. CASE policy = "Sync"
  <2>1. ASSUME NEW i \in DOMAIN acked PROVE acked[i] \in ToSet(less)
    <3>1. PICK k \in 1 .. Len(Txs) : Txs[k] = acked[i]
      BY <1>5, <1>6 DEF ReadBack, ToSet
    <3>2. Txs[k].lsn < synced
      BY <1>10, <3>1 DEF AckInv
    <3>3. k \in 1 .. Len(less)
      BY <1>4, <1>5, <1>7, <1>8, <3>1, <3>2
    <3> QED BY <1>7, <1>8, <3>1, <3>3 DEF ToSet
  <2>2. ToSet(acked) \subseteq ToSet(less)
    BY <2>1 DEF ToSet
  <2>3. ReadBack(acked, less)
    BY <1>4, <1>5, <1>6, <1>8, <2>2, ReadBackCut
  <2>4. acked' = acked
    BY <1>1, <1>10
  <2> QED BY <1>1, <1>2, <1>6, <1>9, <2>3, <2>4 DEF AckInv
<1>11. CASE policy # "Sync"
  <2>1. acked' = SubSeq(acked, 1, Cardinality(K))
    BY <1>1, <1>11
  <2>2. Cardinality(K) \in 0 .. Len(acked) /\ ReadBack(SubSeq(acked, 1, Cardinality(K)), less)
    BY <1>4, <1>5, <1>6, <1>8, KeptIsPrefix
  <2> HIDE DEF K
  <2>3. acked' \in Seq(LoggedTx)
    BY <1>6, <2>1, <2>2, Prefix
  <2>4. AckedAreRecovered'
    BY <1>9, <2>1, <2>2
  <2> QED BY <1>1, <1>11, <2>3, <2>4 DEF AckInv
<1> QED BY <1>10, <1>11

-----------------------------------------------------------------------------
(* The client of the log alone. *)

LEMMA NewTx ==
    ASSUME IssuedInv, NEW t \in Tx, t.tx = Cardinality(issued)
    PROVE  t \notin issued /\ t \notin ToSet(RecoveredTxs(file))
<1>1. Cardinality(issued) \in Nat
  BY FS_CardinalityType DEF IssuedInv
<1>2. t \notin issued
  BY <1>1 DEF IssuedInv
<1> QED BY <1>2 DEF IssuedInv

(* What may be read after a step, if each of it was issued. *)
LEMMA IssuedStays ==
    ASSUME IssuedInv, issued' = issued, ToSet(Read(Txs')) \subseteq ToSet(Read(Txs))
    PROVE  IssuedInv'
BY ReadIsRecovered DEF IssuedInv

LEMMA IssuedGrows ==
    ASSUME WalInv, IssuedInv, NEW t \in Tx, t.tx = Cardinality(issued),
           issued' = issued \cup {t},
           Txs' = Append(Txs, Logged(t, Log)) \/ Txs' = Txs
    PROVE  IssuedInv'
<1>1. t \notin issued
  BY NewTx
<1>2. IsFiniteSet(issued) /\ issued \subseteq Tx
  BY DEF IssuedInv
<1>3. IsFiniteSet(issued') /\ Cardinality(issued') = Cardinality(issued) + 1
  BY <1>1, <1>2, FS_AddElement
<1>4. Cardinality(issued) \in Nat
  BY <1>2, FS_CardinalityType
<1>5. \A x \in issued' : x.tx < Cardinality(issued')
  <2>1. \A x \in issued : x.tx < Cardinality(issued) /\ x.tx \in Nat
    BY <1>2 DEF IssuedInv, Tx
  <2> QED BY <1>3, <1>4, <2>1
<1>6. ToSet(Read(Txs')) \subseteq issued'
  <2>1. ToSet(Read(Txs)) \subseteq issued
    BY ReadIsRecovered DEF IssuedInv
  <2>2. CASE Txs' = Txs
    BY <2>1, <2>2
  <2>3. CASE Txs' = Append(Txs, Logged(t, Log))
    <3> DEFINE r == Read(Txs)
    <3>1. Txs \in Seq(LoggedTx) /\ Log \in Seq(Record)
      BY LogFacts
    <3>2. Read(Txs') = Append(r, t) /\ r \in Seq(Tx)
      BY <2>3, <3>1, ReadAppend, ReadTyped
    <3> HIDE DEF r
    <3>3. /\ Len(r) \in Nat /\ DOMAIN r = 1 .. Len(r)
          /\ DOMAIN Append(r, t) = 1 .. Len(r) + 1
          /\ \A i \in 1 .. Len(r) : Append(r, t)[i] = r[i]
          /\ Append(r, t)[Len(r) + 1] = t
      BY <3>2, AppendProperties, LenProperties
    <3>4. ToSet(Append(r, t)) \subseteq ToSet(r) \cup {t}
      BY <3>3 DEF ToSet
    <3> QED BY <2>1, <3>2, <3>4 DEF r
  <2> QED BY <2>2, <2>3
<1>7. issued' \subseteq Tx
  BY <1>2
<1> QED BY <1>3, <1>5, <1>6, <1>7, ReadIsRecovered DEF IssuedInv
LEMMA IssuedPowerLoss ==
    ASSUME WalInv, IssuedInv, NEW n \in 0 .. Len(file), NEW tail \in Tails, PowerLoss(n, tail)
    PROVE  IssuedInv'
<1>1. issued' = issued
  BY DEF PowerLoss, Die
<1>2. PICK m \in 0 .. Len(Log) : Cut(m)
  BY PowerLossWal
<1>3. Extends(Txs', Txs, m) /\ Txs' \in Seq(LoggedTx) /\ Txs \in Seq(LoggedTx)
  BY <1>2, LogFacts DEF Cut
<1>4. /\ Len(Txs') <= Len(Txs) /\ \A k \in 1 .. Len(Txs') : Txs[k] = Txs'[k]
      /\ Len(Txs) \in Nat /\ Len(Txs') \in Nat
      /\ DOMAIN Txs = 1 .. Len(Txs) /\ DOMAIN Txs' = 1 .. Len(Txs')
  BY <1>3, LenProperties DEF Extends
<1>5. ASSUME NEW k \in DOMAIN Txs' PROVE k \in DOMAIN Txs /\ Txs[k] = Txs'[k]
  BY <1>4
<1>6. ToSet(Read(Txs')) \subseteq ToSet(Read(Txs))
  <2>1. DOMAIN Read(Txs') = DOMAIN Txs' /\ DOMAIN Read(Txs) = DOMAIN Txs
    BY DEF Read
  <2>2. \A k \in DOMAIN Txs' : Read(Txs')[k] = Read(Txs)[k]
    BY <1>5 DEF Read
  <2> QED BY <1>5, <2>1, <2>2 DEF ToSet
<1> QED BY <1>1, <1>6, IssuedStays

(* The new log. *)
LEMMA EmptyLog ==
    ASSUME file = <<>>
    PROVE  Log = <<>> /\ Scan(file) = ScanStart /\ Txs = <<>> /\ RecoveredTxs(file) = <<>>
<1>1. <<>> \in Seq(Record) /\ <<>> \in Tails /\ file = <<>> \o <<>> /\ Len(<<>>) = 0
  BY DEF Tails
<1>2. ValidPrefix(file) = <<>>
  BY <1>1, ValidPrefixOf
<1>3. Scan(file) = ScanStart
  BY <1>1, <1>2, ScanSteps DEF Scan
<1>4. Txs = <<>>
  BY <1>3, ScanStartTyped DEF Txs
<1>5. Read(<<>>) = <<>>
  BY DEF Read
<1> QED BY <1>2, <1>3, <1>4, <1>5, ReadIsRecovered DEF Log

LEMMA WalInitInv ==
    ASSUME WalInit
    PROVE  WalInv /\ AckInv /\ IssuedInv
<1>1. /\ header = "Missing" /\ file = <<>> /\ synced = 0 /\ policy \in Policies
      /\ handle = "Closed" /\ issued = {} /\ acked = <<>>
  BY DEF WalInit
<1>2. Log = <<>> /\ Scan(file) = ScanStart /\ Txs = <<>> /\ RecoveredTxs(file) = <<>>
  BY <1>1, EmptyLog
<1>3. file = Log \o <<>> /\ <<>> \in Tails /\ <<>> \in Seq(Record) /\ Len(<<>>) = 0
  BY <1>1, <1>2 DEF Tails
<1>4. WalInv
  BY <1>1, <1>2, <1>3, ScanStartTyped DEF WalInv, Ready
<1>5. AckInv
  <2>1. acked \in Seq(LoggedTx) /\ DOMAIN acked = {}
    BY <1>1
  <2>2. ToSet(acked) = {}
    BY <2>1 DEF ToSet
  <2> QED BY <2>1, <2>2 DEF AckInv, AckedAreRecovered, ReadBack
<1>6. IssuedInv
  <2>1. IsFiniteSet({})
    BY FS_EmptySet
  <2>2. ToSet(<<>>) = {}
    BY DEF ToSet
  <2> QED BY <1>1, <1>2, <2>1, <2>2 DEF IssuedInv
<1> QED BY <1>4, <1>5, <1>6

WalStepInv == WalInv /\ AckInv /\ IssuedInv

LEMMA CallAppendStep ==
    ASSUME WalStepInv, NEW t \in Tx, t.tx = Cardinality(issued), CallAppend(t)
    PROVE  WalStepInv'
<1>1. WalInv /\ AckInv /\ IssuedInv
  BY DEF WalStepInv
<1>2. Len(Group(t)) = Len(t.changes) + 2
  BY GroupShape
<1>3. CASE AppendOk(t)
  <2>1. WalInv' /\ Added(t)
    BY <1>1, <1>3, AppendOkWal
  <2>2. AckInv'
    BY <1>1, <1>3, AckAppendOk
  <2>3. issued' = issued \cup {t}
    BY <1>3 DEF AppendOk
  <2>4. IssuedInv'
    BY <1>1, <2>1, <2>3, IssuedGrows DEF Added
  <2> QED BY <2>1, <2>2, <2>4 DEF WalStepInv
<1>4. ASSUME NEW n \in 0 .. Len(t.changes) + 2, NEW tail \in Tails,
             AppendFails(t, n, tail) \/ CrashInAppend(t, n, tail)
      PROVE  WalStepInv'
  <2>1. WalInv' /\ (Added(t) \/ Kept)
    BY <1>1, <1>4, AppendFailsWal, CrashInAppendWal
  <2>2. acked' = acked /\ policy' = policy /\ issued' = issued \cup {t} /\ synced' = synced
    BY <1>4 DEF AppendFails, CrashInAppend
  <2>3. AckInv'
    BY <1>1, <2>1, <2>2, AckMore
  <2>4. IssuedInv'
    BY <1>1, <2>1, <2>2, IssuedGrows DEF Added, Kept
  <2> QED BY <2>1, <2>3, <2>4 DEF WalStepInv
<1> QED BY <1>2, <1>3, <1>4 DEF CallAppend

(* A step that neither issues nor acknowledges and keeps what can be read. *)
LEMMA QuietStep ==
    ASSUME WalStepInv, WalInv', Txs' = Txs, acked' = acked, policy' = policy, issued' = issued,
           synced <= synced', synced' \in Nat
    PROVE  WalStepInv'
<1>1. WalInv /\ AckInv /\ IssuedInv
  BY DEF WalStepInv
<1>2. AckInv'
  BY <1>1, AckKept
<1>3. IssuedInv'
  BY <1>1, IssuedStays
<1> QED BY <1>2, <1>3 DEF WalStepInv

LEMMA WalStep ==
    ASSUME WalStepInv, [WalNext]_walVars
    PROVE  WalStepInv'
<1>1. WalInv /\ AckInv /\ IssuedInv
  BY DEF WalStepInv
<1>2. synced \in Nat /\ Len(Log) \in Nat
  BY <1>1, TxsFacts, LogFacts
<1>3. CASE Create
  <2>1. acked' = acked /\ policy' = policy /\ issued' = issued
    BY <1>3 DEF Create
  <2>2. WalInv' /\ Txs' = Txs /\ synced' = synced
    BY <1>1, <1>3, CreateWal
  <2> QED BY <1>2, <2>1, <2>2, QuietStep
<1>4. CASE Open
  <2>1. acked' = acked /\ policy' = policy /\ issued' = issued
    BY <1>4 DEF Open
  <2>2. WalInv' /\ Txs' = Txs /\ Log' = Log /\ synced <= synced'
    BY <1>1, <1>4, OpenWal
  <2>3. synced' \in Nat
    BY <1>2, <2>2 DEF WalInv
  <2> QED BY <2>1, <2>2, <2>3, QuietStep
<1>5. CASE RecoverChanges
  <2>1. acked' = acked /\ policy' = policy /\ issued' = issued
    BY <1>5 DEF RecoverChanges
  <2>2. WalInv' /\ Txs' = Txs /\ synced' = synced
    BY <1>1, <1>5, RecoverChangesWal
  <2> QED BY <1>2, <2>1, <2>2, QuietStep
<1>6. CASE Crash \/ CrashInCreate
  <2>1. acked' = acked /\ policy' = policy /\ issued' = issued /\ synced' = synced
        /\ file' = file /\ handle' = "Closed"
    BY <1>6 DEF Crash, CrashInCreate, Die, disk
  <2>2. header' = header \/ (header = "Missing" /\ header' \in {"Empty", "Short"})
    BY <1>6 DEF Crash, CrashInCreate, disk
  <2>3. WalInv' /\ Txs' = Txs
    BY <1>1, <2>1, <2>2, CloseWal
  <2> QED BY <1>2, <2>1, <2>3, QuietStep
<1>7. ASSUME NEW m \in 0 .. MaxChanges, NEW c \in [1 .. m -> Payload],
             CallAppend([tx |-> Cardinality(issued), changes |-> c])
      PROVE  WalStepInv'
  <2>1. c \in Seq(Payload)
    BY WalAssumption, SeqDef
  <2>2. Cardinality(issued) \in Nat
    BY <1>1, FS_CardinalityType DEF IssuedInv
  <2> DEFINE t == [tx |-> Cardinality(issued), changes |-> c]
  <2>3. t \in Tx /\ t.tx = Cardinality(issued) /\ CallAppend(t)
    BY <1>7, <2>1, <2>2 DEF Tx
  <2> HIDE DEF t
  <2> QED BY <2>3, CallAppendStep
<1>8. ASSUME NEW n \in 0 .. Len(file), NEW tail \in Tails, PowerLoss(n, tail)
      PROVE  WalStepInv'
  <2>1. WalInv'
    BY <1>1, <1>8, PowerLossWal
  <2>2. AckInv'
    BY <1>1, <1>8, AckPowerLoss
  <2>3. IssuedInv'
    BY <1>1, <1>8, IssuedPowerLoss
  <2> QED BY <2>1, <2>2, <2>3 DEF WalStepInv
<1>9. CASE UNCHANGED walVars
  <2>1. /\ header' = header /\ file' = file /\ synced' = synced /\ policy' = policy
        /\ handle' = handle /\ nextLsn' = nextLsn /\ cursor' = cursor
        /\ issued' = issued /\ acked' = acked
    BY <1>9 DEF walVars, disk, wal
  <2>2. Log' = Log /\ Txs' = Txs /\ Scan(file)' = Scan(file)
    BY <2>1, SameLog
  <2>3. WalInv'
    BY <1>1, <2>1, <2>2 DEF WalInv, Ready
  <2> QED BY <1>2, <2>1, <2>2, <2>3, QuietStep
<1> QED BY <1>3, <1>4, <1>5, <1>6, <1>7, <1>8, <1>9 DEF WalNext

LEMMA WalInvariant == WalSpec => []WalStepInv
<1>1. WalInit => WalStepInv
  BY WalInitInv DEF WalStepInv
<1>2. WalStepInv /\ [WalNext]_walVars => WalStepInv'
  BY WalStep
<1> QED BY <1>1, <1>2, PTL DEF WalSpec

(* The log alone, with any groups and for any client that recovers before  *)
(* it appends and stops at a failed append (MayAppend): every transaction  *)
(* that append acknowledged is read back, whole, once and in order, through*)
(* torn tails, abandoned groups, restarts and, under Sync, power loss.     *)
THEOREM LogKeepsAcked == WalSpec => []AckedAreRecovered
<1>1. WalStepInv => AckedAreRecovered
  BY DEF WalStepInv, AckInv
<1> QED BY <1>1, WalInvariant, PTL

(* What the scan of the log alone returns was issued as it stands: the     *)
(* remains of a group that was cut off never mix with those behind it.     *)
THEOREM LogReadsWholeGroups == WalSpec => []GroupsAreWhole
<1>1. WalStepInv => GroupsAreWhole
  BY DEF WalStepInv, IssuedInv, GroupsAreWhole
<1> QED BY <1>1, WalInvariant, PTL

(* recover_changes never reports a bug in the writer, and the LSN a        *)
(* snapshot would be taken at is the end of the file.                      *)
THEOREM LogScansClean == WalSpec => [](ScanNeverFails /\ LsnIsEnd)
<1>1. WalStepInv => ScanNeverFails /\ LsnIsEnd
  BY DEF WalStepInv, WalInv, Ready, ScanNeverFails, LsnIsEnd
<1> QED BY <1>1, WalInvariant, PTL

-----------------------------------------------------------------------------
(* The replay of a change and of a transaction. *)

Outcomes == [store : Stores, error : BOOLEAN]

LEMMA ReplayChangeTyped ==
    ASSUME NEW s \in Stores, NEW c \in RowChange, CanReplay(s, c)
    PROVE  ReplayChange(s, c) \in Stores /\ ReplayChange(s, c).nextTx = s.nextTx
<1>1. /\ c.kind \in {"Insert", "Update", "Delete"} /\ c.id \in RowIds
      /\ s.rows \in [RowIds -> Nat \cup {None}] /\ s.next \in 0 .. MaxRows /\ s.nextTx \in Nat
  BY DEF RowChange, Stores
<1>2. MaxRows \in Nat
  BY PartitionAssumption
<1>3. CASE c.kind = "Insert"
  <2>1. s.next = c.id
    BY <1>3 DEF CanReplay
  <2>2. s.next + 1 \in 0 .. MaxRows
    BY <1>1, <1>2, <2>1 DEF RowIds
  <2>3. ReplayChange(s, c) = [rows |-> [s.rows EXCEPT ![c.id] = 0], next |-> s.next + 1,
                              nextTx |-> s.nextTx]
    BY <1>3 DEF ReplayChange, Stores
  <2>4. [s.rows EXCEPT ![c.id] = 0] \in [RowIds -> Nat \cup {None}]
    BY <1>1
  <2> QED BY <1>1, <2>2, <2>3, <2>4 DEF Stores
<1>4. CASE c.kind = "Update"
  <2>1. s.rows[c.id] \in Nat
    BY <1>1, <1>4 DEF CanReplay
  <2>2. ReplayChange(s, c) = [rows |-> [s.rows EXCEPT ![c.id] = s.rows[c.id] + 1],
                              next |-> s.next, nextTx |-> s.nextTx]
    BY <1>4 DEF ReplayChange, Stores
  <2>3. [s.rows EXCEPT ![c.id] = s.rows[c.id] + 1] \in [RowIds -> Nat \cup {None}]
    BY <1>1, <2>1
  <2> QED BY <1>1, <2>2, <2>3 DEF Stores
<1>5. CASE c.kind = "Delete"
  <2>1. ReplayChange(s, c) = [rows |-> [s.rows EXCEPT ![c.id] = None],
                              next |-> s.next, nextTx |-> s.nextTx]
    BY <1>5 DEF ReplayChange, Stores
  <2>2. [s.rows EXCEPT ![c.id] = None] \in [RowIds -> Nat \cup {None}]
    BY <1>1
  <2> QED BY <1>1, <2>1, <2>2 DEF Stores
<1> QED BY <1>1, <1>3, <1>4, <1>5

LEMMA ReplayOneTyped ==
    ASSUME NEW r \in Outcomes, NEW c \in RowChange
    PROVE  ReplayOne(r, c) \in Outcomes /\ ReplayOne(r, c).store.nextTx = r.store.nextTx
<1>1. r.store \in Stores /\ r.error \in BOOLEAN /\ r = [store |-> r.store, error |-> r.error]
  BY DEF Outcomes
<1>2. CASE r.error \/ ~CanReplay(r.store, c)
  <2>1. ReplayOne(r, c) = [store |-> r.store, error |-> TRUE]
    BY <1>1, <1>2 DEF ReplayOne, Outcomes
  <2> QED BY <1>1, <2>1 DEF Outcomes
<1>3. CASE ~r.error /\ CanReplay(r.store, c)
  <2> DEFINE s == ReplayChange(r.store, c)
  <2>1. ReplayOne(r, c) = [store |-> s, error |-> r.error]
    BY <1>1, <1>3 DEF ReplayOne, Outcomes
  <2>2. s \in Stores /\ s.nextTx = r.store.nextTx
    BY <1>1, <1>3, ReplayChangeTyped
  <2> HIDE DEF s
  <2> QED BY <1>1, <2>1, <2>2 DEF Outcomes
<1> QED BY <1>2, <1>3

LEMMA AppliedTyped ==
    ASSUME NEW s \in Stores, NEW changes \in Seq(Payload)
    PROVE  Applied(s, changes) \in Outcomes /\ Applied(s, changes).store.nextTx = s.nextTx
<1> DEFINE n == Len(changes)
           first == [store |-> s, error |-> FALSE]
           Runs(f) == f = [i \in 0 .. n |-> IF i = 0 THEN first
                                            ELSE ReplayOne(f[i - 1], changes[i])]
           after == CHOOSE f : Runs(f)
<1>1. n \in Nat /\ \A i \in 1 .. n : changes[i] \in RowChange
  BY LenProperties, ElementOfSeq, PayloadAssumption
<1>2. first \in Outcomes /\ first.store = s
  BY DEF Outcomes
<1> DEFINE g == [i \in 1 .. n |-> [r \in Outcomes |-> ReplayOne(r, changes[i])]]
<1>3. g \in [1 .. n -> [Outcomes -> Outcomes]]
  <2> HIDE DEF n
  <2> QED BY <1>1, ReplayOneTyped
<1> HIDE DEF first
<1>4. PICK f : Iterates(f, n, Outcomes, first, g)
  <2> HIDE DEF g, n
  <2> QED BY <1>1, <1>2, <1>3, IterationExists
<1>5. ASSUME NEW i \in 1 .. n PROVE f[i] = ReplayOne(f[i - 1], changes[i])
  <2>1. i - 1 \in 0 .. n
    BY <1>1
  <2>2. f[i - 1] \in Outcomes
    BY <1>4, <2>1 DEF Iterates
  <2> QED BY <1>4, <2>2 DEF Iterates
<1>6. Runs(f)
  <2>1. ASSUME NEW i \in 0 .. n
        PROVE  f[i] = IF i = 0 THEN first ELSE ReplayOne(f[i - 1], changes[i])
    <3>1. i = 0 \/ i \in 1 .. n
      BY <1>1
    <3> QED BY <1>4, <1>5, <3>1 DEF Iterates
  <2> HIDE DEF n
  <2> QED BY <1>4, <2>1 DEF Iterates
<1>7. Runs(after)
  <2> HIDE DEF Runs
  <2> QED BY <1>6
<1>8. Applied(s, changes) = after[n]
  BY DEF Applied, first
<1> HIDE DEF after
<1> DEFINE S == {i \in 0 .. n : after[i] \in Outcomes /\ after[i].store.nextTx = s.nextTx}
<1>9. 0 \in S
  <2>1. after[0] = first
    BY <1>1, <1>7
  <2> QED BY <1>1, <1>2, <2>1
<1>10. ASSUME NEW i \in 1 .. n, i - 1 \in S PROVE i \in S
  <2>1. after[i] = ReplayOne(after[i - 1], changes[i]) /\ i \in 0 .. n
    BY <1>1, <1>7
  <2>2. after[i - 1] \in Outcomes /\ after[i - 1].store.nextTx = s.nextTx
    BY <1>10
  <2>3. after[i] \in Outcomes /\ after[i].store.nextTx = after[i - 1].store.nextTx
    BY <1>1, <2>1, <2>2, ReplayOneTyped
  <2> QED BY <2>1, <2>2, <2>3
<1>11. n \in S
  <2> HIDE DEF S, n
  <2>1. 0 .. n \subseteq S
    BY <1>1, <1>9, <1>10, InductionOnInterval
  <2> QED BY <1>1, <2>1
<1> QED BY <1>8, <1>11

LEMMA AdvanceTxTyped ==
    ASSUME NEW s \in Stores, NEW tx \in Nat
    PROVE  /\ AdvanceTx(s, tx) \in Stores
           /\ AdvanceTx(s, tx).nextTx = IF tx + 1 > s.nextTx THEN tx + 1 ELSE s.nextTx
<1> DEFINE m == IF tx + 1 > s.nextTx THEN tx + 1 ELSE s.nextTx
<1>1. m \in Nat
  BY DEF Stores
<1>2. AdvanceTx(s, tx) = [rows |-> s.rows, next |-> s.next, nextTx |-> m]
  BY DEF AdvanceTx, Stores
<1> HIDE DEF m
<1>3. AdvanceTx(s, tx) \in Stores /\ AdvanceTx(s, tx).nextTx = m
  BY <1>1, <1>2 DEF Stores
<1> QED BY <1>3 DEF m

LEMMA ReplayTxTyped ==
    ASSUME NEW r \in Results, NEW t \in LoggedTx
    PROVE  ReplayTx(r, t) \in Results /\ ReplayTx(r, t).lsn = r.lsn
<1>1. CASE r.error \/ t.lsn < r.lsn
  BY <1>1 DEF ReplayTx
<1>2. CASE ~(r.error \/ t.lsn < r.lsn)
  <2> DEFINE a == Applied(r.store, t.changes)
             s == AdvanceTx(a.store, t.tx)
  <2>1. r.store \in Stores /\ r.lsn \in Nat /\ t.changes \in Seq(Payload) /\ t.tx \in Nat
    BY DEF Results, LoggedTx
  <2>2. a \in Outcomes
    BY <2>1, AppliedTyped
  <2>3. ReplayTx(r, t) = [store |-> s, lsn |-> r.lsn, error |-> a.error]
    BY <1>2 DEF ReplayTx, Results
  <2> HIDE DEF a
  <2>4. a.store \in Stores /\ a.error \in BOOLEAN
    BY <2>2 DEF Outcomes
  <2>5. s \in Stores
    BY <2>1, <2>4, AdvanceTxTyped
  <2> HIDE DEF s
  <2> QED BY <2>1, <2>3, <2>4, <2>5 DEF Results
<1> QED BY <1>1, <1>2

LEMMA ReplayedTyped ==
    ASSUME NEW r \in Results, NEW txs \in Seq(LoggedTx), NEW n \in 0 .. Len(txs)
    PROVE  Replayed(r, txs, n) \in Results /\ Replayed(r, txs, n).lsn = r.lsn
<1> DEFINE T == {k \in Nat : k <= Len(txs) => /\ Replayed(r, txs, k) \in Results
                                               /\ Replayed(r, txs, k).lsn = r.lsn}
<1>1. Len(txs) \in Nat /\ \A i \in 1 .. Len(txs) : txs[i] \in LoggedTx
  BY LenProperties, ElementOfSeq
<1>2. 0 \in T
  BY ReplaySteps
<1>3. ASSUME NEW k \in Nat, k \in T PROVE k + 1 \in T
  <2> SUFFICES ASSUME k + 1 <= Len(txs)
               PROVE  Replayed(r, txs, k + 1) \in Results /\ Replayed(r, txs, k + 1).lsn = r.lsn
    OBVIOUS
  <2>1. Replayed(r, txs, k) \in Results /\ Replayed(r, txs, k).lsn = r.lsn
    BY <1>1, <1>3
  <2>2. txs[k + 1] \in LoggedTx
    BY <1>1
  <2>3. Replayed(r, txs, k + 1) = ReplayTx(Replayed(r, txs, k), txs[k + 1])
    BY ReplaySteps
  <2> QED BY <2>1, <2>2, <2>3, ReplayTxTyped
<1>4. n \in T
  <2> HIDE DEF T
  <2> QED BY <1>1, <1>2, <1>3, InductionOnNat
<1> QED BY <1>1, <1>4

(* What the snapshot covers is skipped. *)
LEMMA ReplayCovered ==
    ASSUME NEW r, NEW txs, NEW n \in Nat, \A i \in 1 .. n : txs[i].lsn < r.lsn
    PROVE  Replayed(r, txs, n) = r
<1> DEFINE T == {k \in Nat : k <= n => Replayed(r, txs, k) = r}
<1>1. 0 \in T
  BY ReplaySteps
<1>2. ASSUME NEW k \in Nat, k \in T PROVE k + 1 \in T
  <2> SUFFICES ASSUME k + 1 <= n PROVE Replayed(r, txs, k + 1) = r
    OBVIOUS
  <2>1. Replayed(r, txs, k) = r /\ txs[k + 1].lsn < r.lsn
    BY <1>2
  <2>2. Replayed(r, txs, k + 1) = ReplayTx(Replayed(r, txs, k), txs[k + 1])
    BY ReplaySteps
  <2> QED BY <2>1, <2>2 DEF ReplayTx
<1>3. n \in T
  <2> HIDE DEF T
  <2> QED BY <1>1, <1>2, InductionOnNat
<1> QED BY <1>3

-----------------------------------------------------------------------------
(* What recovery would find. *)
-----------------------------------------------------------------------------
(* What recovery would find: in the whole log, and in the part of it that a *)
(* power loss may leave.                                                    *)

Base == [store |-> Latest.store, lsn |-> Latest.lsn, error |-> FALSE]

Found(base, txs) == Replayed(base, txs, Len(txs))

At(k) == ScanTo(Log, k).txs
NextAt(k) == Found(Base, At(k)).store.nextTx
Covers(k) == \A s \in snaps : s.lsn <= k
Floor(k) == IF policy = "Sync" \/ k = Len(Log) THEN durable ELSE 1

(* It is in the timeline, not before d, and past the ids in the log. *)
GoodFor(base, tl, txs, d) ==
    /\ ~Found(base, txs).error
    /\ \E i \in d .. Len(tl) : tl[i] = Found(base, txs).store
    /\ \A j \in DOMAIN txs : txs[j].tx < Found(base, txs).store.nextTx

StateInv ==
    /\ store \in Stores \cup {None}
    /\ store # None <=> handle \in {"Recovered", "Failed"}
    /\ snaps \subseteq [lsn : Nat, store : Stores]
    /\ snaps # {} => \E s \in snaps : \A r \in snaps : r.lsn <= s.lsn

(* No snapshot lies beyond the end of the log. *)
SnapsInv ==
    /\ Covers(Len(Log))
    /\ handle = "Failed" => Covers(nextLsn)

TimelineInv ==
    /\ timeline \in Seq(Stores) /\ durable \in 1 .. Len(timeline)
    /\ \A i, j \in DOMAIN timeline : i < j => timeline[i].nextTx < timeline[j].nextTx
    /\ header = "Missing" => timeline = <<EmptyStore>> /\ durable = 1 /\ snaps = {}

RecoveryInv ==
    /\ \A k \in synced .. Len(Log) : Covers(k) => GoodFor(Base, timeline, At(k), Floor(k))
    /\ \A j, k \in synced .. Len(Log) : Covers(j) /\ j <= k => NextAt(j) <= NextAt(k)
    /\ \A i, j \in DOMAIN Txs : i < j => Txs[i].tx < Txs[j].tx

MemoryInv ==
    /\ store # None => /\ store = timeline[Len(timeline)]
                       /\ Recovered.store.nextTx <= store.nextTx
    /\ handle = "Recovered" => store = Recovered.store

OrderInv == SnapsInv /\ TimelineInv /\ RecoveryInv /\ MemoryInv

PartitionInv == WalInv /\ AckInv /\ StateInv /\ (astray = {} => OrderInv)

LEMMA RecoveredIs ==
    /\ Recovered = Found(Base, Txs)
    /\ Recovered' = Found(Base', Txs')
BY DEF Recovered, Found, Base, Txs

LEMMA EmptyStoreTyped == EmptyStore \in Stores /\ EmptyStore.nextTx = 0
<1>1. 0 \in 0 .. MaxRows
  BY PartitionAssumption
<1>2. [id \in RowIds |-> None] \in [RowIds -> Nat \cup {None}]
  OBVIOUS
<1> QED BY <1>1, <1>2 DEF EmptyStore, Stores


LEMMA LatestTyped ==
    ASSUME StateInv
    PROVE  Base \in Results /\ Base.lsn \in Nat /\ \A k \in Nat : Covers(k) => Base.lsn <= k
<1>1. CASE snaps = {}
  <2>1. Latest = [lsn |-> 0, store |-> EmptyStore]
    BY <1>1 DEF Latest
  <2>2. Base = [store |-> EmptyStore, lsn |-> 0, error |-> FALSE]
    BY <2>1 DEF Base
  <2> QED BY <2>2, EmptyStoreTyped DEF Results
<1>2. CASE snaps # {}
  <2>1. \E s \in snaps : \A r \in snaps : r.lsn <= s.lsn
    BY <1>2 DEF StateInv
  <2>2. Latest \in snaps
    BY <1>2, <2>1 DEF Latest
  <2>3. Latest.lsn \in Nat /\ Latest.store \in Stores
    BY <2>2 DEF StateInv
  <2> QED BY <2>2, <2>3 DEF Base, Results, Covers
<1> QED BY <1>1, <1>2

LEMMA FoundTyped ==
    ASSUME StateInv, NEW txs \in Seq(LoggedTx)
    PROVE  /\ Found(Base, txs) \in Results /\ Found(Base, txs).lsn = Base.lsn
           /\ Found(Base, txs).store \in Stores /\ Found(Base, txs).store.nextTx \in Nat
<1>1. Len(txs) \in 0 .. Len(txs)
  BY LenProperties
<1>2. Found(Base, txs) \in Results /\ Found(Base, txs).lsn = Base.lsn
  BY <1>1, LatestTyped, ReplayedTyped DEF Found
<1>3. Found(Base, txs).store \in Stores
  BY <1>2 DEF Results
<1> QED BY <1>2, <1>3 DEF Stores

LEMMA AtTyped ==
    ASSUME WalInv, NEW k \in 0 .. Len(Log)
    PROVE  At(k) \in Seq(LoggedTx)
<1>1. ScanTo(Log, k) \in Scans
  BY LogFacts, ScanTyped
<1> QED BY <1>1 DEF At, Scans

LEMMA WholeLog ==
    ASSUME WalInv
    PROVE  /\ At(Len(Log)) = Txs /\ Txs \in Seq(LoggedTx) /\ Len(Log) \in Nat
           /\ Len(Log) \in synced .. Len(Log) /\ synced \in 0 .. Len(Log)
           /\ Recovered = Found(Base, At(Len(Log)))
<1>1. At(Len(Log)) = Txs /\ Txs \in Seq(LoggedTx) /\ Len(Log) \in Nat
  BY LogFacts DEF At
<1>2. synced \in 0 .. Len(Log)
  BY DEF WalInv
<1> QED BY <1>1, <1>2, RecoveredIs

LEMMA RecoveredTyped ==
    ASSUME WalInv, StateInv
    PROVE  /\ Recovered \in Results /\ Recovered.lsn = Base.lsn
           /\ Recovered.store \in Stores /\ Recovered.store.nextTx \in Nat
<1>1. Txs \in Seq(LoggedTx)
  BY LogFacts
<1> QED BY <1>1, FoundTyped, RecoveredIs

(* The whole log: what recovery owes. *)
LEMMA WholeGood ==
    ASSUME WalInv, StateInv, SnapsInv, RecoveryInv
    PROVE  GoodFor(Base, timeline, Txs, durable)
<1>1. Len(Log) \in synced .. Len(Log) /\ At(Len(Log)) = Txs
  BY WholeLog
<1>2. Covers(Len(Log)) /\ Floor(Len(Log)) = durable
  BY DEF SnapsInv, Floor
<1> QED BY <1>1, <1>2 DEF RecoveryInv

LEMMA SameBase ==
    ASSUME snaps' = snaps
    PROVE  Base' = Base /\ \A k : Covers(k)' <=> Covers(k)
BY DEF Base, Latest, Covers

(* A longer timeline, or a smaller debt. *)
LEMMA GoodLonger ==
    ASSUME NEW base, NEW txs, NEW tl, NEW longer, NEW d \in Nat, NEW e \in Nat,
           d >= 1, e >= 1, e <= d, Len(tl) \in Nat, Len(longer) \in Nat, Len(tl) <= Len(longer),
           \A i \in 1 .. Len(tl) : longer[i] = tl[i],
           GoodFor(base, tl, txs, d)
    PROVE  GoodFor(base, longer, txs, e)
<1>1. PICK i \in d .. Len(tl) : tl[i] = Found(base, txs).store
  BY DEF GoodFor
<1>2. i \in e .. Len(longer) /\ i \in 1 .. Len(tl)
  BY <1>1
<1>3. longer[i] = Found(base, txs).store
  BY <1>1, <1>2
<1> QED BY <1>2, <1>3 DEF GoodFor

(* RecoveryInv of the next state, in terms of its parts. *)
LEMMA RecoveryNext ==
    ASSUME \A k \in synced' .. Len(Log') :
              (\A s \in snaps' : s.lsn <= k)
                 => GoodFor(Base', timeline', ScanTo(Log', k).txs,
                            IF policy' = "Sync" \/ k = Len(Log') THEN durable' ELSE 1),
           \A j, k \in synced' .. Len(Log') :
              (\A s \in snaps' : s.lsn <= j) /\ j <= k
                 => Found(Base', ScanTo(Log', j).txs).store.nextTx
                       <= Found(Base', ScanTo(Log', k).txs).store.nextTx,
           \A i, j \in DOMAIN Txs' : i < j => Txs'[i].tx < Txs'[j].tx
    PROVE  RecoveryInv'
BY DEF RecoveryInv, Covers, At, NextAt, Floor

(* One more transaction in the log is one more transaction replayed. *)
LEMMA RecoveredAdded ==
    ASSUME WalInv, StateInv, SnapsInv, NEW t \in Tx, Added(t), snaps' = snaps,
           ~Recovered.error
    PROVE  LET a == Applied(Recovered.store, t.changes)
           IN  Recovered' = [store |-> AdvanceTx(a.store, t.tx), lsn |-> Base.lsn,
                             error |-> a.error]

<1> DEFINE n == Len(Txs)
           x == Logged(t, Log)
           a == Applied(Recovered.store, t.changes)
<1>1. Base' = Base
  BY SameBase
<1>2. Txs \in Seq(LoggedTx) /\ n \in Nat /\ Log \in Seq(Record) /\ Len(Log) \in Nat
  BY LogFacts
<1>3. x \in LoggedTx /\ x.tx = t.tx /\ x.changes = t.changes
      /\ x.lsn = Len(Log) + Len(t.changes) + 1 /\ Len(t.changes) \in Nat
  BY <1>2, LoggedTyped, GroupShape
<1>4. Txs' = Append(Txs, x)
  BY DEF Added
<1> HIDE DEF x, n
<1>5. Len(Txs') = n + 1 /\ Txs'[n + 1] = x /\ \A i \in 1 .. n : Txs'[i] = Txs[i]
  BY <1>2, <1>3, <1>4, AppendProperties DEF n
<1>6. Recovered' = ReplayTx(Replayed(Base, Txs', n), x)
  <2> DEFINE q == Txs'
             b == Base
  <2>1. Recovered' = Replayed(b, q, n + 1) /\ q[n + 1] = x
    BY <1>1, <1>5, RecoveredIs DEF Found
  <2> HIDE DEF q, b
  <2>2. Replayed(b, q, n + 1) = ReplayTx(Replayed(b, q, n), q[n + 1])
    BY <1>2, ReplaySteps
  <2> QED BY <2>1, <2>2 DEF q, b
<1>7. Replayed(Base, Txs', n) = Recovered
  BY <1>2, <1>5, ReplaySame, RecoveredIs DEF n, Found
<1>8. Recovered \in Results /\ Recovered.lsn = Base.lsn
  BY RecoveredTyped
<1>9. ~(x.lsn < Recovered.lsn)
  <2>1. Base.lsn \in Nat /\ Base.lsn <= Len(Log)
    BY <1>2, LatestTyped DEF SnapsInv
  <2> QED BY <1>2, <1>3, <1>8, <2>1
<1> DEFINE r == Recovered
<1>10. Recovered' = ReplayTx(r, x) /\ r \in Results /\ ~r.error /\ ~(x.lsn < r.lsn)
       /\ r.lsn = Base.lsn
  BY <1>6, <1>7, <1>8, <1>9
<1> HIDE DEF r
<1>11. ReplayTx(r, x) = [store |-> AdvanceTx(Applied(r.store, x.changes).store, x.tx),
                         lsn |-> r.lsn, error |-> Applied(r.store, x.changes).error]
  BY <1>10 DEF ReplayTx, Results
<1> QED BY <1>3, <1>10, <1>11 DEF r


(* A snapshot above all others is where recovery starts. *)
LEMMA NewSnapshot ==
    ASSUME StateInv, NEW s \in Stores, NEW l \in Nat, snaps' = WithSnapshot(l, s),
           \A r \in snaps : r.lsn <= l
    PROVE  /\ snaps' \subseteq [lsn : Nat, store : Stores]
           /\ snaps' # {} /\ \E r \in snaps' : \A q \in snaps' : q.lsn <= r.lsn
           /\ \A r \in snaps' : r.lsn <= l
           /\ \E r \in snaps' : r.lsn = l
           /\ Base' = [store |-> s, lsn |-> l, error |-> FALSE]
<1> DEFINE new == [lsn |-> l, store |-> s]
<1>1. snaps' = {old \in snaps : old.lsn # l} \cup {new}
  BY DEF WithSnapshot
<1>2. new \in [lsn : Nat, store : Stores] /\ new.lsn = l /\ new.store = s
  OBVIOUS
<1> HIDE DEF new
<1>3. ASSUME NEW r \in snaps'
      PROVE  r \in [lsn : Nat, store : Stores] /\ r.lsn \in Nat /\ r.lsn <= l /\ (r = new \/ r.lsn < l)
  <2>1. CASE r = new
    BY <1>2, <2>1
  <2>2. CASE r \in snaps /\ r.lsn # l
    <3>1. r \in [lsn : Nat, store : Stores] /\ r.lsn <= l /\ r.lsn \in Nat
      BY <2>2 DEF StateInv
    <3> QED BY <2>2, <3>1
  <2> QED BY <1>1, <2>1, <2>2
<1>4. new \in snaps' /\ snaps' # {}
  BY <1>1
<1>5. \E r \in snaps' : \A q \in snaps' : q.lsn <= r.lsn
  BY <1>2, <1>3, <1>4
<1>6. Latest' = new
  <2> DEFINE y == CHOOSE x \in snaps' : \A r \in snaps' : r.lsn <= x.lsn
  <2>1. Latest' = y
    BY <1>4 DEF Latest
  <2>2. y \in snaps' /\ \A r \in snaps' : r.lsn <= y.lsn
    BY <1>5
  <2> HIDE DEF y
  <2>3. l <= y.lsn /\ y.lsn \in Nat /\ (y = new \/ y.lsn < l)
    BY <1>2, <1>3, <1>4, <2>2
  <2> QED BY <2>1, <2>3
<1>7. Base' = [store |-> s, lsn |-> l, error |-> FALSE]
  BY <1>2, <1>6 DEF Base
<1> QED BY <1>2, <1>3, <1>4, <1>5, <1>7

LEMMA PrimedLog ==
    ASSUME WalInv'
    PROVE  /\ Log' \in Seq(Record) /\ Len(Log') \in Nat /\ synced' \in 0 .. Len(Log')
           /\ Txs' \in Seq(LoggedTx) /\ Txs' = ScanTo(Log', Len(Log')).txs
           /\ DOMAIN Txs' = 1 .. Len(Txs') /\ Len(Txs') \in Nat
           /\ \A k \in 1 .. Len(Txs') : Txs'[k].lsn < Len(Log') /\ Txs'[k].lsn \in Nat
           /\ \A k \in 0 .. Len(Log') : /\ ScanTo(Log', k).txs \in Seq(LoggedTx)
                                        /\ Extends(ScanTo(Log', k).txs, Txs', k)
<1> DEFINE f == Log'
<1>1. f \in Seq(Record) /\ synced' \in 0 .. Len(f) /\ Txs' = ScanTo(f, Len(f)).txs
  BY DEF WalInv, Log, Txs, Scan
<1> HIDE DEF f
<1>2. Len(f) \in Nat /\ Len(f) \in 0 .. Len(f)
  BY <1>1, LenProperties
<1>3. ScanTo(f, Len(f)) \in Scans
      /\ \A k \in 1 .. Len(ScanTo(f, Len(f)).txs) : ScanTo(f, Len(f)).txs[k].lsn < Len(f)
  BY <1>1, <1>2, ScanTyped
<1>4. Txs' \in Seq(LoggedTx)
  BY <1>1, <1>3 DEF Scans
<1>5. DOMAIN Txs' = 1 .. Len(Txs') /\ Len(Txs') \in Nat
      /\ \A k \in 1 .. Len(Txs') : Txs'[k] \in LoggedTx
  BY <1>4, LenProperties, ElementOfSeq
<1>6. ASSUME NEW k \in 0 .. Len(f)
      PROVE  ScanTo(f, k).txs \in Seq(LoggedTx) /\ Extends(ScanTo(f, k).txs, Txs', k)
  <2>1. ScanTo(f, k) \in Scans
    BY <1>1, ScanTyped
  <2>2. Extends(ScanTo(f, k).txs, ScanTo(f, Len(f)).txs, k)
    BY <1>1, <1>2, ScanGrows
  <2> QED BY <1>1, <2>1, <2>2 DEF Scans
<1> QED BY <1>1, <1>2, <1>3, <1>4, <1>5, <1>6 DEF f, LoggedTx

-----------------------------------------------------------------------------
(* The steps of the partition. *)

(* A step that keeps the log, the snapshots and the timeline. *)
LEMMA Steady ==
    ASSUME WalInv, WalInv', SnapsInv, TimelineInv, RecoveryInv,
           Log' = Log, Txs' = Txs, synced <= synced', snaps' = snaps, policy' = policy,
           timeline' = timeline, durable' = durable, header' = "Missing" => header = "Missing",
           handle' = "Failed" => handle = "Failed" /\ nextLsn' = nextLsn
    PROVE  SnapsInv' /\ TimelineInv' /\ RecoveryInv' /\ Recovered' = Recovered
<1>1. SnapsInv'
  BY DEF SnapsInv, Covers
<1>2. TimelineInv'
  BY DEF TimelineInv
<1>3. Base' = Base
  BY SameBase
<1>4. Recovered' = Recovered
  BY <1>3, RecoveredIs
<1>5. synced \in 0 .. Len(Log) /\ synced' \in 0 .. Len(Log) /\ Len(Log) \in Nat
  BY PrimedLog, WholeLog
<1>6. \A k \in synced' .. Len(Log') : k \in synced .. Len(Log)
  BY <1>5
<1>7. RecoveryInv'
  <2>1. ASSUME NEW k \in synced' .. Len(Log'), \A s \in snaps' : s.lsn <= k
        PROVE  GoodFor(Base', timeline', ScanTo(Log', k).txs,
                       IF policy' = "Sync" \/ k = Len(Log') THEN durable' ELSE 1)
    <3>1. Covers(k) /\ k \in synced .. Len(Log)
      BY <1>6, <2>1 DEF Covers
    <3>2. GoodFor(Base, timeline, At(k), Floor(k))
      BY <3>1 DEF RecoveryInv
    <3> QED BY <1>3, <3>2 DEF At, Floor
  <2>2. ASSUME NEW j \in synced' .. Len(Log'), NEW k \in synced' .. Len(Log'),
               \A s \in snaps' : s.lsn <= j, j <= k
        PROVE  Found(Base', ScanTo(Log', j).txs).store.nextTx
                  <= Found(Base', ScanTo(Log', k).txs).store.nextTx
    <3>1. Covers(j) /\ j \in synced .. Len(Log) /\ k \in synced .. Len(Log)
      BY <1>6, <2>2 DEF Covers
    <3>2. NextAt(j) <= NextAt(k)
      BY <2>2, <3>1 DEF RecoveryInv
    <3> QED BY <1>3, <3>2 DEF NextAt, At
  <2>3. \A i, j \in DOMAIN Txs' : i < j => Txs'[i].tx < Txs'[j].tx
    BY DEF RecoveryInv
  <2> QED BY <2>1, <2>2, <2>3, RecoveryNext
<1> QED BY <1>1, <1>2, <1>4, <1>7


LEMMA TimelineFacts ==
    ASSUME TimelineInv
    PROVE  /\ Len(timeline) \in Nat /\ Len(timeline) >= 1 /\ DOMAIN timeline = 1 .. Len(timeline)
           /\ durable \in 1 .. Len(timeline)
           /\ \A i \in 1 .. Len(timeline) : timeline[i] \in Stores /\ timeline[i].nextTx \in Nat
<1>1. timeline \in Seq(Stores) /\ durable \in 1 .. Len(timeline)
  BY DEF TimelineInv
<1>2. /\ Len(timeline) \in Nat /\ DOMAIN timeline = 1 .. Len(timeline)
      /\ \A i \in 1 .. Len(timeline) : timeline[i] \in Stores
  BY <1>1, LenProperties, ElementOfSeq
<1> QED BY <1>1, <1>2 DEF Stores

(* A commit in memory. *)
LEMMA TimelineGrows ==
    ASSUME TimelineInv, header # "Missing", header' = header, NEW s \in Stores,
           timeline' = Append(timeline, s), timeline[Len(timeline)].nextTx < s.nextTx,
           durable' = durable \/ durable' = Len(timeline')
    PROVE  /\ TimelineInv' /\ Len(timeline') = Len(timeline) + 1
           /\ timeline'[Len(timeline')] = s
           /\ \A i \in 1 .. Len(timeline) : timeline'[i] = timeline[i]
<1> DEFINE n == Len(timeline)
<1>1. /\ n \in Nat /\ n >= 1 /\ durable \in 1 .. n /\ DOMAIN timeline = 1 .. n
      /\ \A i \in 1 .. n : timeline[i].nextTx \in Nat
  BY TimelineFacts
<1>2. timeline \in Seq(Stores)
      /\ \A i, j \in 1 .. n : i < j => timeline[i].nextTx < timeline[j].nextTx
  BY <1>1 DEF TimelineInv
<1>3. /\ timeline' \in Seq(Stores) /\ Len(timeline') = n + 1 /\ timeline'[n + 1] = s
      /\ \A i \in 1 .. n : timeline'[i] = timeline[i]
  BY <1>2, AppendProperties
<1>4. DOMAIN timeline' = 1 .. n + 1
  BY <1>3, LenProperties
<1>5. s.nextTx \in Nat /\ timeline[n].nextTx < s.nextTx
  BY DEF Stores
<1> HIDE DEF n
<1>6. \A i \in 1 .. n : timeline[i].nextTx < s.nextTx
  <2> SUFFICES ASSUME NEW i \in 1 .. n PROVE timeline[i].nextTx < s.nextTx
    OBVIOUS
  <2>1. n \in 1 .. n /\ (i = n \/ i < n)
    BY <1>1
  <2>2. i < n => timeline[i].nextTx < timeline[n].nextTx
    BY <1>2, <2>1
  <2>3. timeline[i].nextTx \in Nat /\ timeline[n].nextTx \in Nat
    BY <1>1, <2>1
  <2> QED BY <1>5, <2>1, <2>2, <2>3
<1>7. ASSUME NEW i \in 1 .. n + 1, NEW j \in 1 .. n + 1, i < j
      PROVE  timeline'[i].nextTx < timeline'[j].nextTx
  <2>1. i \in 1 .. n /\ (j \in 1 .. n \/ j = n + 1)
    BY <1>1, <1>7
  <2>2. CASE j \in 1 .. n
    BY <1>2, <1>3, <1>7, <2>1, <2>2
  <2>3. CASE j = n + 1
    BY <1>3, <1>6, <2>1, <2>3
  <2> QED BY <2>1, <2>2, <2>3
<1>8. durable' \in 1 .. Len(timeline')
  BY <1>1, <1>3
<1>9. TimelineInv'
  BY <1>3, <1>4, <1>7, <1>8 DEF TimelineInv
<1> QED BY <1>3, <1>9 DEF n


(* The transaction of a tick. *)
LEMMA TickTyped ==
    ASSUME StateInv, NEW changes \in Ticks, TickFits(changes)
    PROVE  /\ TickTx(changes) \in Tx /\ TickTx(changes).changes = changes
           /\ TickTx(changes).tx = store.nextTx
           /\ store \in Stores /\ store.nextTx \in Nat
           /\ TickStore(changes) \in Stores /\ TickStore(changes).nextTx = store.nextTx + 1
<1>1. store \in Stores
  BY DEF StateInv, TickFits
<1>2. store.nextTx \in Nat
  BY <1>1 DEF Stores
<1>3. changes \in Seq(Payload)
  <2>1. PICK m \in 0 .. MaxChanges : changes \in [1 .. m -> Payload]
    BY DEF Ticks
  <2>2. m \in Nat
    BY WalAssumption
  <2> QED BY <2>1, <2>2, SeqDef
<1>4. TickTx(changes) \in Tx /\ TickTx(changes).changes = changes
      /\ TickTx(changes).tx = store.nextTx
  BY <1>2, <1>3 DEF TickTx, Tx
<1>5. TickStore(changes) \in Stores /\ TickStore(changes).nextTx = store.nextTx + 1
  <2> DEFINE a == Applied(store, changes)
             s == a.store
  <2>1. a \in Outcomes /\ s.nextTx = store.nextTx
    BY <1>1, <1>3, AppliedTyped
  <2> HIDE DEF a
  <2>2. s \in Stores
    BY <2>1 DEF Outcomes
  <2> HIDE DEF s
  <2>3. AdvanceTx(s, store.nextTx) \in Stores
        /\ AdvanceTx(s, store.nextTx).nextTx = IF store.nextTx + 1 > s.nextTx THEN store.nextTx + 1 ELSE s.nextTx
    BY <1>2, <2>2, AdvanceTxTyped
  <2>4. store.nextTx + 1 > s.nextTx
    BY <1>2, <2>1
  <2>5. AdvanceTx(s, store.nextTx).nextTx = store.nextTx + 1
    BY <2>3, <2>4
  <2> QED BY <2>3, <2>5 DEF TickStore, s, a
<1> QED BY <1>1, <1>2, <1>4, <1>5

(* It is in the log: what recovery would find next. *)
LEMMA TickAdded ==
    ASSUME WalInv, StateInv, OrderInv, handle = "Recovered", NEW changes \in Ticks,
           TickFits(changes), Added(TickTx(changes))
    PROVE  /\ \A i, j \in DOMAIN Txs' : i < j => Txs'[i].tx < Txs'[j].tx
           /\ \A k \in DOMAIN Txs' : Txs'[k].tx < TickStore(changes).nextTx
           /\ snaps' = snaps => ~Recovered'.error /\ Recovered'.store = TickStore(changes)
<1> DEFINE t == TickTx(changes)
           n == Len(Txs)
           x == Logged(t, Log)
<1>1. SnapsInv /\ RecoveryInv /\ MemoryInv /\ store = Recovered.store
  BY DEF OrderInv, MemoryInv
<1>2. /\ t \in Tx /\ t.changes = changes /\ t.tx = store.nextTx /\ store.nextTx \in Nat
      /\ TickStore(changes).nextTx = store.nextTx + 1
  BY TickTyped
<1> HIDE DEF t
<1>3. Added(t)
  BY DEF t
<1>4. /\ Txs \in Seq(LoggedTx) /\ n \in Nat /\ Log \in Seq(Record)
  BY LogFacts
<1>5. x \in LoggedTx /\ x.tx = store.nextTx
  BY <1>2, <1>4, LoggedTyped
<1>6. Txs' = Append(Txs, x)
  BY <1>3 DEF Added
<1>7. ~Recovered.error /\ \A i \in DOMAIN Txs : Txs[i].tx < store.nextTx
  BY <1>1, WholeGood, RecoveredIs DEF GoodFor
<1> HIDE DEF x, n
<1>8. DOMAIN Txs' = 1 .. n + 1 /\ Txs'[n + 1] = x /\ \A i \in 1 .. n : Txs'[i] = Txs[i]
  BY <1>4, <1>5, <1>6, AppendProperties, LenProperties DEF n
<1>9. /\ DOMAIN Txs = 1 .. n
      /\ \A i \in 1 .. n : Txs[i].tx < store.nextTx /\ Txs[i].tx \in Nat
  BY <1>2, <1>7, TxsFacts DEF n
<1>10. \A i, j \in 1 .. n : i < j => Txs[i].tx < Txs[j].tx
  BY <1>1, <1>9 DEF RecoveryInv
<1>11. ASSUME NEW i \in 1 .. n + 1, NEW j \in 1 .. n + 1, i < j PROVE Txs'[i].tx < Txs'[j].tx
  <2>1. i \in 1 .. n /\ (j \in 1 .. n \/ j = n + 1)
    BY <1>4, <1>11 DEF n
  <2>2. CASE j \in 1 .. n
    BY <1>8, <1>10, <1>11, <2>1, <2>2
  <2>3. CASE j = n + 1
    BY <1>5, <1>8, <1>9, <2>1, <2>3
  <2> QED BY <2>1, <2>2, <2>3
<1>12. ASSUME NEW k \in DOMAIN Txs' PROVE Txs'[k].tx < TickStore(changes).nextTx
  <2>1. k \in 1 .. n \/ k = n + 1
    BY <1>4, <1>8 DEF n
  <2>2. CASE k \in 1 .. n
    BY <1>2, <1>8, <1>9, <2>2
  <2>3. CASE k = n + 1
    BY <1>2, <1>5, <1>8, <2>3
  <2> QED BY <2>1, <2>2, <2>3
<1>13. ASSUME snaps' = snaps PROVE ~Recovered'.error /\ Recovered'.store = TickStore(changes)
  <2> DEFINE a == Applied(store, changes)
  <2>1. Recovered' = [store |-> AdvanceTx(a.store, store.nextTx), lsn |-> Base.lsn,
                      error |-> a.error]
    BY <1>1, <1>2, <1>3, <1>7, <1>13, RecoveredAdded
  <2>2. ~a.error /\ TickStore(changes) = AdvanceTx(a.store, store.nextTx)
    BY DEF TickFits, TickStore
  <2> HIDE DEF a
  <2> QED BY <2>1, <2>2
<1> QED BY <1>8, <1>11, <1>12, <1>13

(* A group, or a part of it, behind the log of a partition that is not     *)
(* astray: what recovery would find in any part of the log that is left.   *)
LEMMA GrowStep ==
    ASSUME WalInv, StateInv, OrderInv, handle = "Recovered", NEW changes \in Ticks,
           TickFits(changes), WalInv', Longer(TickTx(changes)),
           Added(TickTx(changes)) \/ Kept,
           snaps' = snaps, policy' = policy, header' = header, synced <= synced',
           timeline' = Append(timeline, TickStore(changes)),
           \/ durable' = durable
           \/ /\ durable' = Len(timeline') /\ Added(TickTx(changes))
              /\ policy = "Sync" => synced' = Len(Log')
    PROVE  /\ TimelineInv' /\ RecoveryInv'
           /\ timeline'[Len(timeline')] = TickStore(changes)
           /\ Recovered'.store.nextTx <= TickStore(changes).nextTx
           /\ Added(TickTx(changes)) => Recovered'.store = TickStore(changes)
           /\ \A r \in snaps' : r.lsn \in Nat /\ r.lsn <= Len(Log) /\ r.lsn <= Len(Log')
<1> DEFINE t == TickTx(changes)
           s == TickStore(changes)
           last == Len(timeline)
           l == Len(Log)
           m == Len(Log')
           to(k) == IF k <= l THEN k ELSE l
<1>1. /\ SnapsInv /\ TimelineInv /\ RecoveryInv /\ MemoryInv /\ header # "Missing"
      /\ store # None /\ store = timeline[last] /\ store = Recovered.store
  BY DEF OrderInv, MemoryInv, WalInv, StateInv
<1>2. /\ store.nextTx \in Nat /\ s \in Stores /\ s.nextTx = store.nextTx + 1
  BY TickTyped
<1>3. timeline[last].nextTx < s.nextTx
  BY <1>1, <1>2
<1>4. /\ TimelineInv' /\ Len(timeline') = last + 1 /\ timeline'[Len(timeline')] = s
      /\ \A i \in 1 .. last : timeline'[i] = timeline[i]
  BY <1>1, <1>2, <1>3, TimelineGrows
<1>5. last \in Nat /\ durable \in 1 .. last
  BY <1>1, TimelineFacts
<1>6. Added(t) => /\ \A i, j \in DOMAIN Txs' : i < j => Txs'[i].tx < Txs'[j].tx
                  /\ \A k \in DOMAIN Txs' : Txs'[k].tx < s.nextTx
                  /\ ~Recovered'.error /\ Recovered'.store = s
  BY TickAdded
<1>7. /\ Base' = Base /\ \A k : (\A r \in snaps' : r.lsn <= k) <=> Covers(k)
  BY SameBase DEF Covers
<1>8. /\ l \in Nat /\ synced \in 0 .. l /\ At(l) = Txs /\ Recovered = Found(Base, At(l))
  BY WholeLog
<1>9. /\ m \in Nat /\ synced' \in 0 .. m /\ Txs' = ScanTo(Log', m).txs
  BY PrimedLog
<1>10. /\ l <= m /\ \A k \in 0 .. l : ScanTo(Log', k).txs = At(k)
       /\ \A k \in l .. m : ScanTo(Log', k).txs = At(l) \/ (k = m /\ Added(t))
  BY <1>8 DEF Longer, At
<1>11. Covers(l)
  BY <1>1 DEF SnapsInv
<1> HIDE DEF t, s, l, m, last
<1>12. ASSUME NEW k \in synced' .. m, ~(k = m /\ Added(t))
       PROVE  /\ ScanTo(Log', k).txs = At(to(k)) /\ to(k) \in synced .. l
              /\ Covers(k) => Covers(to(k))
  <2>1. CASE k <= l
    BY <1>8, <1>9, <1>10, <2>1
  <2>2. CASE ~(k <= l)
    <3>1. to(k) = l /\ k \in l .. m
      BY <1>8, <1>9, <1>10, <2>2
    <3> QED BY <1>8, <1>10, <1>11, <1>12, <3>1
  <2> QED BY <2>1, <2>2
<1>13. \A k \in synced .. l : NextAt(k) \in Nat
  <2> SUFFICES ASSUME NEW k \in synced .. l PROVE NextAt(k) \in Nat
    OBVIOUS
  <2>1. k \in 0 .. Len(Log)
    BY <1>8 DEF l
  <2> QED BY <2>1, AtTyped, FoundTyped DEF NextAt
<1>14. NextAt(l) = store.nextTx
  BY <1>1, <1>8 DEF NextAt
<1>15. Recovered' = Found(Base, Txs')
  BY <1>7, RecoveredIs
<1>16. ASSUME NEW k \in synced' .. m, Covers(k)
       PROVE  GoodFor(Base, timeline', ScanTo(Log', k).txs,
                      IF policy = "Sync" \/ k = m THEN durable' ELSE 1)
  <2> DEFINE e == IF policy = "Sync" \/ k = m THEN durable' ELSE 1
  <2>1. CASE k = m /\ Added(t)
    <3>1. ScanTo(Log', k).txs = Txs' /\ e = durable'
      BY <1>9, <2>1
    <3>2. Len(timeline') \in durable' .. Len(timeline')
      BY <1>4, <1>5
    <3>3. \E i \in e .. Len(timeline') : timeline'[i] = Found(Base, Txs').store
      BY <1>4, <1>6, <1>15, <2>1, <3>1, <3>2
    <3>4. ~Found(Base, Txs').error /\ \A j \in DOMAIN Txs' : Txs'[j].tx < Found(Base, Txs').store.nextTx
      BY <1>6, <1>15, <2>1
    <3> QED BY <3>1, <3>3, <3>4 DEF GoodFor
  <2>2. CASE ~(k = m /\ Added(t))
    <3>1. /\ ScanTo(Log', k).txs = At(to(k)) /\ to(k) \in synced .. l /\ Covers(to(k))
      BY <1>12, <1>16, <2>2
    <3>2. GoodFor(Base, timeline, At(to(k)), Floor(to(k)))
      BY <1>1, <3>1 DEF RecoveryInv, l
    <3>3. Floor(to(k)) \in Nat /\ Floor(to(k)) >= 1 /\ (k = m => to(k) = l)
      BY <1>5, <1>8, <1>9, <1>10 DEF Floor
    <3>4. e \in Nat /\ e >= 1 /\ e <= Floor(to(k))
      <4>1. CASE durable' = durable
        BY <1>5, <3>3, <4>1 DEF Floor, l
      <4>2. CASE durable' = Len(timeline') /\ Added(t) /\ (policy = "Sync" => synced' = Len(Log'))
        <5>1. k # m
          BY <2>2, <4>2
        <5>2. policy # "Sync"
          BY <1>9, <4>2, <5>1 DEF m
        <5> QED BY <3>3, <5>1, <5>2
      <4> QED BY <4>1, <4>2 DEF t
    <3> HIDE DEF e, to
    <3>5. /\ last <= Len(timeline') /\ Len(timeline') \in Nat
      BY <1>4, <1>5
    <3>6. GoodFor(Base, timeline', At(to(k)), e)
      BY <1>4, <1>5, <3>2, <3>3, <3>4, <3>5, GoodLonger DEF last
    <3> QED BY <3>1, <3>6 DEF e
  <2> QED BY <2>1, <2>2
<1>17. ASSUME NEW j \in synced' .. m, NEW k \in synced' .. m, Covers(j), j <= k
       PROVE  Found(Base, ScanTo(Log', j).txs).store.nextTx
                 <= Found(Base, ScanTo(Log', k).txs).store.nextTx
  <2>1. CASE j = m /\ Added(t)
    <3>1. k = j
      BY <1>9, <1>17, <2>1
    <3>2. Found(Base, ScanTo(Log', j).txs).store.nextTx = s.nextTx
      BY <1>6, <1>9, <1>15, <2>1
    <3> QED BY <1>2, <3>1, <3>2
  <2>2. CASE ~(j = m /\ Added(t))
    <3>1. /\ ScanTo(Log', j).txs = At(to(j)) /\ to(j) \in synced .. l /\ Covers(to(j))
      BY <1>12, <1>17, <2>2
    <3>2. CASE k = m /\ Added(t)
      <4>1. Found(Base, ScanTo(Log', k).txs).store.nextTx = s.nextTx
        BY <1>6, <1>9, <1>15, <3>2
      <4>2. NextAt(to(j)) <= NextAt(l)
        BY <1>1, <1>8, <3>1 DEF RecoveryInv, l
      <4>3. NextAt(to(j)) <= s.nextTx
        BY <1>2, <1>13, <1>14, <3>1, <4>2
      <4> QED BY <3>1, <4>1, <4>3 DEF NextAt
    <3>3. CASE ~(k = m /\ Added(t))
      <4>1. /\ ScanTo(Log', k).txs = At(to(k)) /\ to(k) \in synced .. l
        BY <1>12, <3>3
      <4>2. to(j) <= to(k)
        BY <1>8, <1>9, <1>17
      <4>3. NextAt(to(j)) <= NextAt(to(k))
        BY <1>1, <3>1, <4>1, <4>2 DEF RecoveryInv, l
      <4> QED BY <3>1, <4>1, <4>3 DEF NextAt
    <3> QED BY <3>2, <3>3
  <2> QED BY <2>1, <2>2
<1>18. \A i, j \in DOMAIN Txs' : i < j => Txs'[i].tx < Txs'[j].tx
  BY <1>1, <1>6 DEF Kept, RecoveryInv, t
<1>19. RecoveryInv'
  BY <1>7, <1>16, <1>17, <1>18, RecoveryNext DEF m
<1>20. Recovered'.store.nextTx <= s.nextTx
  <2>1. CASE Added(t)
    BY <1>2, <1>6, <2>1
  <2>2. CASE Kept
    <3>1. Recovered' = Recovered
      BY <1>7, <2>2, RecoveredIs DEF Kept
    <3> QED BY <1>1, <1>2, <3>1
  <2> QED BY <2>1, <2>2 DEF t
<1>21. \A r \in snaps' : r.lsn \in Nat /\ r.lsn <= l /\ r.lsn <= m
  BY <1>8, <1>9, <1>10, <1>11 DEF Covers, StateInv
<1> QED BY <1>4, <1>6, <1>19, <1>20, <1>21 DEF s, t, l, m

(* A snapshot that covers all transactions of the log: recovery is done    *)
(* with it.                                                                *)
LEMMA SnapshotRecovery ==
    ASSUME WalInv', TimelineInv', NEW s \in Stores, NEW l,
           Base' = [store |-> s, lsn |-> l, error |-> FALSE],
           \A i \in DOMAIN Txs' : Txs'[i].lsn < l /\ Txs'[i].tx < s.nextTx,
           \A i, j \in DOMAIN Txs' : i < j => Txs'[i].tx < Txs'[j].tx,
           timeline'[Len(timeline')] = s
    PROVE  RecoveryInv' /\ Recovered'.store = s
<1> DEFINE b == [store |-> s, lsn |-> l, error |-> FALSE]
           m == Len(Log')
<1>1. /\ m \in Nat /\ synced' \in 0 .. m /\ Txs' = ScanTo(Log', m).txs
      /\ DOMAIN Txs' = 1 .. Len(Txs') /\ Len(Txs') \in Nat
      /\ \A k \in 0 .. m : /\ ScanTo(Log', k).txs \in Seq(LoggedTx)
                           /\ Extends(ScanTo(Log', k).txs, Txs', k)
  BY PrimedLog
<1>2. b.store = s /\ b.lsn = l /\ ~b.error /\ s.nextTx \in Nat
  BY DEF Stores
<1>3. durable' \in 1 .. Len(timeline') /\ Len(timeline') \in Nat
  BY LenProperties DEF TimelineInv
<1> HIDE DEF b, m
<1>4. ASSUME NEW k \in 0 .. m
      PROVE  /\ Found(b, ScanTo(Log', k).txs) = b
             /\ \A i \in DOMAIN ScanTo(Log', k).txs : ScanTo(Log', k).txs[i].tx < s.nextTx
  <2> DEFINE x == ScanTo(Log', k).txs
  <2>1. x \in Seq(LoggedTx) /\ Extends(x, Txs', k)
    BY <1>1
  <2> HIDE DEF x
  <2>2. Len(x) \in Nat /\ DOMAIN x = 1 .. Len(x)
    BY <2>1, LenProperties
  <2>3. \A i \in 1 .. Len(x) : i \in DOMAIN Txs' /\ x[i] = Txs'[i]
    BY <1>1, <2>1, <2>2 DEF Extends
  <2>4. \A i \in 1 .. Len(x) : x[i].lsn < b.lsn /\ x[i].tx < s.nextTx
    BY <1>2, <2>3
  <2>5. Replayed(b, x, Len(x)) = b
    BY <2>2, <2>4, ReplayCovered
  <2> QED BY <2>2, <2>4, <2>5 DEF Found, x
<1>5. ASSUME NEW k \in 0 .. m, NEW d \in 1 .. Len(timeline')
      PROVE  GoodFor(b, timeline', ScanTo(Log', k).txs, d)
  <2>1. Len(timeline') \in d .. Len(timeline')
    BY <1>3
  <2> QED BY <1>2, <1>4, <2>1 DEF GoodFor
<1>6. \A k \in synced' .. m : k \in 0 .. m
  BY <1>1
<1>7. ASSUME NEW k \in synced' .. m
      PROVE  GoodFor(b, timeline', ScanTo(Log', k).txs,
                     IF policy' = "Sync" \/ k = m THEN durable' ELSE 1)
  <2>1. (IF policy' = "Sync" \/ k = m THEN durable' ELSE 1) \in 1 .. Len(timeline')
    BY <1>3
  <2> QED BY <1>5, <1>6, <2>1
<1>8. ASSUME NEW j \in synced' .. m, NEW k \in synced' .. m
      PROVE  Found(b, ScanTo(Log', j).txs).store.nextTx
                <= Found(b, ScanTo(Log', k).txs).store.nextTx
  BY <1>2, <1>4, <1>6
<1>9. Base' = b
  BY DEF b
<1>10. RecoveryInv'
  BY <1>7, <1>8, <1>9, RecoveryNext DEF m
<1>11. m \in 0 .. m
  BY <1>1
<1>12. Recovered' = b
  BY <1>1, <1>4, <1>9, <1>11, RecoveredIs
<1> QED BY <1>2, <1>10, <1>12

(* Whatever their LSNs, there is a newest snapshot. *)
LEMMA SnapshotsTyped ==
    ASSUME StateInv, NEW s \in Stores, NEW l \in Nat, snaps' = WithSnapshot(l, s)
    PROVE  /\ snaps' \subseteq [lsn : Nat, store : Stores]
           /\ \E r \in snaps' : \A q \in snaps' : q.lsn <= r.lsn
<1> DEFINE new == [lsn |-> l, store |-> s]
<1>1. snaps' = {old \in snaps : old.lsn # l} \cup {new}
  BY DEF WithSnapshot
<1>2. new \in [lsn : Nat, store : Stores] /\ new.lsn = l
  OBVIOUS
<1> HIDE DEF new
<1>3. \A r \in snaps : r \in [lsn : Nat, store : Stores] /\ r.lsn \in Nat
  BY DEF StateInv
<1>4. snaps' \subseteq [lsn : Nat, store : Stores]
  BY <1>1, <1>2, <1>3
<1>5. CASE \A r \in snaps : r.lsn <= l
  <2>1. new \in snaps' /\ \A q \in snaps' : q.lsn <= new.lsn
    BY <1>1, <1>2, <1>5
  <2> QED BY <1>4, <2>1
<1>6. CASE \E r \in snaps : ~(r.lsn <= l)
  <2>1. PICK r \in snaps : ~(r.lsn <= l)
    BY <1>6
  <2>2. PICK x \in snaps : \A q \in snaps : q.lsn <= x.lsn
    BY <2>1 DEF StateInv
  <2>3. x.lsn \in Nat /\ r.lsn \in Nat /\ r.lsn <= x.lsn
    BY <1>3, <2>1, <2>2
  <2>4. l < x.lsn
    BY <2>1, <2>3
  <2>5. x \in snaps' /\ \A q \in snaps' : q.lsn <= x.lsn
    BY <1>1, <1>2, <2>2, <2>3, <2>4
  <2> QED BY <1>4, <2>5
<1> QED BY <1>5, <1>6

(* The tick whose append succeeds, with its snapshot or without. *)
LEMMA TickStep ==
    ASSUME PartitionInv, NEW changes \in Ticks, Tick(changes)
    PROVE  PartitionInv'
<1> DEFINE t == TickTx(changes)
           s == TickStore(changes)
<1>1. /\ TickFits(changes) /\ AppendOk(t) /\ store' = s
      /\ timeline' = Append(timeline, s) /\ durable' = Len(timeline')
      /\ snaps' = WithSnapshot(nextLsn', s) \/ snaps' = snaps
      /\ astray' = astray
  BY DEF Tick
<1>2. /\ handle = "Recovered" /\ header' = header /\ policy' = policy /\ handle' = handle
  BY <1>1 DEF AppendOk, MayAppend
<1>3. WalInv /\ AckInv /\ StateInv /\ (astray = {} => OrderInv)
  BY DEF PartitionInv
<1>4. t \in Tx /\ store.nextTx \in Nat /\ s \in Stores /\ s.nextTx = store.nextTx + 1 /\ s # None
  BY <1>1, <1>3, TickTyped, NoStoreAssumption
<1>5. /\ WalInv' /\ Added(t) /\ Longer(t) /\ synced <= synced'
      /\ policy = "Sync" => synced' = Len(Log')
      /\ nextLsn' = Len(Log')
  BY <1>1, <1>3, <1>4, AppendOkWal
<1>6. AckInv'
  BY <1>1, <1>3, <1>4, AckAppendOk
<1>7. Len(Log') \in Nat
  BY <1>5, PrimedLog
<1>8. StateInv'
  <2>1. CASE snaps' = snaps
    BY <1>1, <1>2, <1>3, <1>4, <2>1 DEF StateInv
  <2>2. CASE snaps' = WithSnapshot(nextLsn', s)
    <3>1. /\ snaps' \subseteq [lsn : Nat, store : Stores]
          /\ \E r \in snaps' : \A q \in snaps' : q.lsn <= r.lsn
      BY <1>3, <1>4, <1>5, <1>7, <2>2, SnapshotsTyped
    <3> QED BY <1>1, <1>2, <1>4, <3>1 DEF StateInv
  <2> QED BY <1>1, <2>1, <2>2
<1>9. ASSUME astray' = {} PROVE OrderInv'
  <2>1. OrderInv /\ SnapsInv /\ TimelineInv /\ MemoryInv
    BY <1>1, <1>3, <1>9 DEF OrderInv
  <2>2. CASE snaps' = snaps
    <3>1. /\ TimelineInv' /\ RecoveryInv' /\ timeline'[Len(timeline')] = s
          /\ Recovered'.store.nextTx <= s.nextTx /\ Recovered'.store = s
          /\ \A r \in snaps' : r.lsn <= Len(Log')
      BY <1>1, <1>2, <1>3, <1>5, <2>1, <2>2, GrowStep
    <3> QED BY <1>1, <1>2, <3>1 DEF OrderInv, SnapsInv, Covers, MemoryInv
  <2>3. CASE snaps' = WithSnapshot(nextLsn', s)
    <3>1. /\ \A i, j \in DOMAIN Txs' : i < j => Txs'[i].tx < Txs'[j].tx
          /\ \A k \in DOMAIN Txs' : Txs'[k].tx < s.nextTx
      BY <1>1, <1>2, <1>3, <1>5, <2>1, TickAdded
    <3>2. store = timeline[Len(timeline)] /\ header # "Missing"
      BY <1>2, <1>3, <2>1 DEF MemoryInv, StateInv, WalInv
    <3>3. timeline[Len(timeline)].nextTx < s.nextTx
      BY <1>4, <3>2
    <3>4. TimelineInv' /\ timeline'[Len(timeline')] = s
      BY <1>1, <1>2, <1>4, <2>1, <3>2, <3>3, TimelineGrows
    <3>5. \A r \in snaps : r.lsn <= Len(Log')
      <4>1. \A r \in snaps : r.lsn <= Len(Log) /\ r.lsn \in Nat
        BY <1>3, <2>1 DEF SnapsInv, Covers, StateInv
      <4>2. Len(Log) \in Nat /\ Len(Log) <= Len(Log')
        BY <1>3, <1>5, LogFacts DEF Longer
      <4> QED BY <1>7, <4>1, <4>2
    <3> HIDE DEF s
    <3>6. /\ \A r \in snaps' : r.lsn <= Len(Log')
          /\ Base' = [store |-> s, lsn |-> Len(Log'), error |-> FALSE]
      BY <1>3, <1>4, <1>5, <1>7, <2>3, <3>5, NewSnapshot
    <3>7. \A i \in DOMAIN Txs' : Txs'[i].lsn < Len(Log')
      BY <1>5, PrimedLog
    <3>8. RecoveryInv' /\ Recovered'.store = s
      BY <1>4, <1>5, <3>1, <3>4, <3>6, <3>7, SnapshotRecovery
    <3>9. s.nextTx <= s.nextTx
      BY <1>4
    <3> QED BY <1>1, <1>2, <3>4, <3>6, <3>8, <3>9 DEF OrderInv, SnapsInv, Covers, MemoryInv
  <2> QED BY <1>1, <2>2, <2>3
<1> QED BY <1>5, <1>6, <1>8, <1>9 DEF PartitionInv

(* The tick that is committed in memory and not durable. *)
LEMMA TickNotPersistedStep ==
    ASSUME PartitionInv, NEW changes \in Ticks, NEW n \in 0 .. Len(changes) + 2,
           NEW tail \in Tails, TickNotPersisted(changes, n, tail)
    PROVE  PartitionInv'
<1> DEFINE t == TickTx(changes)
           s == TickStore(changes)
<1>1. /\ TickFits(changes) /\ AppendFails(t, n, tail) /\ store' = s
      /\ timeline' = Append(timeline, s) /\ durable' = durable /\ snaps' = snaps
      /\ astray' = astray
  BY DEF TickNotPersisted
<1>2. /\ handle = "Recovered" /\ header' = header /\ policy' = policy /\ handle' = "Failed"
      /\ acked' = acked /\ synced' = synced
  BY <1>1 DEF AppendFails, MayAppend
<1>3. WalInv /\ AckInv /\ StateInv /\ (astray = {} => OrderInv)
  BY DEF PartitionInv
<1>4. t \in Tx /\ t.changes = changes /\ s \in Stores /\ s # None
  BY <1>1, <1>3, TickTyped, NoStoreAssumption
<1>5. n \in 0 .. Len(t.changes) + 2
  BY <1>4
<1>6. WalInv' /\ (Added(t) \/ Kept) /\ Longer(t) /\ nextLsn' = Len(Log)
  <2> HIDE DEF t
  <2> QED BY <1>1, <1>3, <1>4, <1>5, AppendFailsWal
<1>7. AckInv'
  BY <1>2, <1>3, <1>4, <1>6, AckMore
<1>8. StateInv'
  BY <1>1, <1>2, <1>3, <1>4 DEF StateInv
<1>9. ASSUME astray' = {} PROVE OrderInv'
  <2>1. OrderInv
    BY <1>1, <1>3, <1>9
  <2>2. synced <= synced'
    BY <1>2, <1>3, TxsFacts
  <2>3. /\ TimelineInv' /\ RecoveryInv' /\ timeline'[Len(timeline')] = s
        /\ Recovered'.store.nextTx <= s.nextTx
        /\ \A r \in snaps' : r.lsn <= Len(Log) /\ r.lsn <= Len(Log')
    BY <1>1, <1>2, <1>3, <1>6, <2>1, <2>2, GrowStep
  <2> QED BY <1>1, <1>2, <1>6, <2>3 DEF OrderInv, SnapsInv, Covers, MemoryInv
<1> QED BY <1>6, <1>7, <1>8, <1>9 DEF PartitionInv

LEMMA CrashInTickStep ==
    ASSUME PartitionInv, NEW changes \in Ticks, NEW n \in 0 .. Len(changes) + 2,
           NEW tail \in Tails, CrashInTick(changes, n, tail)
    PROVE  PartitionInv'
<1> DEFINE t == TickTx(changes)
           s == TickStore(changes)
<1>1. /\ TickFits(changes) /\ CrashInAppend(t, n, tail) /\ store' = None
      /\ timeline' = Append(timeline, s) /\ durable' = durable /\ snaps' = snaps
      /\ astray' = astray
  BY DEF CrashInTick, LoseMemory
<1>2. /\ handle = "Recovered" /\ header' = header /\ policy' = policy /\ handle' = "Closed"
      /\ acked' = acked /\ synced' = synced
  BY <1>1 DEF CrashInAppend, MayAppend
<1>3. WalInv /\ AckInv /\ StateInv /\ (astray = {} => OrderInv)
  BY DEF PartitionInv
<1>4. t \in Tx /\ t.changes = changes
  BY <1>1, <1>3, TickTyped
<1>5. n \in 0 .. Len(t.changes) + 2
  BY <1>4
<1>6. WalInv' /\ (Added(t) \/ Kept) /\ Longer(t)
  <2> HIDE DEF t
  <2> QED BY <1>1, <1>3, <1>4, <1>5, CrashInAppendWal
<1>7. AckInv'
  BY <1>2, <1>3, <1>4, <1>6, AckMore
<1>8. StateInv'
  BY <1>1, <1>2, <1>3 DEF StateInv
<1>9. ASSUME astray' = {} PROVE OrderInv'
  <2>1. OrderInv
    BY <1>1, <1>3, <1>9
  <2>2. synced <= synced'
    BY <1>2, <1>3, TxsFacts
  <2>3. /\ TimelineInv' /\ RecoveryInv'
        /\ \A r \in snaps' : r.lsn <= Len(Log')
    BY <1>1, <1>2, <1>3, <1>6, <2>1, <2>2, GrowStep
  <2> QED BY <1>1, <1>2, <2>3 DEF OrderInv, SnapsInv, Covers, MemoryInv
<1> QED BY <1>6, <1>7, <1>8, <1>9 DEF PartitionInv

(* A snapshot through the API, of a Failed partition too. *)
LEMMA SnapshotStep ==
    ASSUME PartitionInv, SnapshotPartition
    PROVE  PartitionInv'
<1>1. /\ store # None /\ snaps' = WithSnapshot(nextLsn, store)
      /\ store' = store /\ timeline' = timeline /\ durable' = durable
      /\ header' = header /\ file' = file /\ synced' = synced /\ policy' = policy
      /\ handle' = handle /\ nextLsn' = nextLsn /\ cursor' = cursor /\ acked' = acked
      /\ astray' = IF \E t \in ToSet(Scan(file).txs) : t.lsn >= nextLsn
                   THEN astray \cup {"Again"} ELSE astray
  BY DEF SnapshotPartition, walVars, disk, wal, memory
<1>2. WalInv /\ AckInv /\ StateInv /\ (astray = {} => OrderInv)
  BY DEF PartitionInv
<1>3. store \in Stores /\ handle \in {"Recovered", "Failed"} /\ store.nextTx \in Nat
  BY <1>1, <1>2 DEF StateInv, Stores
<1>4. Log' = Log /\ Txs' = Txs /\ Scan(file)' = Scan(file)
      /\ RecoveredTxs(file)' = RecoveredTxs(file)
  BY <1>1, SameLog
<1>5. WalInv'
  BY <1>1, <1>2, <1>4 DEF WalInv, Ready
<1>6. AckInv'
  BY <1>1, <1>2, <1>4 DEF AckInv, AckedAreRecovered
<1>7. Len(Log) \in Nat /\ nextLsn \in Nat /\ nextLsn <= Len(Log)
      /\ (handle = "Recovered" => nextLsn = Len(Log))
  <2>1. Len(Log) \in Nat /\ (Ready => file = Log)
    BY <1>2, LogFacts
  <2>2. CASE handle = "Recovered"
    BY <1>2, <2>1, <2>2 DEF WalInv, Ready
  <2>3. CASE handle = "Failed"
    BY <1>2, <2>1, <2>3 DEF WalInv
  <2> QED BY <1>3, <2>2, <2>3
<1>8. StateInv'
  <2>1. /\ snaps' \subseteq [lsn : Nat, store : Stores]
        /\ \E r \in snaps' : \A q \in snaps' : q.lsn <= r.lsn
    BY <1>1, <1>2, <1>3, <1>7, SnapshotsTyped
  <2> QED BY <1>1, <1>2, <2>1 DEF StateInv
<1>9. ASSUME astray' = {} PROVE OrderInv'
  <2>1. /\ astray = {} /\ ~\E t \in ToSet(Txs) : t.lsn >= nextLsn
    BY <1>1, <1>9 DEF Txs
  <2>2. SnapsInv /\ TimelineInv /\ RecoveryInv /\ MemoryInv
    BY <1>2, <2>1 DEF OrderInv
  <2>3. \A r \in snaps : r.lsn <= nextLsn
    BY <1>3, <1>7, <2>2 DEF SnapsInv, Covers
  <2>4. /\ Base' = [store |-> store, lsn |-> nextLsn, error |-> FALSE]
        /\ \A r \in snaps' : r.lsn <= nextLsn /\ r.lsn \in Nat
    BY <1>1, <1>2, <1>3, <1>7, <2>3, NewSnapshot
  <2>5. /\ DOMAIN Txs = 1 .. Len(Txs)
        /\ \A i \in 1 .. Len(Txs) : Txs[i].lsn \in Nat /\ Txs[i].tx \in Nat
    BY <1>2, TxsFacts
  <2>6. \A i \in DOMAIN Txs : Txs[i].lsn < nextLsn
    <3>1. \A i \in DOMAIN Txs : Txs[i] \in ToSet(Txs)
      BY DEF ToSet
    <3> QED BY <1>7, <2>1, <2>5, <3>1
  <2>7. \A i \in DOMAIN Txs : Txs[i].tx < store.nextTx
    <3>1. \A i \in DOMAIN Txs : Txs[i].tx < Recovered.store.nextTx
      BY <1>2, <2>2, WholeGood, RecoveredIs DEF GoodFor
    <3>2. Recovered.store.nextTx <= store.nextTx /\ Recovered.store.nextTx \in Nat
      BY <1>1, <1>2, <2>2, RecoveredTyped DEF MemoryInv
    <3> QED BY <1>3, <2>5, <3>1, <3>2
  <2>8. header # "Missing"
    BY <1>2, <1>3 DEF WalInv
  <2>9. TimelineInv'
    BY <1>1, <2>2, <2>8 DEF TimelineInv
  <2>10. timeline'[Len(timeline')] = store
    BY <1>1, <2>2 DEF MemoryInv
  <2>11. RecoveryInv' /\ Recovered'.store = store
    <3>1. \A i, j \in DOMAIN Txs : i < j => Txs[i].tx < Txs[j].tx
      BY <2>2 DEF RecoveryInv
    <3> QED BY <1>3, <1>4, <1>5, <2>4, <2>6, <2>7, <2>9, <2>10, <3>1, SnapshotRecovery
  <2>12. SnapsInv'
    <3>1. \A r \in snaps' : r.lsn <= nextLsn /\ r.lsn <= Len(Log)
      BY <1>7, <2>4
    <3> QED BY <1>1, <1>4, <3>1 DEF SnapsInv, Covers
  <2>13. store.nextTx <= store.nextTx
    BY <1>3
  <2> QED BY <1>1, <2>9, <2>10, <2>11, <2>12, <2>13 DEF OrderInv, MemoryInv
<1> QED BY <1>5, <1>6, <1>8, <1>9 DEF PartitionInv

(* The end of a handle and of what is in memory; the files stay. *)
LEMMA CloseStep ==
    ASSUME PartitionInv, handle' = "Closed", store' = None, file' = file, synced' = synced,
           policy' = policy, acked' = acked, snaps' = snaps, timeline' = timeline,
           durable' = durable, astray' = astray,
           header' = header \/ (header = "Missing" /\ header' \in {"Empty", "Short"})
    PROVE  PartitionInv'
<1>1. WalInv /\ AckInv /\ StateInv /\ (astray = {} => OrderInv)
  BY DEF PartitionInv
<1>2. WalInv' /\ Log' = Log /\ Txs' = Txs
  BY <1>1, CloseWal
<1>3. synced \in Nat /\ synced <= synced'
  BY <1>1, TxsFacts
<1>4. AckInv'
  BY <1>1, <1>2, <1>3, AckKept
<1>5. StateInv'
  BY <1>1 DEF StateInv
<1>6. ASSUME astray' = {} PROVE OrderInv'
  <2>1. SnapsInv /\ TimelineInv /\ RecoveryInv
    BY <1>1, <1>6 DEF OrderInv
  <2>2. SnapsInv' /\ TimelineInv' /\ RecoveryInv'
    BY <1>1, <1>2, <1>3, <2>1, Steady
  <2> QED BY <2>2 DEF OrderInv, MemoryInv
<1> QED BY <1>2, <1>4, <1>5, <1>6 DEF PartitionInv

LEMMA CreateStep ==
    ASSUME PartitionInv, CreatePartition
    PROVE  PartitionInv'
<1>1. /\ Create /\ header = "Missing" /\ header' = "Valid" /\ handle' = "Recovered"
      /\ store' = EmptyStore /\ policy' = policy /\ acked' = acked
      /\ snaps' = snaps /\ timeline' = timeline /\ durable' = durable /\ astray' = astray
  BY DEF CreatePartition, Create, history
<1>2. WalInv /\ AckInv /\ StateInv /\ (astray = {} => OrderInv)
  BY DEF PartitionInv
<1>3. WalInv' /\ Log' = Log /\ Txs' = Txs /\ synced' = synced
  BY <1>1, <1>2, CreateWal
<1>4. synced \in Nat /\ synced <= synced'
  BY <1>2, <1>3, TxsFacts
<1>5. AckInv'
  BY <1>1, <1>2, <1>3, <1>4, AckKept
<1>6. EmptyStore \in Stores /\ EmptyStore # None /\ EmptyStore.nextTx <= EmptyStore.nextTx
  BY EmptyStoreTyped, NoStoreAssumption
<1>7. StateInv'
  BY <1>1, <1>2, <1>6 DEF StateInv
<1>8. ASSUME astray' = {} PROVE OrderInv'
  <2>1. SnapsInv /\ TimelineInv /\ RecoveryInv
    BY <1>1, <1>2, <1>8 DEF OrderInv
  <2>2. SnapsInv' /\ TimelineInv' /\ RecoveryInv' /\ Recovered' = Recovered
    BY <1>1, <1>2, <1>3, <1>4, <2>1, Steady
  <2>3. timeline = <<EmptyStore>> /\ durable = 1
    BY <1>1, <2>1 DEF TimelineInv
  <2>4. Recovered.store = EmptyStore
    <3>1. PICK i \in durable .. Len(timeline) : timeline[i] = Recovered.store
      BY <1>2, <2>1, WholeGood, RecoveredIs DEF GoodFor
    <3>2. i = 1 /\ timeline[1] = EmptyStore
      BY <2>3
    <3> QED BY <3>1, <3>2
  <2>5. timeline'[Len(timeline')] = EmptyStore
    BY <1>1, <2>3
  <2> QED BY <1>1, <1>6, <2>2, <2>4, <2>5 DEF OrderInv, MemoryInv
<1> QED BY <1>3, <1>5, <1>7, <1>8 DEF PartitionInv

LEMMA OpenStep ==
    ASSUME PartitionInv, OpenLog
    PROVE  PartitionInv'
<1>1. /\ Open /\ handle = "Closed" /\ handle' = "Opened" /\ header' = "Valid"
      /\ store' = store /\ policy' = policy /\ acked' = acked
      /\ snaps' = snaps /\ timeline' = timeline /\ durable' = durable /\ astray' = astray
  BY DEF OpenLog, Open, history, memory
<1>2. WalInv /\ AckInv /\ StateInv /\ (astray = {} => OrderInv)
  BY DEF PartitionInv
<1>3. WalInv' /\ Log' = Log /\ Txs' = Txs /\ synced <= synced'
  BY <1>1, <1>2, OpenWal
<1>4. synced' \in Nat
  BY <1>3, PrimedLog
<1>5. AckInv'
  BY <1>1, <1>2, <1>3, <1>4, AckKept
<1>6. store = None
  BY <1>1, <1>2 DEF StateInv
<1>7. StateInv'
  BY <1>1, <1>2, <1>6 DEF StateInv
<1>8. ASSUME astray' = {} PROVE OrderInv'
  <2>1. SnapsInv /\ TimelineInv /\ RecoveryInv
    BY <1>1, <1>2, <1>8 DEF OrderInv
  <2>2. SnapsInv' /\ TimelineInv' /\ RecoveryInv'
    BY <1>1, <1>2, <1>3, <2>1, Steady
  <2> QED BY <1>1, <1>6, <2>2 DEF OrderInv, MemoryInv
<1> QED BY <1>3, <1>5, <1>7, <1>8 DEF PartitionInv

(* The store that recovery found is at one place of the timeline, and what *)
(* lies behind it never was.                                               *)
LEMMA TimelineCut ==
    ASSUME TimelineInv, NEW d \in durable .. Len(timeline), timeline[d] = Recovered.store,
           header # "Missing", header' = header, durable' = durable,
           LET known == {i \in DOMAIN timeline : timeline[i] = Recovered.store}
           IN  timeline' = IF known = {} THEN Append(timeline, Recovered.store)
                           ELSE SubSeq(timeline, 1, CHOOSE i \in known : TRUE)
    PROVE  /\ TimelineInv' /\ timeline'[Len(timeline')] = Recovered.store
           /\ Len(timeline') = d /\ \A i \in 1 .. d : timeline'[i] = timeline[i]
<1> DEFINE known == {i \in DOMAIN timeline : timeline[i] = Recovered.store}
           c == CHOOSE i \in known : TRUE
<1>1. /\ Len(timeline) \in Nat /\ DOMAIN timeline = 1 .. Len(timeline)
      /\ durable \in 1 .. Len(timeline)
      /\ \A i \in 1 .. Len(timeline) : timeline[i].nextTx \in Nat
  BY TimelineFacts
<1>2. /\ timeline \in Seq(Stores)
      /\ \A i, j \in 1 .. Len(timeline) : i < j => timeline[i].nextTx < timeline[j].nextTx
  BY <1>1 DEF TimelineInv
<1>3. d \in 1 .. Len(timeline) /\ d \in known
  BY <1>1
<1>4. c \in known /\ timeline' = SubSeq(timeline, 1, c)
  BY <1>3
<1>5. c \in 1 .. Len(timeline) /\ timeline[c] = Recovered.store
  BY <1>1, <1>4
<1> HIDE DEF c
<1>6. c = d
  <2>1. timeline[c].nextTx = timeline[d].nextTx /\ timeline[c].nextTx \in Nat
    BY <1>1, <1>5
  <2>2. ~(c < d) /\ ~(d < c)
    BY <1>2, <1>3, <1>5, <2>1
  <2> QED BY <1>3, <1>5, <2>2
<1>7. /\ timeline' \in Seq(Stores) /\ Len(timeline') = d
      /\ \A i \in 1 .. d : timeline'[i] = timeline[i]
  <2>1. d \in 0 .. Len(timeline) /\ timeline \in Seq(Stores)
    BY <1>2, <1>3
  <2>2. /\ SubSeq(timeline, 1, d) \in Seq(Stores) /\ Len(SubSeq(timeline, 1, d)) = d
        /\ \A i \in 1 .. d : SubSeq(timeline, 1, d)[i] = timeline[i]
    BY <2>1, Prefix
  <2> QED BY <1>4, <1>6, <2>2
<1>8. DOMAIN timeline' = 1 .. d /\ d \in Nat
  BY <1>3, <1>7, LenProperties
<1>9. durable' \in 1 .. Len(timeline')
  BY <1>1, <1>7
<1>10. timeline'[Len(timeline')] = Recovered.store
  <2>1. d \in 1 .. d /\ timeline'[d] = timeline[d]
    BY <1>3, <1>7
  <2> QED BY <1>7, <2>1
<1>11. \A i, j \in 1 .. d : i < j => timeline'[i].nextTx < timeline'[j].nextTx
  <2>1. \A i \in 1 .. d : i \in 1 .. Len(timeline)
    BY <1>1, <1>3
  <2> QED BY <1>2, <1>7, <2>1
<1>12. TimelineInv'
  <2>1. timeline' \in Seq(Stores) /\ durable' \in 1 .. Len(timeline')
    BY <1>7, <1>9
  <2>2. \A i, j \in DOMAIN timeline' : i < j => timeline'[i].nextTx < timeline'[j].nextTx
    BY <1>8, <1>11
  <2>3. header' # "Missing"
    OBVIOUS
  <2> QED BY <2>1, <2>2, <2>3 DEF TimelineInv
<1> QED BY <1>7, <1>10, <1>12

LEMMA RecoverStep ==
    ASSUME PartitionInv, RecoverPartition
    PROVE  PartitionInv'
<1>1. /\ RecoverChanges /\ handle = "Opened" /\ handle' = "Recovered" /\ store' = Recovered.store
      /\ header' = header /\ policy' = policy /\ acked' = acked /\ snaps' = snaps
      /\ durable' = durable /\ astray' = astray
  BY DEF RecoverPartition, RecoverChanges, disk
<1>2. WalInv /\ AckInv /\ StateInv /\ (astray = {} => OrderInv) /\ header # "Missing"
  BY <1>1 DEF PartitionInv, WalInv
<1>3. WalInv' /\ Log' = Log /\ Txs' = Txs /\ file' = file /\ synced' = synced
  BY <1>1, <1>2, RecoverChangesWal
<1>4. synced \in Nat /\ synced <= synced'
  BY <1>2, <1>3, TxsFacts
<1>5. AckInv'
  BY <1>1, <1>2, <1>3, <1>4, AckKept
<1>6. /\ Recovered.store \in Stores /\ Recovered.store # None
      /\ Recovered.store.nextTx \in Nat /\ Recovered.store.nextTx <= Recovered.store.nextTx
  BY <1>2, RecoveredTyped, NoStoreAssumption
<1>7. StateInv'
  BY <1>1, <1>2, <1>6 DEF StateInv
<1>8. ASSUME astray' = {} PROVE OrderInv'
  <2>1. SnapsInv /\ TimelineInv /\ RecoveryInv
    BY <1>1, <1>2, <1>8 DEF OrderInv
  <2>2. PICK d \in durable .. Len(timeline) : timeline[d] = Recovered.store
    BY <1>2, <2>1, WholeGood, RecoveredIs DEF GoodFor
  <2>3. /\ TimelineInv' /\ timeline'[Len(timeline')] = Recovered.store
        /\ Len(timeline') = d /\ \A i \in 1 .. d : timeline'[i] = timeline[i]
    BY <1>1, <1>2, <2>1, <2>2, TimelineCut DEF RecoverPartition
  <2>4. Base' = Base /\ Recovered' = Recovered
    BY <1>1, <1>3, SameBase, RecoveredIs
  <2>5. /\ Len(timeline) \in Nat /\ durable \in 1 .. Len(timeline)
        /\ \A i \in 1 .. Len(timeline) : timeline[i].nextTx \in Nat
        /\ \A i, j \in 1 .. Len(timeline) : i < j => timeline[i].nextTx < timeline[j].nextTx
    BY <2>1, TimelineFacts DEF TimelineInv
  <2>6. /\ Len(Log) \in Nat /\ Len(Log) \in synced .. Len(Log)
        /\ NextAt(Len(Log)) = Recovered.store.nextTx
    BY <1>2, WholeLog DEF NextAt
  <2>7. ASSUME NEW k \in synced .. Len(Log), Covers(k)
        PROVE  GoodFor(Base, timeline', At(k), Floor(k))
    <3>1. GoodFor(Base, timeline, At(k), Floor(k))
      BY <2>1, <2>7 DEF RecoveryInv
    <3>2. PICK i \in Floor(k) .. Len(timeline) : timeline[i] = Found(Base, At(k)).store
      BY <3>1 DEF GoodFor
    <3>3. i \in 1 .. Len(timeline) /\ Floor(k) \in Nat
      BY <2>5, <3>2 DEF Floor
    <3>4. NextAt(k) <= NextAt(Len(Log))
      BY <1>4, <2>1, <2>6, <2>7 DEF RecoveryInv
    <3>5. timeline[i].nextTx <= timeline[d].nextTx
      BY <2>2, <2>6, <3>2, <3>4 DEF NextAt
    <3>6. i <= d
      <4>1. d \in 1 .. Len(timeline)
        BY <2>5
      <4>2. timeline[i].nextTx \in Nat /\ timeline[d].nextTx \in Nat
        BY <2>5, <3>3, <4>1
      <4>3. ~(d < i)
        BY <2>5, <3>3, <3>5, <4>1, <4>2
      <4> QED BY <3>3, <4>1, <4>3
    <3>7. i \in Floor(k) .. Len(timeline') /\ timeline'[i] = Found(Base, At(k)).store
      BY <2>3, <3>2, <3>3, <3>6
    <3> QED BY <3>1, <3>7 DEF GoodFor
  <2>8. RecoveryInv'
    <3>1. ASSUME NEW k \in synced .. Len(Log), \A r \in snaps : r.lsn <= k
          PROVE  GoodFor(Base, timeline', ScanTo(Log, k).txs,
                         IF policy = "Sync" \/ k = Len(Log) THEN durable ELSE 1)
      <4>1. Covers(k)
        BY <3>1 DEF Covers
      <4> QED BY <2>7, <4>1 DEF At, Floor
    <3>2. ASSUME NEW j \in synced .. Len(Log), NEW k \in synced .. Len(Log),
                 \A r \in snaps : r.lsn <= j, j <= k
          PROVE  Found(Base, ScanTo(Log, j).txs).store.nextTx
                    <= Found(Base, ScanTo(Log, k).txs).store.nextTx
      <4>1. Covers(j)
        BY <3>2 DEF Covers
      <4>2. NextAt(j) <= NextAt(k)
        BY <2>1, <3>2, <4>1 DEF RecoveryInv
      <4> QED BY <4>2 DEF NextAt, At
    <3>3. \A i, j \in DOMAIN Txs : i < j => Txs[i].tx < Txs[j].tx
      BY <2>1 DEF RecoveryInv
    <3> QED BY <1>1, <1>3, <2>4, <3>1, <3>2, <3>3, RecoveryNext
  <2>9. SnapsInv'
    BY <1>1, <1>3, <2>1 DEF SnapsInv, Covers
  <2> QED BY <1>1, <1>6, <2>3, <2>4, <2>8, <2>9 DEF OrderInv, MemoryInv
<1> QED BY <1>3, <1>5, <1>7, <1>8 DEF PartitionInv

(* What a power loss leaves was a part of the log: if it covers the        *)
(* snapshots, recovery finds what it would have found in that part.        *)
LEMMA PowerLossStep ==
    ASSUME PartitionInv, NEW n \in 0 .. Len(file), NEW tail \in Tails,
           PowerLossPartition(n, tail)
    PROVE  PartitionInv'
<1>1. /\ PowerLoss(n, tail) /\ handle' = "Closed" /\ header' = header /\ policy' = policy
      /\ store' = None /\ snaps' = snaps /\ timeline' = timeline
      /\ durable' = (IF policy = "Sync" THEN durable ELSE 1)
      /\ astray' = IF \E s \in snaps : s.lsn > Len(ValidPrefix(file'))
                   THEN astray \cup {"Lost"} ELSE astray
  BY DEF PowerLossPartition, PowerLoss, Die, LoseMemory
<1>2. WalInv /\ AckInv /\ StateInv /\ (astray = {} => OrderInv)
  BY DEF PartitionInv
<1>3. /\ WalInv' /\ synced' = synced /\ \E m \in 0 .. Len(Log) : Cut(m)
  BY <1>1, <1>2, PowerLossWal
<1>4. AckInv'
  BY <1>1, <1>2, AckPowerLoss
<1>5. StateInv'
  BY <1>1, <1>2 DEF StateInv
<1>6. ASSUME astray' = {} PROVE OrderInv'
  <2>1. astray = {} /\ ~\E s \in snaps : s.lsn > Len(Log')
    BY <1>1, <1>6 DEF Log
  <2>2. SnapsInv /\ TimelineInv /\ RecoveryInv
    BY <1>2, <2>1 DEF OrderInv
  <2>3. PICK m \in 0 .. Len(Log) : Cut(m)
    BY <1>3
  <2>4. /\ synced <= m /\ Len(Log') = m /\ m <= Len(Log)
        /\ Txs' = At(m) /\ Extends(Txs', Txs, m) /\ Txs' \in Seq(LoggedTx)
        /\ \A k \in 0 .. m : ScanTo(Log', k).txs = At(k)
    BY <2>3 DEF Cut, At
  <2>5. Len(Log) \in Nat /\ synced \in 0 .. Len(Log)
    BY <1>2, WholeLog
  <2>6. \A s \in snaps : s.lsn <= m
    BY <1>2, <2>1, <2>4 DEF StateInv
  <2>7. SnapsInv'
    BY <1>1, <2>4, <2>6 DEF SnapsInv, Covers
  <2>8. /\ Len(timeline) \in Nat /\ durable \in 1 .. Len(timeline)
    BY <2>2, TimelineFacts
  <2>9. TimelineInv'
    <3>1. durable' \in 1 .. Len(timeline)
      BY <1>1, <2>8
    <3> QED BY <1>1, <2>2, <3>1 DEF TimelineInv
  <2>10. Base' = Base
    BY <1>1, SameBase
  <2>11. \A k \in synced .. m : k \in 0 .. m /\ k \in synced .. Len(Log)
    BY <2>4, <2>5
  <2>12. ASSUME NEW k \in synced .. m, \A s \in snaps : s.lsn <= k
         PROVE  GoodFor(Base, timeline, ScanTo(Log', k).txs,
                        IF policy = "Sync" \/ k = m THEN durable' ELSE 1)
    <3> DEFINE e == IF policy = "Sync" \/ k = m THEN durable' ELSE 1
    <3>1. Covers(k)
      BY <2>12 DEF Covers
    <3>2. GoodFor(Base, timeline, At(k), Floor(k))
      BY <2>2, <2>11, <3>1 DEF RecoveryInv
    <3>3. /\ Floor(k) \in Nat /\ Floor(k) >= 1 /\ e \in Nat /\ e >= 1 /\ e <= Floor(k)
      BY <1>1, <2>8 DEF Floor
    <3> HIDE DEF e
    <3>4. Len(timeline) <= Len(timeline)
      BY <2>8
    <3>5. GoodFor(Base, timeline, At(k), e)
      BY <2>8, <3>2, <3>3, <3>4, GoodLonger
    <3> QED BY <2>4, <2>11, <3>5 DEF e
  <2>13. ASSUME NEW j \in synced .. m, NEW k \in synced .. m,
                \A s \in snaps : s.lsn <= j, j <= k
         PROVE  Found(Base, ScanTo(Log', j).txs).store.nextTx
                   <= Found(Base, ScanTo(Log', k).txs).store.nextTx
    <3>1. Covers(j)
      BY <2>13 DEF Covers
    <3>2. NextAt(j) <= NextAt(k)
      BY <2>2, <2>11, <2>13, <3>1 DEF RecoveryInv
    <3> QED BY <2>4, <2>11, <3>2 DEF NextAt
  <2>14. \A i, j \in DOMAIN Txs' : i < j => Txs'[i].tx < Txs'[j].tx
    <3>1. /\ DOMAIN Txs' = 1 .. Len(Txs') /\ Len(Txs') \in Nat
          /\ DOMAIN Txs = 1 .. Len(Txs) /\ Len(Txs) \in Nat
      BY <1>2, <2>4, LenProperties, TxsFacts, LogFacts
    <3>2. \A i \in DOMAIN Txs' : i \in DOMAIN Txs /\ Txs'[i] = Txs[i]
      BY <2>4, <3>1 DEF Extends
    <3> QED BY <2>2, <3>2 DEF RecoveryInv
  <2>15. RecoveryInv'
    BY <1>1, <1>3, <2>4, <2>10, <2>12, <2>13, <2>14, RecoveryNext
  <2> QED BY <1>1, <2>7, <2>9, <2>15 DEF OrderInv, MemoryInv
<1> QED BY <1>3, <1>4, <1>5, <1>6 DEF PartitionInv

LEMMA PartitionInitInv ==
    ASSUME PartitionInit
    PROVE  PartitionInv
<1>1. /\ WalInit /\ header = "Missing" /\ handle = "Closed" /\ file = <<>> /\ store = None
      /\ snaps = {} /\ timeline = <<EmptyStore>> /\ durable = 1 /\ synced = 0
  BY DEF PartitionInit, WalInit
<1>2. WalInv /\ AckInv
  BY <1>1, WalInitInv
<1>3. StateInv
  BY <1>1 DEF StateInv
<1>4. Log = <<>> /\ Txs = <<>> /\ Len(Log) = 0 /\ At(0) = <<>>
  <2>1. Log = <<>> /\ Txs = <<>>
    BY <1>1, EmptyLog
  <2>2. Len(Log) = 0
    BY <2>1
  <2> QED BY <1>2, <2>1, <2>2, WholeLog
<1>5. timeline \in Seq(Stores) /\ Len(timeline) = 1 /\ timeline[1] = EmptyStore
      /\ DOMAIN timeline = {1}
  BY <1>1, EmptyStoreTyped
<1>6. Base = [store |-> EmptyStore, lsn |-> 0, error |-> FALSE]
  BY <1>1 DEF Base, Latest
<1>7. Found(Base, <<>>) = Base
  <2>1. Len(<<>>) = 0
    OBVIOUS
  <2> QED BY <2>1, ReplaySteps DEF Found
<1>8. GoodFor(Base, timeline, <<>>, durable)
  <2>1. 1 \in durable .. Len(timeline) /\ timeline[1] = Found(Base, <<>>).store
    BY <1>1, <1>5, <1>6, <1>7
  <2>2. DOMAIN <<>> = {}
    OBVIOUS
  <2>3. ~Found(Base, <<>>).error
    BY <1>6, <1>7
  <2> QED BY <2>1, <2>2, <2>3 DEF GoodFor
<1>9. RecoveryInv
  <2>1. \A k \in synced .. Len(Log) : k = 0
    BY <1>1, <1>4
  <2>2. Floor(0) = durable
    BY <1>4 DEF Floor
  <2>3. NextAt(0) <= NextAt(0)
    BY <1>4, <1>6, <1>7, EmptyStoreTyped DEF NextAt
  <2>4. DOMAIN Txs = {}
    BY <1>4
  <2> QED BY <1>4, <1>8, <2>1, <2>2, <2>3, <2>4 DEF RecoveryInv
<1>10. SnapsInv
  BY <1>1 DEF SnapsInv, Covers
<1>11. TimelineInv
  BY <1>1, <1>5 DEF TimelineInv
<1>12. MemoryInv
  BY <1>1 DEF MemoryInv
<1> QED BY <1>2, <1>3, <1>9, <1>10, <1>11, <1>12 DEF PartitionInv, OrderInv

LEMMA PartitionStep ==
    ASSUME PartitionInv, [PartitionNext]_pvars
    PROVE  PartitionInv'
<1>1. CASE CreatePartition
  BY <1>1, CreateStep
<1>2. CASE OpenLog
  BY <1>2, OpenStep
<1>3. CASE RecoverPartition
  BY <1>3, RecoverStep
<1>4. CASE SnapshotPartition
  BY <1>4, SnapshotStep
<1>5. CASE DestroyPartition
  <2>1. /\ handle' = "Closed" /\ store' = None /\ file' = file /\ synced' = synced
        /\ policy' = policy /\ acked' = acked /\ snaps' = snaps /\ timeline' = timeline
        /\ durable' = durable /\ header' = header /\ astray' = astray
    BY <1>5 DEF DestroyPartition, disk, history
  <2> QED BY <2>1, CloseStep
<1>6. CASE CrashPartition
  <2>1. /\ handle' = "Closed" /\ store' = None /\ file' = file /\ synced' = synced
        /\ policy' = policy /\ acked' = acked /\ snaps' = snaps /\ timeline' = timeline
        /\ durable' = durable /\ astray' = astray
    BY <1>6 DEF CrashPartition, LoseMemory, Crash, CrashInCreate, Die, disk, history
  <2>2. header' = header \/ (header = "Missing" /\ header' \in {"Empty", "Short"})
    BY <1>6 DEF CrashPartition, Crash, CrashInCreate, disk
  <2> QED BY <2>1, <2>2, CloseStep
<1>7. ASSUME NEW changes \in Ticks, Tick(changes) PROVE PartitionInv'
  BY <1>7, TickStep
<1>8. ASSUME NEW changes \in Ticks, NEW n \in 0 .. Len(changes) + 2, NEW tail \in Tails,
             TickNotPersisted(changes, n, tail)
      PROVE  PartitionInv'
  BY <1>8, TickNotPersistedStep
<1>9. ASSUME NEW changes \in Ticks, NEW n \in 0 .. Len(changes) + 2, NEW tail \in Tails,
             CrashInTick(changes, n, tail)
      PROVE  PartitionInv'
  BY <1>9, CrashInTickStep
<1>10. ASSUME NEW n \in 0 .. Len(file), NEW tail \in Tails, PowerLossPartition(n, tail)
       PROVE  PartitionInv'
  BY <1>10, PowerLossStep
<1>11. CASE UNCHANGED pvars
  <2>1. /\ header' = header /\ file' = file /\ synced' = synced /\ policy' = policy
        /\ handle' = handle /\ nextLsn' = nextLsn /\ cursor' = cursor /\ acked' = acked
        /\ store' = store /\ snaps' = snaps /\ timeline' = timeline /\ durable' = durable
        /\ astray' = astray
    BY <1>11 DEF pvars, walVars, disk, wal, memory, history
  <2>2. /\ Log' = Log /\ Txs' = Txs /\ Scan(file)' = Scan(file)
        /\ RecoveredTxs(file)' = RecoveredTxs(file)
    BY <2>1, SameLog
  <2>3. WalInv /\ AckInv /\ StateInv /\ (astray = {} => OrderInv)
    BY DEF PartitionInv
  <2>4. WalInv'
    BY <2>1, <2>2, <2>3 DEF WalInv, Ready
  <2>5. AckInv'
    BY <2>1, <2>2, <2>3 DEF AckInv, AckedAreRecovered
  <2>6. StateInv'
    BY <2>1, <2>3 DEF StateInv
  <2>7. synced <= synced'
    BY <2>1, <2>3, TxsFacts
  <2>8. ASSUME astray' = {} PROVE OrderInv'
    <3>1. SnapsInv /\ TimelineInv /\ RecoveryInv /\ MemoryInv
      BY <2>1, <2>3, <2>8 DEF OrderInv
    <3>2. SnapsInv' /\ TimelineInv' /\ RecoveryInv' /\ Recovered' = Recovered
      BY <2>1, <2>2, <2>3, <2>4, <2>7, <3>1, Steady
    <3>3. MemoryInv'
      BY <2>1, <3>1, <3>2 DEF MemoryInv
    <3> QED BY <3>2, <3>3 DEF OrderInv
  <2> QED BY <2>4, <2>5, <2>6, <2>8 DEF PartitionInv
<1> QED BY <1>1, <1>2, <1>3, <1>4, <1>5, <1>6, <1>7, <1>8, <1>9, <1>10, <1>11 DEF PartitionNext

LEMMA PartitionInvariant == PartitionSpec => []PartitionInv
<1>1. PartitionInit => PartitionInv
  BY PartitionInitInv
<1>2. PartitionInv /\ [PartitionNext]_pvars => PartitionInv'
  BY PartitionStep
<1> QED BY <1>1, <1>2, PTL DEF PartitionSpec

(* The log of a partition: every tick that was acknowledged is read back,  *)
(* whole, once, in order and at its LSN, whatever the power took that was  *)
(* not owed.                                                               *)
THEOREM PartitionKeepsAcked == PartitionSpec => []AckedAreRecovered
<1>1. PartitionInv => AckedAreRecovered
  BY DEF PartitionInv, AckInv
<1> QED BY <1>1, PartitionInvariant, PTL

(* recover meets nothing that it cannot reproduce: the scan never fails,   *)
(* and the replay on top of the newest snapshot fails at most after the    *)
(* log has lost records that a snapshot covers or kept what one contains.  *)
THEOREM PartitionRecovers == PartitionSpec => []RecoveryNeverFails
<1>1. ASSUME PartitionInv PROVE RecoveryNeverFails
  <2>1. WalInv /\ StateInv /\ (astray = {} => SnapsInv /\ RecoveryInv)
    BY <1>1 DEF PartitionInv, OrderInv
  <2>2. ~Scan(file).error
    BY <2>1 DEF WalInv
  <2>3. astray = {} => ~Recovered.error
    BY <2>1, WholeGood, RecoveredIs DEF GoodFor
  <2> QED BY <2>2, <2>3 DEF RecoveryNeverFails
<1>2. PartitionInv => RecoveryNeverFails
  BY <1>1
<1> QED BY <1>2, PartitionInvariant, PTL

(* Transaction ids are never reused: those in the log grow strictly, with  *)
(* the same exception.                                                     *)
THEOREM PartitionTxIdsGrow == PartitionSpec => []TxIdsGrow
<1>1. PartitionInv => TxIdsGrow
  BY DEF PartitionInv, OrderInv, RecoveryInv, TxIdsGrow, Txs
<1> QED BY <1>1, PartitionInvariant, PTL

(* A recovered partition is exactly in a state that it was in, and in none *)
(* older than its last durable tick, with the same exception.              *)
THEOREM PartitionRecoversCommitted == PartitionSpec => RecoversCommittedState
<1>1. PartitionInv /\ [PartitionNext]_pvars
        => [RecoverPartition => astray # {} \/ Owed(store')]_pvars
  <2> SUFFICES ASSUME PartitionInv, RecoverPartition, astray = {}
               PROVE  Owed(store')
    OBVIOUS
  <2>1. store' = Recovered.store
    BY DEF RecoverPartition
  <2>2. WalInv /\ StateInv /\ SnapsInv /\ RecoveryInv
    BY DEF PartitionInv, OrderInv
  <2>3. \E i \in durable .. Len(timeline) : timeline[i] = Recovered.store
    BY <2>2, WholeGood, RecoveredIs DEF GoodFor
  <2> QED BY <2>1, <2>3 DEF Owed
<1> QED BY <1>1, PartitionInvariant, PTL DEF PartitionSpec, RecoversCommittedState
=============================================================================
