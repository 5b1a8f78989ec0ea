-------------------------- MODULE DurablePartition --------------------------
(***************************************************************************)
(* A partition of the runtime (crates/nexum-runtime) with persistence on:  *)
(* its store in memory, its write-ahead log and its snapshots, through     *)
(* ticks, failed appends, crashes, power losses and recoveries.            *)
(*                                                                         *)
(* The store is one table of row versions with the two counters recovery   *)
(* must restore.  A tick is its committed changes: what the transaction    *)
(* engine does to produce them is module Transaction.                      *)
(***************************************************************************)
EXTENDS Wal

CONSTANTS
    MaxRows,          \* bound: row ids handed out
    SnapshotInterval, \* ticks between periodic snapshots
    MaxSnapshots      \* bound: snapshots taken through the API

ASSUME PartitionAssumption ==
    /\ MaxRows \in Nat /\ MaxSnapshots \in Nat
    /\ SnapshotInterval \in Nat \ {0}

VARIABLES
    store,      \* the partition's tables, or None while it is not loaded
    snaps,      \* the snapshot files: [lsn, store]
    since,      \* WorldEntry::ticks_since_snapshot
    taken,      \* snapshots taken through the API
    timeline,   \* history: the store after each commit in memory
    durable,    \* history: how many of them recovery owes
    astray      \* history: in which ways a snapshot's LSN has ceased to
                \* describe the log: "Lost", "Again"

memory == <<store, since>>
history == <<timeline, durable, astray>>
pvars == <<walVars, memory, snaps, taken, history>>

-----------------------------------------------------------------------------
(* The store: rows[id] is the version of the row, None if there is none.   *)

RowIds == 0 .. MaxRows - 1

RowChange == [kind : {"Insert", "Update", "Delete"}, id : RowIds]

ASSUME PayloadAssumption == Payload \subseteq RowChange

EmptyStore == [rows |-> [id \in RowIds |-> None], next |-> 0, nextTx |-> 0]

Stores == [rows : [RowIds -> Nat \cup {None}], next : 0 .. MaxRows, nextTx : Nat]

ASSUME NoStoreAssumption == None \notin Stores

\* replay_change: an insert must be given the id it was recorded with; an
\* update or delete must find its row.
CanReplay(s, c) ==
    IF c.kind = "Insert" THEN s.next = c.id ELSE s.rows[c.id] # None

ReplayChange(s, c) ==
    CASE c.kind = "Insert" -> [s EXCEPT !.rows[c.id] = 0, !.next = @ + 1]
      [] c.kind = "Update" -> [s EXCEPT !.rows[c.id] = @ + 1]
      [] c.kind = "Delete" -> [s EXCEPT !.rows[c.id] = None]

ReplayOne(result, c) ==
    IF result.error \/ ~CanReplay(result.store, c)
    THEN [result EXCEPT !.error = TRUE]
    ELSE [result EXCEPT !.store = ReplayChange(@, c)]

Applied(s, changes) ==
    LET after[i \in 0 .. Len(changes)] ==
            IF i = 0 THEN [store |-> s, error |-> FALSE]
            ELSE ReplayOne(after[i - 1], changes[i])
    IN  after[Len(changes)]

\* Never reuse transaction ids.
AdvanceTx(s, tx) == [s EXCEPT !.nextTx = IF tx + 1 > @ THEN tx + 1 ELSE @]

\* Mutant: the snapshot's LSN is ignored.
ReplayTxAlways(result, t) ==
    IF result.error THEN result
    ELSE LET after == Applied(result.store, t.changes)
         IN  [result EXCEPT !.store = AdvanceTx(after.store, t.tx),
                            !.error = after.error]

\* Mutant: the transaction counter is not advanced.
ReplayTxReusesIds(result, t) ==
    IF result.error \/ t.lsn < result.lsn THEN result
    ELSE LET after == Applied(result.store, t.changes)
         IN  [result EXCEPT !.store = after.store, !.error = after.error]

\* Transactions the snapshot covers are skipped.
ReplayTx(result, t) ==
    IF result.error \/ t.lsn < result.lsn THEN result
    ELSE LET after == Applied(result.store, t.changes)
         IN  [result EXCEPT !.store = AdvanceTx(after.store, t.tx),
                            !.error = after.error]

\* The first n transactions of the log, one after the other.
Replayed(result, txs, n) ==
    LET after[i \in 0 .. n] ==
            IF i = 0 THEN result ELSE ReplayTx(after[i - 1], txs[i])
    IN  after[n]

\* find_latest: the readable snapshot with the highest LSN.
Latest ==
    IF snaps = {} THEN [lsn |-> 0, store |-> EmptyStore]
    ELSE CHOOSE s \in snaps : \A r \in snaps : r.lsn <= s.lsn

\* Mutant: the log is not replayed on top of a snapshot.
RecoveredSnapshotOnly ==
    IF snaps # {} THEN [store |-> Latest.store, lsn |-> 0, error |-> FALSE]
    ELSE Replayed([store |-> EmptyStore, lsn |-> 0, error |-> FALSE],
                  Scan(file).txs, Len(Scan(file).txs))

Recovered ==
    LET txs == Scan(file).txs
    IN  Replayed([store |-> Latest.store, lsn |-> Latest.lsn, error |-> FALSE],
                 txs, Len(txs))

-----------------------------------------------------------------------------

PartitionTypeOK ==
    /\ store \in Stores \cup {None}
    /\ store = None <=> handle \in {"Closed", "Opened"}
    /\ snaps \subseteq [lsn : Nat, store : Stores]
    /\ since \in Nat
    /\ timeline \in Seq(Stores)
    /\ durable \in Nat /\ astray \subseteq {"Lost", "Again"}

PartitionInit ==
    /\ WalInit
    /\ store = None /\ since = 0
    /\ snaps = {} /\ taken = 0
    /\ timeline = <<EmptyStore>> /\ durable = 1 /\ astray = {}

\* The factory defines the tables; the log is new.
CreatePartition ==
    /\ Create
    /\ store' = EmptyStore /\ since' = 0
    /\ UNCHANGED <<snaps, taken, history>>

\* A committed transaction takes the next id; its changes fit the store.
TickTx(changes) == [tx |-> store.nextTx, changes |-> changes]
TickStore(changes) == AdvanceTx(Applied(store, changes).store, store.nextTx)
TickFits(changes) == store # None /\ ~Applied(store, changes).error

\* Snapshot::write renames over an older file of the same LSN.
WithSnapshot(lsn, s) ==
    {old \in snaps : old.lsn # lsn} \cup {[lsn |-> lsn, store |-> s]}

\* Durability first; then the periodic snapshot, which may fail.
Tick(changes) ==
    /\ TickFits(changes)
    /\ AppendOk(TickTx(changes))
    /\ store' = TickStore(changes)
    /\ timeline' = Append(timeline, store')
    /\ durable' = Len(timeline')
    /\ \/ /\ since + 1 >= SnapshotInterval
          /\ snaps' = WithSnapshot(nextLsn', store')
          /\ since' = 0
       \/ /\ since' = since + 1
          /\ UNCHANGED snaps
    /\ UNCHANGED <<taken, astray>>

\* Committed in memory but not durable: the partition is Failed.
TickNotPersisted(changes, n, tail) ==
    /\ TickFits(changes)
    /\ AppendFails(TickTx(changes), n, tail)
    /\ store' = TickStore(changes)
    /\ timeline' = Append(timeline, store')
    /\ UNCHANGED <<since, snaps, taken, durable, astray>>

\* snapshot_partition asks only whether the partition exists: a Failed one
\* is captured too.  If the whole group of its failed append stayed in the
\* file, the snapshot holds a transaction that its LSN does not cover.
SnapshotPartition ==
    /\ store # None /\ taken < MaxSnapshots
    /\ snaps' = WithSnapshot(nextLsn, store)
    /\ taken' = taken + 1
    /\ astray' = IF \E t \in ToSet(Scan(file).txs) : t.lsn >= nextLsn
                 THEN astray \cup {"Again"} ELSE astray
    /\ UNCHANGED <<walVars, memory, timeline, durable>>

\* The files stay, and recover_partition may follow in the same process.
DestroyPartition ==
    /\ store # None
    /\ handle' = "Closed" /\ store' = None
    /\ UNCHANGED <<disk, policy, nextLsn, cursor, issued, acked, crashes,
                   since, snaps, taken, history>>

\* recover_partition: open the log, then the store from snapshot and log.
OpenLog ==
    /\ Open
    /\ UNCHANGED <<memory, snaps, taken, history>>

RecoverPartition ==
    /\ RecoverChanges
    /\ ~Recovered.error
    /\ store' = Recovered.store /\ since' = 0
    /\ LET known == {i \in DOMAIN timeline : timeline[i] = Recovered.store}
       IN  timeline' = IF known = {} THEN Append(timeline, Recovered.store)
                       ELSE SubSeq(timeline, 1, CHOOSE i \in known : TRUE)
    /\ UNCHANGED <<snaps, taken, durable, astray>>

LoseMemory == store' = None /\ UNCHANGED since

CrashInTick(changes, n, tail) ==
    /\ TickFits(changes)
    /\ CrashInAppend(TickTx(changes), n, tail)
    /\ LoseMemory
    /\ timeline' = Append(timeline, TickStore(changes))
    /\ UNCHANGED <<snaps, taken, durable, astray>>

CrashPartition ==
    /\ Crash \/ CrashInCreate
    /\ LoseMemory
    /\ UNCHANGED <<snaps, taken, history>>

\* Snapshot::write syncs the file; its rename is taken to reach the disk.
\* The log may lose records that a snapshot covers: then transactions written
\* later, below the LSN of that snapshot, are taken for covered ones.
PowerLossPartition(n, tail) ==
    /\ PowerLoss(n, tail)
    /\ LoseMemory
    /\ durable' = IF policy = "Sync" THEN durable ELSE 1
    /\ astray' = IF \E s \in snaps : s.lsn > Len(ValidPrefix(file'))
                 THEN astray \cup {"Lost"} ELSE astray
    /\ UNCHANGED <<snaps, timeline, taken>>

Ticks == UNION {[1 .. m -> Payload] : m \in 0 .. MaxChanges}

PartitionNext ==
    \/ CreatePartition \/ OpenLog \/ RecoverPartition
    \/ SnapshotPartition \/ DestroyPartition
    \/ CrashPartition
    \/ \E changes \in Ticks :
          \/ Tick(changes)
          \/ \E n \in 0 .. Len(changes) + 2, tail \in Tails :
                /\ n = Len(changes) + 2 => tail = <<>>
                /\ \/ TickNotPersisted(changes, n, tail)
                   \/ CrashInTick(changes, n, tail)
    \/ \E n \in 0 .. Len(file), tail \in Tails : PowerLossPartition(n, tail)

\* What was issued is read by nothing here, what a closed handle held is set
\* anew when the log is opened, a failed one reads nothing but its LSN, and
\* nothing compares a partition that is astray with its timeline.
PartitionView ==
    <<disk, policy, handle,
      CASE handle = "Closed" -> <<>>
        [] handle = "Failed" -> <<nextLsn>>
        [] OTHER -> <<nextLsn, cursor, since>>,
      crashes, acked, store, snaps, taken,
      IF astray = {} THEN history ELSE <<astray>>>>

PartitionSpec == PartitionInit /\ [][PartitionNext]_pvars

-----------------------------------------------------------------------------

\* Is s a state the partition was in, and not one older than the last tick
\* whose append succeeded?
Owed(s) == \E i \in durable .. Len(timeline) : s = timeline[i]

\* A recovered partition is in exactly a state -- rows, versions, row-id and
\* transaction counters -- that it was in before, and not in one older than
\* the last tick whose append succeeded (recovery.rs: replay "reconstructs
\* rows, row ids, versions, epochs, next_row_id" from snapshot plus log),
\* unless the log has lost records that a snapshot covers, or holds again
\* what a snapshot contains (astray); SurvivesPowerLoss is the claim without
\* that exception.
RecoversCommittedState ==
    [][RecoverPartition => astray # {} \/ Owed(store')]_pvars

\* wal.rs of Sync: "Survives power loss -- the durable mode", whatever
\* records the power loss took (set_len working as it should).
SurvivesPowerLoss ==
    [][RecoverPartition => "Again" \in astray \/ Owed(store')]_pvars

\* recover never meets history that it cannot reproduce: whatever mixture of
\* snapshots and log the crashes left, the replay of the one fits the other,
\* as long as no snapshot is astray.
RecoveryNeverFails ==
    handle = "Opened" => ~Scan(file).error /\ (astray # {} \/ ~Recovered.error)

\* recovery.rs "Never reuse transaction ids": the committed transactions in
\* the log carry strictly growing ids, across failures and restarts, as long
\* as no snapshot is astray (recover takes no account of the ids it skips).
TxIdsGrow ==
    LET txs == Scan(file).txs
    IN  astray # {} \/ \A i, j \in DOMAIN txs : i < j => txs[i].tx < txs[j].tx
=============================================================================
