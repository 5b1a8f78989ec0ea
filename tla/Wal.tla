--------------------------------- MODULE Wal ---------------------------------
(***************************************************************************)
(* The write-ahead log (crates/nexum-wal, wal.rs): one file of checksummed *)
(* records, the handle that appends transaction groups to it, and the      *)
(* crashes it is there for.                                                *)
(*                                                                         *)
(* A file is its header and a sequence of records; an LSN is the number of *)
(* records before it.  Torn stands for bytes that read_record refuses: a   *)
(* record cut short, a failed checksum, or the zeros of a hole, which a    *)
(* write beyond the end of the file leaves behind.                         *)
(***************************************************************************)
EXTENDS Integers, FiniteSets, SequencesExt

CONSTANTS
    Payload,         \* changes
    None,            \* no transaction group is open
    Policies,        \* the durability policies to consider
    MaxChanges,      \* bound: changes in a transaction
    MaxRecords,      \* bound: no append starts beyond this LSN
    MaxCrashes       \* bound: crashes, power losses and failures of set_len

ASSUME WalAssumption ==
    /\ Policies \subseteq {"Flush", "Sync"}
    /\ MaxChanges \in Nat /\ MaxRecords \in Nat /\ MaxCrashes \in Nat

VARIABLES
    header,   \* of the file: "Missing" (no file), "Empty", "Short", "Valid"
    file,     \* the records a reader of the file sees
    synced,   \* how many of them are on stable storage for certain
    policy,   \* DurabilityPolicy of the handle
    handle,   \* "Closed", "Opened", "Recovered" or "Failed"
    nextLsn,  \* Wal::next_lsn
    cursor,   \* the file position, where write_all writes
    issued,   \* history: every transaction an append was called with
    acked,    \* history: those append returned Ok for, in that order, with
              \* the LSN it returned
    crashes

disk == <<header, file, synced>>
wal == <<policy, handle, nextLsn, cursor>>
walVars == <<disk, wal, issued, acked, crashes>>

-----------------------------------------------------------------------------

Tx == [tx : Nat, changes : Seq(Payload)]
LoggedTx == [tx : Nat, changes : Seq(Payload), lsn : Nat]

ASSUME NoTxAssumption == None \notin Tx

Begin(t) == [kind |-> "Begin", tx |-> t.tx]
Change(c) == [kind |-> "Change", change |-> c]
Commit(t) == [kind |-> "Commit", tx |-> t.tx, count |-> Len(t.changes)]
Torn == [kind |-> "Torn"]

Record == [kind : {"Begin"}, tx : Nat]
              \cup [kind : {"Change"}, change : Payload]
              \cup [kind : {"Commit"}, tx : Nat, count : Nat]

\* BEGIN_TX, one CHANGE for each change, COMMIT_TX.
Group(t) ==
    <<Begin(t)>>
        \o [i \in DOMAIN t.changes |-> Change(t.changes[i])]
        \o <<Commit(t)>>

Holes(n) == [i \in 1 .. n |-> Torn]

\* write_all at the file position, and set_len: beyond the end, both leave
\* zeros in between.
Written(position, records) ==
    file \o Holes(position - Len(file)) \o records

SetLen(f, n) ==
    IF n <= Len(f) THEN SubSeq(f, 1, n) ELSE f \o Holes(n - Len(f))

\* The records before the first one that cannot be read.
ValidPrefix(f) ==
    LET bad == {i \in DOMAIN f : f[i] = Torn}
    IN  IF bad = {} THEN f
        ELSE SubSeq(f, 1, (CHOOSE i \in bad : \A j \in bad : i <= j) - 1)

-----------------------------------------------------------------------------
(* recover_changes: a scan that keeps a group only at its COMMIT_TX.       *)

ScanStart == [offset |-> 0, open |-> None, txs |-> <<>>, error |-> FALSE]

Fail(scan) == [scan EXCEPT !.error = TRUE]

ScanBegin(scan, r) == [scan EXCEPT !.open = [tx |-> r.tx, changes |-> <<>>]]

ScanChange(scan, r) ==
    IF scan.open = None THEN Fail(scan)
    ELSE [scan EXCEPT !.open.changes = Append(@, r.change)]

ScanCommit(scan, r) ==
    IF \/ scan.open = None
       \/ scan.open.tx # r.tx
       \/ Len(scan.open.changes) # r.count
    THEN Fail(scan)
    ELSE [scan EXCEPT !.open = None,
                      !.txs = Append(@, [tx |-> r.tx,
                                         changes |-> scan.open.changes,
                                         lsn |-> scan.offset])]

ScanRecord(scan, r) ==
    IF scan.error THEN scan
    ELSE LET next == CASE r.kind = "Begin" -> ScanBegin(scan, r)
                       [] r.kind = "Change" -> ScanChange(scan, r)
                       [] r.kind = "Commit" -> ScanCommit(scan, r)
         IN  [next EXCEPT !.offset = @ + 1]

\* The scan after the first n records.
ScanTo(f, n) ==
    LET scan[i \in 0 .. n] ==
            IF i = 0 THEN ScanStart ELSE ScanRecord(scan[i - 1], f[i])
    IN  scan[n]

Scan(f) == ScanTo(ValidPrefix(f), Len(ValidPrefix(f)))

RecoveredTxs(f) ==
    LET txs == Scan(f).txs
    IN  [i \in DOMAIN txs |-> [tx |-> txs[i].tx, changes |-> txs[i].changes]]

-----------------------------------------------------------------------------

WalTypeOK ==
    /\ header \in {"Missing", "Empty", "Short", "Valid"}
    /\ file \in Seq(Record \cup {Torn})
    /\ synced \in 0 .. Len(file)
    /\ policy \in Policies
    /\ handle \in {"Closed", "Opened", "Recovered", "Failed"}
    /\ nextLsn \in Nat
    /\ cursor \in Nat
    /\ acked \in Seq(LoggedTx) /\ issued \subseteq Tx
    /\ crashes \in 0 .. MaxCrashes

WalInit ==
    /\ header = "Missing" /\ file = <<>> /\ synced = 0
    /\ policy \in Policies
    /\ handle = "Closed" /\ nextLsn = 0 /\ cursor = 0
    /\ issued = {} /\ acked = <<>>
    /\ crashes = 0

-----------------------------------------------------------------------------
(* The life of a handle.                                                   *)

\* The runtime refuses to create a log where a file already is.
Create ==
    /\ handle = "Closed" /\ header = "Missing"
    /\ header' = "Valid"
    /\ handle' = "Recovered"
    /\ nextLsn' = 0 /\ cursor' = 0
    /\ UNCHANGED <<file, synced, policy, issued, acked, crashes>>

\* Truncates behind the last valid record, and syncs only if it did: whole
\* records that a dying process left unsynced stay so.  The read that found
\* the invalid record has moved the file position past it, and set_len does
\* not move it back.
Open ==
    /\ handle = "Closed" /\ header \in {"Empty", "Valid"}
    /\ header' = "Valid"
    /\ file' = ValidPrefix(file)
    /\ synced' = IF policy = "Sync" /\ file' # file THEN Len(file') ELSE synced
    /\ handle' = "Opened"
    /\ nextLsn' = Len(file')
    /\ cursor' = IF file' = file THEN Len(file') ELSE Len(file') + 1
    /\ UNCHANGED <<policy, issued, acked, crashes>>

\* Mutant: the file position stays where open left it.
RecoverChangesWithoutSeek ==
    /\ handle = "Opened"
    /\ ~Scan(file).error
    /\ handle' = "Recovered"
    /\ UNCHANGED <<disk, policy, nextLsn, cursor, issued, acked, crashes>>

\* The scan leaves the file position where it stopped.
RecoverChanges ==
    /\ handle = "Opened"
    /\ ~Scan(file).error
    /\ handle' = "Recovered"
    /\ cursor' = Len(file)
    /\ UNCHANGED <<disk, policy, nextLsn, issued, acked, crashes>>

\* The runtime recovers before its first append, and a partition whose
\* append failed is not ticked again.
MayAppend == nextLsn < MaxRecords /\ handle = "Recovered"

\* Returns the LSN of the COMMIT_TX record.
AppendOk(t) ==
    /\ MayAppend
    /\ file' = Written(cursor, Group(t))
    /\ synced' = IF policy = "Sync" THEN Len(file') ELSE synced
    /\ nextLsn' = nextLsn + Len(Group(t))
    /\ cursor' = cursor + Len(Group(t))
    /\ issued' = issued \cup {t}
    /\ acked' = Append(acked, [tx |-> t.tx, changes |-> t.changes,
                               lsn |-> nextLsn' - 1])
    /\ UNCHANGED <<header, policy, handle, crashes>>

\* n records, and perhaps a part of the next one, were written when write_all
\* or fsync failed.  The file is cut back, but nothing seeks, and the errors
\* of set_len and sync_all are discarded: the records may stay behind the end
\* that the handle knows, and nothing new is certain to be on the disk.
AppendFails(t, n, tail) ==
    /\ MayAppend
    /\ LET left == Written(cursor, SubSeq(Group(t), 1, n) \o tail)
       IN  \/ file' = SetLen(left, nextLsn) /\ UNCHANGED crashes
           \/ file' = left /\ crashes < MaxCrashes /\ crashes' = crashes + 1
    /\ cursor' = cursor + n
    /\ handle' = "Failed"
    /\ issued' = issued \cup {t}
    /\ UNCHANGED <<header, synced, policy, nextLsn, acked>>

-----------------------------------------------------------------------------
(* Crashes (external: the process, the operating system, the power).       *)

Die ==
    /\ crashes < MaxCrashes
    /\ crashes' = crashes + 1
    /\ handle' = "Closed"
    /\ UNCHANGED <<policy, nextLsn, cursor, issued>>

Crash ==
    /\ handle # "Closed"
    /\ Die
    /\ UNCHANGED <<disk, acked>>

\* The process dies while create writes the header.
CrashInCreate ==
    /\ handle = "Closed" /\ header = "Missing"
    /\ header' \in {"Empty", "Short"}
    /\ Die
    /\ UNCHANGED <<file, synced, acked>>

\* The process dies inside append: some records are written, and perhaps a
\* part of the next one.
CrashInAppend(t, n, tail) ==
    /\ MayAppend
    /\ crashes < MaxCrashes
    /\ crashes' = crashes + 1
    /\ file' = Written(cursor, SubSeq(Group(t), 1, n) \o tail)
    /\ handle' = "Closed"
    /\ issued' = issued \cup {t}
    /\ UNCHANGED <<header, synced, policy, nextLsn, cursor, acked>>

\* What is not synced may go, the end of the file first.  Flush promises
\* nothing here, so the transactions that are gone, the last ones, are no
\* longer owed.
PowerLoss(n, tail) ==
    /\ n >= synced
    /\ file' = SubSeq(file, 1, n) \o (IF n < Len(file) THEN tail ELSE <<>>)
    /\ acked' = IF policy = "Sync" THEN acked
                ELSE LET kept == ToSet(Scan(file').txs)
                     IN  SubSeq(acked, 1, Cardinality({i \in DOMAIN acked : acked[i] \in kept}))
    /\ Die
    /\ UNCHANGED <<header, synced>>

Tails == {<<>>, <<Torn>>}

CallAppend(t) ==
    \/ AppendOk(t)
    \/ \E n \in 0 .. Len(Group(t)), tail \in Tails :
          /\ n = Len(Group(t)) => tail = <<>>
          /\ AppendFails(t, n, tail) \/ CrashInAppend(t, n, tail)

\* The client of the log alone numbers its transactions.
WalNext ==
    \/ Create \/ Open \/ RecoverChanges
    \/ \E m \in 0 .. MaxChanges : \E c \in [1 .. m -> Payload] :
          CallAppend([tx |-> Cardinality(issued), changes |-> c])
    \/ Crash \/ CrashInCreate
    \/ \E n \in 0 .. Len(file), tail \in Tails : PowerLoss(n, tail)

WalSpec == WalInit /\ [][WalNext]_walVars

-----------------------------------------------------------------------------

\* All that is owed is read, once each and in its order.
ReadBack(owed, read) ==
    /\ ToSet(owed) \subseteq ToSet(read)
    /\ \A i, j \in DOMAIN owed : \A k, l \in DOMAIN read :
          read[k] = owed[i] /\ read[l] = owed[j] => (i < j <=> k < l)

\* Every transaction that append acknowledged is read back, whole, once, in
\* order and at the LSN that append returned, from whatever the file holds at
\* any time -- after torn tails, failed appends, abandoned groups and restarts
\* (wal.rs: "no partial record ever breaks future appends").
AckedAreRecovered == ReadBack(acked, Scan(file).txs)

\* What is read back was appended as it stands: the remains of a group that
\* was cut off never mix with the records of the group behind it.
GroupsAreWhole == ToSet(RecoveredTxs(file)) \subseteq issued

\* No crash makes the scan meet well-checksummed records in an order that
\* recover_changes reports as "a bug in the writer".
ScanNeverFails == ~Scan(file).error

\* The LSN that a snapshot would take is the end of the file: what is
\* appended later lies at or after it, what was appended before lies below.
\* (Not of a Failed handle, whose file may hold the remains of its append.)
LsnIsEnd == handle \in {"Opened", "Recovered"} => nextLsn = Len(file)
=============================================================================
