----------------------------- MODULE Transaction -----------------------------
(***************************************************************************)
(* The optimistic transaction engine (crates/nexum-tx) over one table.     *)
(*                                                                         *)
(* A transaction is a pure accumulator: it holds no reference to the       *)
(* store, so any number of Active transactions interleave their calls over *)
(* it.  Only commit takes the store exclusively: it validates, then        *)
(* applies the write set operation by operation, then collects the change  *)
(* records.  The apply loop is one action per table operation so that the  *)
(* claim "infallible post-validation" can be stated of every operation;    *)
(* while it runs no other call is possible, because commit holds &mut.     *)
(***************************************************************************)
EXTENDS Table

CONSTANTS
    Tx,              \* transaction slots; a finished one may begin again
    Unread,          \* a row or table that was not observed
    InitialTables,   \* tables the store may hold when the first tx begins
    MaxInserts,      \* bound: inserts buffered by one transaction
    MaxEpoch         \* bound: no commit starts at this epoch or later

ASSUME BoundAssumption ==
    /\ MaxInserts \in Nat
    /\ MaxEpoch \in Nat

ASSUME UnreadAssumption == Unread # None /\ Unread \notin Int

ASSUME NoTxAssumption == None \notin Tx

ASSUME InitialAssumption == \A tb \in InitialTables : WellFormed(tb)

VARIABLES
    table,        \* the committed state
    state,        \* TransactionState of every slot
    reads,        \* ReadSet::entries: row id -> version, None if absent
    epochs,       \* ReadSet::tables: the epoch of the last set observation
    writes,       \* WriteSet: handle -> entry
    provisional,  \* next provisional insert handle, less the flag
    committing,   \* the transaction whose apply loop is running, or None
    todo,         \* the handles that loop has still to apply
    base          \* change-buffer length recorded before the loop

vars == <<table, state, reads, epochs, writes, provisional,
          committing, todo, base>>

-----------------------------------------------------------------------------

\* Insert handles follow every real id, so the merged order is id order.
Handle == 0 .. ProvisionalFlag + MaxInserts - 1

IsProvisional(h) == h >= ProvisionalFlag

WriteEntry ==
    [kind : {"Insert", "Update"}, row : Row]
        \cup [kind : {"Delete"}, row : {None}]

InsertEntry(row) == [kind |-> "Insert", row |-> row]
UpdateEntry(row) == [kind |-> "Update", row |-> row]
DeleteEntry == [kind |-> "Delete", row |-> None]

Pending(t) == {h \in Handle : writes[t][h] # None}
Kind(t, h) == writes[t][h].kind
Deletes(t) == {h \in Pending(t) : Kind(t, h) = "Delete"}
Updates(t) == {h \in Pending(t) : Kind(t, h) = "Update"}
Inserts(t) == {h \in Pending(t) : Kind(t, h) = "Insert"}

TypeOK ==
    /\ table \in TableRecord
    /\ state \in [Tx -> {"Active", "Committed", "Aborted"}]
    /\ reads \in [Tx -> [RowId -> Nat \cup {None, Unread}]]
    /\ epochs \in [Tx -> Nat \cup {Unread}]
    /\ writes \in [Tx -> [Handle -> WriteEntry \cup {None}]]
    /\ provisional \in [Tx -> 0 .. MaxInserts]
    /\ committing \in Tx \cup {None}
    /\ todo \in SUBSET Handle
    /\ base \in Nat

\* Every slot starts finished, so that each use of it goes through Begin.
Init ==
    /\ table \in InitialTables
    /\ state = [t \in Tx |-> "Aborted"]
    /\ reads = [t \in Tx |-> [id \in RowId |-> Unread]]
    /\ epochs = [t \in Tx |-> Unread]
    /\ writes = [t \in Tx |-> [h \in Handle |-> None]]
    /\ provisional = [t \in Tx |-> 0]
    /\ committing = None
    /\ todo = {}
    /\ base = 0

-----------------------------------------------------------------------------
(* Calls on an Active transaction.  A call the code refuses changes        *)
(* nothing and is not an action.                                           *)

\* ensure_active, and nobody is inside commit.
MayCall(t) == committing = None /\ state[t] = "Active"

Begin(t) ==
    /\ committing = None
    /\ state[t] # "Active"
    /\ state' = [state EXCEPT ![t] = "Active"]
    /\ reads' = [reads EXCEPT ![t] = [id \in RowId |-> Unread]]
    /\ epochs' = [epochs EXCEPT ![t] = Unread]
    /\ writes' = [writes EXCEPT ![t] = [h \in Handle |-> None]]
    /\ provisional' = [provisional EXCEPT ![t] = 0]
    /\ UNCHANGED <<table, committing, todo, base>>

\* ReadSet::record overwrites: the most recent observation of a row wins.
Record(t, id) ==
    reads' = [reads EXCEPT ![t][id] = VersionOf(table, id)]

\* get and contains: a row with a buffered write, or an unknown insert
\* handle, is answered from the write set and records nothing.
Get(t, id) ==
    /\ MayCall(t)
    /\ writes[t][id] = None
    /\ Record(t, id)
    /\ UNCHANGED <<table, state, epochs, writes, provisional,
                   committing, todo, base>>

\* scan, lookup_unique and lookup_index: each observes the table as a set.
ObserveSet(t) ==
    /\ MayCall(t)
    /\ epochs' = [epochs EXCEPT ![t] = table.epoch]
    /\ UNCHANGED <<table, state, reads, writes, provisional,
                   committing, todo, base>>

Insert(t, row) ==
    /\ MayCall(t)
    /\ provisional[t] < MaxInserts
    /\ LET h == ProvisionalFlag + provisional[t]
       IN  writes' = [writes EXCEPT ![t][h] = InsertEntry(row)]
    /\ provisional' = [provisional EXCEPT ![t] = @ + 1]
    /\ UNCHANGED <<table, state, reads, epochs, committing, todo, base>>

\* Write-time version capture, on the first buffered write to a real row.
Capture(t, h) ==
    IF ~IsProvisional(h) /\ writes[t][h] = None
    THEN Record(t, h)
    ELSE UNCHANGED reads

\* A fresh real row becomes an Update; a pending insert or update takes the
\* new row; a dangling handle and a deleted row are refused.
Update(t, h, row) ==
    /\ MayCall(t)
    /\ \/ /\ writes[t][h] = None /\ ~IsProvisional(h)
          /\ writes' = [writes EXCEPT ![t][h] = UpdateEntry(row)]
       \/ /\ h \in Inserts(t) \cup Updates(t)
          /\ writes' = [writes EXCEPT ![t][h] =
                            [kind |-> Kind(t, h), row |-> row]]
    /\ Capture(t, h)
    /\ UNCHANGED <<table, state, epochs, provisional, committing, todo, base>>

\* Deleting a pending insert removes the entry: the row is never created.
Delete(t, h) ==
    /\ MayCall(t)
    /\ \/ /\ (writes[t][h] = None /\ ~IsProvisional(h)) \/ h \in Updates(t)
          /\ writes' = [writes EXCEPT ![t][h] = DeleteEntry]
       \/ /\ h \in Inserts(t)
          /\ writes' = [writes EXCEPT ![t][h] = None]
    /\ Capture(t, h)
    /\ UNCHANGED <<table, state, epochs, provisional, committing, todo, base>>

Abort(t) ==
    /\ MayCall(t)
    /\ state' = [state EXCEPT ![t] = "Aborted"]
    /\ UNCHANGED <<table, reads, epochs, writes, provisional,
                   committing, todo, base>>

-----------------------------------------------------------------------------
(* What the reads answer: the committed state overlaid by the write set.   *)

\* get
View(t, h) ==
    IF writes[t][h] # None
    THEN writes[t][h].row
    ELSE IF Contains(table, h) THEN table.rows[h].row ELSE None

Owner(row, field, value) == row # None /\ row[field] = value

\* Mutant: committed owners are not checked against the write set.
LookupOwnersStale(t, committed, field, value) ==
    committed \cup {h \in Inserts(t) : Owner(writes[t][h].row, field, value)}

\* A committed owner stays unless it is deleted or updated away from the
\* key; pending writes are searched only when some insert is pending.
LookupOwners(t, committed, field, value) ==
    {h \in committed :
        writes[t][h] = None \/ Owner(writes[t][h].row, field, value)}
        \cup IF Inserts(t) = {} THEN {}
             ELSE {h \in Pending(t) : Owner(writes[t][h].row, field, value)}

LookupUnique(t, k) ==
    LookupOwners(t, {table.primary[k]} \ {None}, "k", k)

LookupIndex(t, z) ==
    LookupOwners(t, table.secondary[z], "z", z)

-----------------------------------------------------------------------------
(* Commit: validate everything, apply everything, collect.                 *)

\* Mutant: set observations are validated, row observations are not.
ReadsHoldSetsOnly(t) == epochs[t] \in {Unread, table.epoch}

ReadsHold(t) ==
    /\ epochs[t] \in {Unread, table.epoch}
    /\ \A id \in RowId : reads[t][id] \in {Unread, VersionOf(table, id)}

TargetsExist(t) == \A h \in Deletes(t) \cup Updates(t) : Contains(table, h)

\* Mutant: a key counts as free when the transaction updates its owner.
KeysFreeOfUpdated(t) ==
    \A h \in Updates(t) \cup Inserts(t) :
        table.primary[writes[t][h].row.k] \in
            {None} \cup Deletes(t) \cup Updates(t)

\* Live owners, less the rows this transaction deletes, less the target.
KeysFree(t) ==
    \A h \in Updates(t) \cup Inserts(t) :
        table.primary[writes[t][h].row.k] \in
            {None} \cup Deletes(t) \cup ({h} \cap Updates(t))

ClaimsDistinct(t) ==
    \A g, h \in Updates(t) \cup Inserts(t) :
        g # h => writes[t][g].row.k # writes[t][h].row.k

\* Mutant: two writes of one transaction may claim one key.
ValidateSharedClaims(t) == ReadsHold(t) /\ TargetsExist(t) /\ KeysFree(t)

Validate(t) ==
    /\ ReadsHold(t)
    /\ TargetsExist(t)
    /\ KeysFree(t)
    /\ ClaimsDistinct(t)

CommitRejected(t) ==
    /\ MayCall(t)
    /\ ~Validate(t)
    /\ state' = [state EXCEPT ![t] = "Aborted"]
    /\ UNCHANGED <<table, reads, epochs, writes, provisional,
                   committing, todo, base>>

\* The bound keeps real ids below the flag, as a 63-bit counter does.
CommitValidated(t) ==
    /\ MayCall(t)
    /\ Validate(t)
    /\ table.epoch < MaxEpoch
    /\ table.next + provisional[t] <= ProvisionalFlag
    /\ committing' = t
    /\ todo' = Pending(t)
    /\ base' = Len(table.changes)
    /\ UNCHANGED <<table, state, reads, epochs, writes, provisional>>

\* Mutant: descending ids within each group.
AppliedBeforeDescending(t, g, h) ==
    \/ Kind(t, g) = "Delete" /\ Kind(t, h) # "Delete"
    \/ (Kind(t, g) = "Delete" <=> Kind(t, h) = "Delete") /\ g > h

\* Deletes first, then updates and inserts; ascending ids within each.
AppliedBefore(t, g, h) ==
    \/ Kind(t, g) = "Delete" /\ Kind(t, h) # "Delete"
    \/ (Kind(t, g) = "Delete" <=> Kind(t, h) = "Delete") /\ g < h

IsNextWrite(t, h) ==
    /\ h \in todo
    /\ \A g \in todo \ {h} : AppliedBefore(t, h, g)

CanApply(t, h) ==
    \/ Kind(t, h) = "Delete" /\ CanDelete(table, h)
    \/ Kind(t, h) = "Update" /\ CanUpdate(table, h, writes[t][h].row)
    \/ Kind(t, h) = "Insert" /\ CanInsert(table, writes[t][h].row)

\* An operation that is not possible panics: the loop never goes on.
ApplyWrite(t, h) ==
    /\ committing = t
    /\ IsNextWrite(t, h)
    /\ CanApply(t, h)
    /\ table' = CASE Kind(t, h) = "Delete" -> DeleteRow(table, h)
                  [] Kind(t, h) = "Update" ->
                        UpdateRow(table, h, writes[t][h].row)
                  [] OTHER -> InsertRow(table, writes[t][h].row)
    /\ todo' = todo \ {h}
    /\ UNCHANGED <<state, reads, epochs, writes, provisional,
                   committing, base>>

\* Mutant: the buffer is returned as it is.
CollectedWholeBuffer == table.changes

\* What commit returns: the buffer less what it held before the loop.
CollectedChanges == SubSeq(table.changes, base + 1, Len(table.changes))

\* The buffer of a touched table is drained; an untouched one keeps its own.
CommitDone(t) ==
    /\ committing = t
    /\ todo = {}
    /\ table' = IF Pending(t) = {} THEN table ELSE DrainChanges(table)
    /\ state' = [state EXCEPT ![t] = "Committed"]
    /\ committing' = None
    /\ UNCHANGED <<reads, epochs, writes, provisional, todo, base>>

Next ==
    \E t \in Tx :
        \/ Begin(t)
        \/ \E id \in RowId : Get(t, id)
        \/ ObserveSet(t)
        \/ \E row \in Row : Insert(t, row)
        \/ \E h \in Handle, row \in Row : Update(t, h, row)
        \/ \E h \in Handle : Delete(t, h)
        \/ Abort(t)
        \/ CommitRejected(t)
        \/ CommitValidated(t)
        \/ \E h \in Handle : ApplyWrite(t, h)
        \/ CommitDone(t)

Spec == Init /\ [][Next]_vars

-----------------------------------------------------------------------------
(* Safety.                                                                 *)

\* The derived indexes agree with the stored rows after every single table
\* operation of every commit, not only between commits (table.rs: "Index
\* entries are moved atomically").
IndexesAgree == WellFormed(table)

\* commit.rs apply: "infallible post-validation by construction" -- no
\* operation of the loop, in its order, can meet an error and panic with
\* half of the write set applied.
ApplyNeverPanics ==
    committing # None =>
        \A h \in todo : IsNextWrite(committing, h) => CanApply(committing, h)

\* Handles with the flag are exactly the pending inserts, and were issued.
WritesKeyed ==
    \A t \in Tx : \A h \in Pending(t) :
        /\ Kind(t, h) = "Insert" <=> IsProvisional(h)
        /\ h < ProvisionalFlag + provisional[t]

\* What validation established still holds of the writes not yet applied: in
\* the middle of a commit every remaining target exists, every remaining key
\* is free, or owned by the row that takes it or by a row still to be
\* deleted, and there are ids left for the remaining inserts.
RemainingWritesFit ==
    committing # None =>
        /\ todo \subseteq Pending(committing)
        /\ \A h \in todo \ Inserts(committing) : Contains(table, h)
        /\ \A h \in todo \ Deletes(committing) :
              table.primary[writes[committing][h].row.k] \in
                  {None} \cup (todo \cap Deletes(committing))
                         \cup ({h} \cap Updates(committing))
        /\ ClaimsDistinct(committing)
        /\ \A h \in todo \cap Inserts(committing) :
              table.next + provisional[committing] <= h

IdentityKept ==
    \A id \in RowId :
        /\ id < table.next /\ table.rows[id] = None => table'.rows[id] = None
        /\ table.rows[id] # None /\ table'.rows[id] # None =>
              \/ table'.rows[id] = table.rows[id]
              \/ table'.rows[id].version > table.rows[id].version

\* A row id that was handed out names one row for ever, and the versions of
\* that row only grow: a recorded version can never come to mean other
\* contents (storage table.rs insert and update, which validation trusts).
IdentityIsStable == [][IdentityKept]_vars

\* Whatever a lookup through the write set returns is an owner of the key in
\* the view that get shows: a row deleted or moved away is never returned.
LookupIsSound ==
    \A t \in Tx :
        state[t] = "Active" /\ committing = None =>
            /\ \A k \in Key : \A h \in LookupUnique(t, k) :
                    Owner(View(t, h), "k", k)
            /\ \A z \in Zone : \A h \in LookupIndex(t, z) :
                    Owner(View(t, h), "z", z)

\* transaction.rs lookup_unique and lookup_index: "pending Insert/Update
\* writes owning the key are included" -- asked only of writes that validation
\* would not refuse for want of their target.
LookupIncludesPendingWrites ==
    \A t \in Tx : \A h \in Updates(t) \cup Inserts(t) :
        /\ state[t] = "Active" /\ committing = None
        /\ IsProvisional(h) \/ Contains(table, h)
        => /\ h \in LookupUnique(t, writes[t][h].row.k)
           /\ h \in LookupIndex(t, writes[t][h].row.z)
=============================================================================
