-------------------------- MODULE TransactionProofs --------------------------
(***************************************************************************)
(* Machine-checked proofs about Transaction, TransactionHistory and        *)
(* WriteSet, for every set of keys, zones, transactions and every bound.   *)
(* The first part is about the engine alone; the second adds the history   *)
(* variables and proves isolation, atomicity and the exactness of the      *)
(* change records; the third is about the copy-on-write write set, where a *)
(* transaction that commits holds no tombstone of an insert and, where no  *)
(* branch updates an insert it inherited, the two shared layers behave as  *)
(* deep copies.                                                            *)
(***************************************************************************)
EXTENDS TransactionHistory, WriteSet, FiniteSetTheorems, SequenceTheorems, TLAPS

-----------------------------------------------------------------------------
(* The table operations keep the indexes and the rows in agreement.        *)

\* A real insert takes the next id; the unique check keeps keys distinct.
LEMMA InsertKeepsWellFormed ==
    ASSUME NEW tb, WellFormed(tb), NEW row \in Row,
           CanInsert(tb, row), tb.next \in RowId
    PROVE  WellFormed(InsertRow(tb, row))
<1> DEFINE new == InsertRow(tb, row)
           id == tb.next
           stored == [row |-> row, version |-> 0]
<1>1. tb \in TableRecord /\ tb.rows[id] = None
  BY DEF WellFormed, FreshIdsUnused, RowId
<1>2. stored \in StoredRow /\ row.k \in Key /\ row.z \in Zone
  BY DEF StoredRow, Row
<1>3. new \in TableRecord
  <2>1. [tb.rows EXCEPT ![id] = stored] \in [RowId -> StoredRow \cup {None}]
    BY <1>1, <1>2 DEF TableRecord
  <2>2. tb.next + 1 \in 0 .. ProvisionalFlag /\ tb.epoch + 1 \in Nat
    BY <1>1, FlagAssumption DEF TableRecord, RowId
  <2>3. [tb.primary EXCEPT ![row.k] = id] \in [Key -> RowId \cup {None}]
    BY <1>1, <1>2 DEF TableRecord
  <2>4. [tb.secondary EXCEPT ![row.z] = @ \cup {id}] \in [Zone -> SUBSET RowId]
    BY <1>1, <1>2 DEF TableRecord
  <2>5. [kind |-> "Insert", id |-> id, old |-> None, new |-> stored] \in Change
    BY <1>2 DEF Change
  <2>6. new.changes \in Seq(Change)
    BY <1>1, <2>5 DEF TableRecord, InsertRow
  <2> QED
    BY <2>1, <2>2, <2>3, <2>4, <2>6 DEF TableRecord, InsertRow
<1>4. \A i \in RowId : new.rows[i] = IF i = id THEN stored ELSE tb.rows[i]
  BY <1>1 DEF InsertRow, TableRecord
<1>5. PrimaryAgrees(new)
  <2> SUFFICES ASSUME NEW k \in Key, NEW i \in RowId
               PROVE  new.primary[k] = i
                        <=> (new.rows[i] # None /\ new.rows[i].row.k = k)
    BY DEF PrimaryAgrees
  <2>1. new.primary[k] = IF k = row.k THEN id ELSE tb.primary[k]
    BY <1>1, <1>2 DEF InsertRow, TableRecord
  <2>2. tb.primary[row.k] = None
    BY DEF CanInsert
  <2>3. stored # None /\ stored.row.k = row.k
    BY <1>2, NoneAssumption
  <2>4. \A j \in RowId : tb.rows[j] # None => tb.rows[j].row.k # row.k
    BY <1>2, <2>2, NoneAssumption DEF WellFormed, PrimaryAgrees, RowId
  <2>5. CASE i = id
    BY <2>5, <1>1, <1>4, <2>1, <2>3 DEF WellFormed, PrimaryAgrees
  <2>6. CASE i # id
    BY <2>6, <1>4, <2>1, <2>4 DEF WellFormed, PrimaryAgrees
  <2> QED
    BY <2>5, <2>6
<1>6. SecondaryAgrees(new)
  <2> SUFFICES ASSUME NEW z \in Zone, NEW i \in RowId
               PROVE  i \in new.secondary[z]
                        <=> (new.rows[i] # None /\ new.rows[i].row.z = z)
    BY DEF SecondaryAgrees
  <2>1. new.secondary[z] = IF z = row.z THEN tb.secondary[z] \cup {id}
                           ELSE tb.secondary[z]
    BY <1>1, <1>2 DEF InsertRow, TableRecord
  <2>2. stored # None /\ stored.row.z = row.z
    BY <1>2, NoneAssumption
  <2> QED
    BY <1>1, <1>4, <2>1, <2>2 DEF WellFormed, SecondaryAgrees
<1>7. FreshIdsUnused(new)
  BY <1>1, <1>4 DEF WellFormed, FreshIdsUnused, InsertRow, TableRecord, RowId
<1> QED
  BY <1>3, <1>5, <1>6, <1>7 DEF WellFormed

\* An effective update moves the entry of each index whose key changed.
LEMMA UpdateKeepsWellFormed ==
    ASSUME NEW tb, WellFormed(tb), NEW id \in RowId, NEW row \in Row,
           CanUpdate(tb, id, row)
    PROVE  WellFormed(UpdateRow(tb, id, row))
<1> DEFINE new == UpdateRow(tb, id, row)
           old == tb.rows[id]
           stored == [row |-> row, version |-> old.version + 1]
<1>1. tb \in TableRecord /\ old # None /\ old \in StoredRow
  BY DEF WellFormed, CanUpdate, Contains, TableRecord
<1>2. /\ stored \in StoredRow /\ stored # None
      /\ row.k \in Key /\ row.z \in Zone
      /\ old.row \in Row /\ old.row.k \in Key /\ old.row.z \in Zone
  BY <1>1, NoneAssumption DEF StoredRow, Row
<1>3. CASE old.row = row
  BY <1>3 DEF UpdateRow
<1>4. CASE old.row # row
  <2>1. new = [rows      |-> [tb.rows EXCEPT ![id] = stored],
               next      |-> tb.next,
               epoch     |-> tb.epoch + 1,
               primary   |-> MovePrimary(tb.primary, id, old.row, row),
               secondary |-> MoveSecondary(tb.secondary, id, old.row, row),
               changes   |-> Append(tb.changes,
                               [kind |-> "Update", id |-> id,
                                old |-> old, new |-> stored])]
    BY <1>4 DEF UpdateRow
  <2>2. new \in TableRecord
    <3>1. [tb.rows EXCEPT ![id] = stored] \in [RowId -> StoredRow \cup {None}]
      BY <1>1, <1>2 DEF TableRecord
    <3>2. MovePrimary(tb.primary, id, old.row, row)
            \in [Key -> RowId \cup {None}]
      BY <1>1 DEF TableRecord, MovePrimary
    <3>3. MoveSecondary(tb.secondary, id, old.row, row)
            \in [Zone -> SUBSET RowId]
      BY <1>1 DEF TableRecord, MoveSecondary
    <3>4. [kind |-> "Update", id |-> id, old |-> old, new |-> stored]
            \in Change
      BY <1>1, <1>2 DEF Change
    <3>5. new.changes \in Seq(Change)
      BY <1>1, <2>1, <3>4 DEF TableRecord
    <3>6. tb.epoch + 1 \in Nat
      BY <1>1 DEF TableRecord
    <3> QED
      BY <1>1, <2>1, <3>1, <3>2, <3>3, <3>5, <3>6 DEF TableRecord
  <2>3. \A i \in RowId : new.rows[i] = IF i = id THEN stored ELSE tb.rows[i]
    BY <1>1, <2>1 DEF TableRecord
  <2>4. PrimaryAgrees(new)
    <3> SUFFICES ASSUME NEW k \in Key, NEW i \in RowId
                 PROVE  new.primary[k] = i
                          <=> (new.rows[i] # None /\ new.rows[i].row.k = k)
      BY DEF PrimaryAgrees
    <3>1. new.primary[k] = IF old.row.k = row.k THEN tb.primary[k]
                           ELSE IF k = row.k THEN id
                           ELSE IF k = old.row.k THEN None ELSE tb.primary[k]
      BY <2>1 DEF MovePrimary
    <3>2. tb.primary[old.row.k] = id
      BY <1>1, <1>2 DEF WellFormed, PrimaryAgrees
    <3>3. \A j \in RowId \ {id} :
             tb.rows[j] # None => tb.rows[j].row.k \notin {row.k, old.row.k}
      BY <1>2, <3>2, NoneAssumption
         DEF CanUpdate, WellFormed, PrimaryAgrees, RowId
    <3>4. stored.row.k = row.k /\ i # None
      BY NoneAssumption DEF RowId
    <3>5. CASE i = id
      BY <3>5, <1>1, <1>2, <2>3, <3>1, <3>2, <3>4 DEF WellFormed, PrimaryAgrees
    <3>6. CASE i # id
      BY <3>6, <2>3, <3>1, <3>3, <3>4 DEF WellFormed, PrimaryAgrees
    <3> QED
      BY <3>5, <3>6
  <2>5. SecondaryAgrees(new)
    <3> SUFFICES ASSUME NEW z \in Zone, NEW i \in RowId
                 PROVE  i \in new.secondary[z]
                          <=> (new.rows[i] # None /\ new.rows[i].row.z = z)
      BY DEF SecondaryAgrees
    <3>1. new.secondary[z] =
              IF old.row.z = row.z THEN tb.secondary[z]
              ELSE IF z = row.z THEN tb.secondary[z] \cup {id}
              ELSE IF z = old.row.z THEN tb.secondary[z] \ {id}
              ELSE tb.secondary[z]
      BY <2>1 DEF MoveSecondary
    <3>2. stored.row.z = row.z
      OBVIOUS
    <3> QED
      BY <1>1, <1>2, <2>3, <3>1, <3>2 DEF WellFormed, SecondaryAgrees
  <2>6. FreshIdsUnused(new)
    BY <1>1, <2>1, <2>3 DEF WellFormed, FreshIdsUnused
  <2> QED
    BY <2>2, <2>4, <2>5, <2>6 DEF WellFormed
<1> QED
  BY <1>3, <1>4

\* A delete frees the key the row owned and leaves every other entry alone.
LEMMA DeleteKeepsWellFormed ==
    ASSUME NEW tb, WellFormed(tb), NEW id \in RowId, CanDelete(tb, id)
    PROVE  WellFormed(DeleteRow(tb, id))
<1> DEFINE new == DeleteRow(tb, id)
           old == tb.rows[id]
<1>1. tb \in TableRecord /\ old # None /\ old \in StoredRow
  BY DEF WellFormed, CanDelete, Contains, TableRecord
<1>2. old.row \in Row /\ old.row.k \in Key /\ old.row.z \in Zone
  BY <1>1 DEF StoredRow, Row
<1>3. new \in TableRecord
  <2>1. [kind |-> "Delete", id |-> id, old |-> old, new |-> None] \in Change
    BY <1>1 DEF Change
  <2>2. new.changes \in Seq(Change)
    BY <1>1, <2>1 DEF TableRecord, DeleteRow
  <2>3. [tb.primary EXCEPT ![old.row.k] = None] \in [Key -> RowId \cup {None}]
    BY <1>1 DEF TableRecord
  <2>4. [tb.secondary EXCEPT ![old.row.z] = @ \ {id}] \in [Zone -> SUBSET RowId]
    BY <1>1 DEF TableRecord
  <2> QED
    BY <1>1, <2>2, <2>3, <2>4 DEF TableRecord, DeleteRow
<1>4. \A i \in RowId : new.rows[i] = IF i = id THEN None ELSE tb.rows[i]
  BY <1>1 DEF DeleteRow, TableRecord
<1>5. PrimaryAgrees(new)
  <2> SUFFICES ASSUME NEW k \in Key, NEW i \in RowId
               PROVE  new.primary[k] = i
                        <=> (new.rows[i] # None /\ new.rows[i].row.k = k)
    BY DEF PrimaryAgrees
  <2>1. new.primary[k] = IF k = old.row.k THEN None ELSE tb.primary[k]
    BY <1>1, <1>2 DEF DeleteRow, TableRecord
  <2>2. tb.primary[old.row.k] = id
    BY <1>1, <1>2 DEF WellFormed, PrimaryAgrees
  <2>3. i # None
    BY NoneAssumption DEF RowId
  <2> QED
    BY <1>1, <1>2, <1>4, <2>1, <2>2, <2>3 DEF WellFormed, PrimaryAgrees
<1>6. SecondaryAgrees(new)
  <2> SUFFICES ASSUME NEW z \in Zone, NEW i \in RowId
               PROVE  i \in new.secondary[z]
                        <=> (new.rows[i] # None /\ new.rows[i].row.z = z)
    BY DEF SecondaryAgrees
  <2>1. new.secondary[z] = IF z = old.row.z THEN tb.secondary[z] \ {id}
                           ELSE tb.secondary[z]
    BY <1>1, <1>2 DEF DeleteRow, TableRecord
  <2> QED
    BY <1>1, <1>2, <1>4, <2>1 DEF WellFormed, SecondaryAgrees
<1>7. FreshIdsUnused(new)
  BY <1>4 DEF WellFormed, FreshIdsUnused, DeleteRow
<1> QED
  BY <1>3, <1>5, <1>6, <1>7 DEF WellFormed

\* Draining the change buffer touches nothing that the indexes describe.
LEMMA DrainKeepsWellFormed ==
    ASSUME NEW tb, WellFormed(tb)
    PROVE  WellFormed(DrainChanges(tb))
<1>1. DrainChanges(tb) \in TableRecord
  BY DEF WellFormed, TableRecord, DrainChanges
<1> QED
  BY <1>1 DEF WellFormed, DrainChanges, TableRecord, PrimaryAgrees,
              SecondaryAgrees, FreshIdsUnused

-----------------------------------------------------------------------------
(* Type correctness.                                                       *)

\* ApplyNeverPanics is not inductive: nothing in it says that validation's
\* findings survive the operations applied so far.  This is.
IInv ==
    /\ TypeOK
    /\ IndexesAgree
    /\ WritesKeyed
    /\ RemainingWritesFit
    /\ committing = None => todo = {}

\* The entries that insert, update and delete buffer are write-set entries.
LEMMA EntryTypes ==
    /\ \A row \in Row : InsertEntry(row) \in WriteEntry
    /\ \A row \in Row : UpdateEntry(row) \in WriteEntry
    /\ DeleteEntry \in WriteEntry
    /\ \A e \in WriteEntry :
          /\ e.kind \in {"Insert", "Update", "Delete"}
          /\ e.kind # "Delete" => e.row \in Row
    /\ \A row \in Row : [kind |-> "Insert", row |-> row] \in WriteEntry
    /\ \A row \in Row : [kind |-> "Update", row |-> row] \in WriteEntry
BY DEF WriteEntry, InsertEntry, UpdateEntry, DeleteEntry

\* A row id of the table may be used as a write-set handle.
LEMMA RealIdsAreHandles == RowId \subseteq Handle
BY FlagAssumption, BoundAssumption DEF RowId, Handle

\* What a read records of a row is a version, or None for an absent row.
LEMMA VersionType ==
    ASSUME NEW tb \in TableRecord, NEW id
    PROVE  VersionOf(tb, id) \in Nat \cup {None}
BY DEF VersionOf, Contains, TableRecord, StoredRow

\* An operation of the apply loop keeps the table well formed.
LEMMA ApplyKeepsWellFormed ==
    ASSUME IInv, NEW t \in Tx, NEW h \in Handle, ApplyWrite(t, h)
    PROVE  IndexesAgree'
<1>1. /\ h \in Pending(t) /\ writes[t][h] \in WriteEntry
      /\ h \in todo
  <2>1. h \in todo /\ committing = t /\ committing # None
    BY NoTxAssumption DEF ApplyWrite, IsNextWrite
  <2>2. h \in Pending(t)
    BY <2>1 DEF IInv, RemainingWritesFit
  <2> QED
    BY <2>1, <2>2 DEF IInv, TypeOK, Pending
<1>2. Kind(t, h) # "Insert" => h \in RowId
  BY <1>1, FlagAssumption, BoundAssumption
     DEF IInv, WritesKeyed, IsProvisional, RowId, Handle
<1>3. CASE Kind(t, h) = "Delete"
  <2>1. table' = DeleteRow(table, h) /\ CanDelete(table, h)
    BY <1>3 DEF ApplyWrite, CanApply
  <2> QED
    BY <1>2, <1>3, <2>1, DeleteKeepsWellFormed DEF IInv, IndexesAgree
<1>4. CASE Kind(t, h) = "Update"
  <2>1. table' = UpdateRow(table, h, writes[t][h].row)
        /\ CanUpdate(table, h, writes[t][h].row)
    BY <1>4 DEF ApplyWrite, CanApply
  <2>2. writes[t][h].row \in Row
    BY <1>1, <1>4, EntryTypes DEF Kind
  <2> QED
    BY <1>2, <1>4, <2>1, <2>2, UpdateKeepsWellFormed DEF IInv, IndexesAgree
<1>5. CASE Kind(t, h) = "Insert"
  <2>1. table' = InsertRow(table, writes[t][h].row)
        /\ CanInsert(table, writes[t][h].row)
    BY <1>5 DEF ApplyWrite, CanApply
  <2>2. writes[t][h].row \in Row
    BY <1>1, <1>5, EntryTypes DEF Kind
  <2>3. table.next \in RowId
    <3>1. table.next + provisional[t] <= h /\ h < ProvisionalFlag + provisional[t]
      BY <1>1, <1>5, NoTxAssumption
         DEF IInv, RemainingWritesFit, WritesKeyed, Inserts, ApplyWrite
    <3> QED
      BY <3>1, FlagAssumption, BoundAssumption
         DEF IInv, TypeOK, TableRecord, RowId, Handle
  <2> QED
    BY <2>1, <2>2, <2>3, InsertKeepsWellFormed DEF IInv, IndexesAgree
<1> QED
  BY <1>1, <1>3, <1>4, <1>5, EntryTypes DEF Kind

\* Every initial table satisfies the inductive invariant.
LEMMA InitEstablishes == Init => IInv
<1> SUFFICES ASSUME Init PROVE IInv
  OBVIOUS
<1>1. IndexesAgree /\ table \in TableRecord
  BY InitialAssumption DEF Init, IndexesAgree, WellFormed
<1>2. TypeOK
  BY <1>1, BoundAssumption DEF Init, TypeOK
<1>3. WritesKeyed
  BY DEF Init, WritesKeyed, Pending
<1> QED
  BY <1>1, <1>2, <1>3 DEF Init, IInv, RemainingWritesFit

\* A call that buffers or finishes changes neither the table nor the loop;
\* it has only to leave the write sets keyed as they should be.
LEMMA CallPreserves ==
    ASSUME IInv, committing = None, TypeOK', WritesKeyed',
           UNCHANGED <<table, committing, todo>>
    PROVE  IInv'
BY DEF IInv, IndexesAgree, RemainingWritesFit

\* Begin empties the sets of one finished transaction.
LEMMA BeginPreserves ==
    ASSUME IInv, NEW t \in Tx, Begin(t)
    PROVE  IInv'
<1>1. TypeOK'
  BY BoundAssumption DEF IInv, TypeOK, Begin
<1>2. WritesKeyed'
  BY DEF IInv, TypeOK, WritesKeyed, Pending, Kind, Begin
<1> QED
  BY <1>1, <1>2, CallPreserves DEF Begin

\* Recording a row observation leaves table and write sets alone.
LEMMA GetPreserves ==
    ASSUME IInv, NEW t \in Tx, NEW id \in RowId, Get(t, id)
    PROVE  IInv'
<1>1. VersionOf(table, id) \in Nat \cup {None}
  BY VersionType DEF IInv, TypeOK
<1>2. TypeOK'
  BY <1>1 DEF IInv, TypeOK, Get, Record
<1>3. WritesKeyed'
  BY DEF IInv, WritesKeyed, Pending, Kind, Get
<1> QED
  BY <1>2, <1>3, CallPreserves DEF Get, MayCall

\* Recording a table epoch leaves table and write sets alone.
LEMMA ObserveSetPreserves ==
    ASSUME IInv, NEW t \in Tx, ObserveSet(t)
    PROVE  IInv'
<1>1. TypeOK'
  BY DEF IInv, TypeOK, ObserveSet, TableRecord
<1>2. WritesKeyed'
  BY DEF IInv, WritesKeyed, Pending, Kind, ObserveSet
<1> QED
  BY <1>1, <1>2, CallPreserves DEF ObserveSet, MayCall

\* A buffered insert takes the next handle, which was not issued before.
LEMMA InsertPreserves ==
    ASSUME IInv, NEW t \in Tx, NEW row \in Row, Insert(t, row)
    PROVE  IInv'
<1> DEFINE handle == ProvisionalFlag + provisional[t]
<1>1. handle \in Handle /\ IsProvisional(handle)
  BY FlagAssumption, BoundAssumption
     DEF IInv, TypeOK, Insert, Handle, IsProvisional
<1>2. /\ writes' = [writes EXCEPT ![t][handle] = InsertEntry(row)]
      /\ provisional' = [provisional EXCEPT ![t] = provisional[t] + 1]
      /\ UNCHANGED <<table, state, reads, epochs, committing, todo, base>>
  BY DEF Insert
<1>3. TypeOK'
  <2>1. writes' \in [Tx -> [Handle -> WriteEntry \cup {None}]]
    BY <1>1, <1>2, EntryTypes DEF IInv, TypeOK
  <2>2. provisional' \in [Tx -> 0 .. MaxInserts]
    BY <1>2, BoundAssumption DEF IInv, TypeOK, Insert
  <2> QED
    BY <1>2, <2>1, <2>2 DEF IInv, TypeOK
<1>4. WritesKeyed'
  <2> SUFFICES ASSUME NEW u \in Tx, NEW h \in Handle, writes'[u][h] # None
               PROVE  /\ writes'[u][h].kind = "Insert" <=> IsProvisional(h)
                      /\ h < ProvisionalFlag + provisional'[u]
    BY DEF WritesKeyed, Pending, Kind
  <2>1. CASE u = t /\ h = handle
    <3>1. writes'[u][h].kind = "Insert" /\ provisional'[u] = provisional[t] + 1
      BY <2>1, <1>1, <1>2 DEF IInv, TypeOK, InsertEntry
    <3> QED
      BY <2>1, <3>1, <1>1, FlagAssumption, BoundAssumption DEF IInv, TypeOK
  <2>2. CASE ~(u = t /\ h = handle)
    <3>1. writes'[u][h] = writes[u][h]
      BY <2>2, <1>1, <1>2 DEF IInv, TypeOK
    <3>2. provisional'[u] \in {provisional[u], provisional[u] + 1}
      BY <1>2 DEF IInv, TypeOK
    <3>3. /\ writes[u][h].kind = "Insert" <=> IsProvisional(h)
          /\ h < ProvisionalFlag + provisional[u]
      BY <3>1 DEF IInv, WritesKeyed, Pending, Kind
    <3> QED
      BY <3>1, <3>2, <3>3, FlagAssumption, BoundAssumption
         DEF IInv, TypeOK, Handle
  <2> QED
    BY <2>1, <2>2
<1> QED
  BY <1>2, <1>3, <1>4, CallPreserves DEF Insert, MayCall

\* The write-time capture records a version, or nothing.
LEMMA CapturePreservesType ==
    ASSUME IInv, NEW t \in Tx, NEW h \in Handle, Capture(t, h)
    PROVE  reads' \in [Tx -> [RowId -> Nat \cup {None, Unread}]]
<1>1. VersionOf(table, h) \in Nat \cup {None}
  BY VersionType DEF IInv, TypeOK
<1>2. CASE ~IsProvisional(h) /\ writes[t][h] = None
  <2>1. h \in RowId
    BY <1>2, FlagAssumption, BoundAssumption DEF Handle, RowId, IsProvisional
  <2>2. reads' = [reads EXCEPT ![t][h] = VersionOf(table, h)]
    BY <1>2 DEF Capture, Record
  <2> QED
    BY <1>1, <2>1, <2>2 DEF IInv, TypeOK
<1>3. CASE ~(~IsProvisional(h) /\ writes[t][h] = None)
  BY <1>3 DEF IInv, TypeOK, Capture
<1> QED
  BY <1>2, <1>3

\* One entry of one transaction is replaced by entry, or dropped.
LEMMA WriteKeepsKeys ==
    ASSUME IInv, NEW t \in Tx, NEW h \in Handle,
           NEW entry \in WriteEntry \cup {None},
           writes' = [writes EXCEPT ![t][h] = entry],
           UNCHANGED provisional,
           entry # None => /\ entry.kind = "Insert" <=> IsProvisional(h)
                           /\ h < ProvisionalFlag + provisional[t]
    PROVE  /\ writes' \in [Tx -> [Handle -> WriteEntry \cup {None}]]
           /\ WritesKeyed'
<1>1. writes' \in [Tx -> [Handle -> WriteEntry \cup {None}]]
  BY DEF IInv, TypeOK
<1>2. ASSUME NEW u \in Tx, NEW g \in Handle
      PROVE  writes'[u][g] = IF u = t /\ g = h THEN entry ELSE writes[u][g]
  BY DEF IInv, TypeOK
<1>3. WritesKeyed'
  BY <1>2 DEF IInv, WritesKeyed, Pending, Kind
<1> QED
  BY <1>1, <1>3

\* A real id is below every issued handle.
LEMMA RealIdsBelow ==
    ASSUME IInv, NEW t \in Tx, NEW h \in Handle, ~IsProvisional(h)
    PROVE  h \in RowId /\ h < ProvisionalFlag + provisional[t]
BY FlagAssumption, BoundAssumption
   DEF IInv, TypeOK, Handle, RowId, IsProvisional

\* A buffered update keeps real ids and insert handles apart.
LEMMA UpdatePreserves ==
    ASSUME IInv, NEW t \in Tx, NEW h \in Handle, NEW row \in Row,
           Update(t, h, row)
    PROVE  IInv'
<1>1. PICK entry \in WriteEntry :
          /\ writes' = [writes EXCEPT ![t][h] = entry]
          /\ entry.kind = "Insert" <=> IsProvisional(h)
          /\ h < ProvisionalFlag + provisional[t]
  <2>1. CASE writes[t][h] = None /\ ~IsProvisional(h)
    <3>1. writes' = [writes EXCEPT ![t][h] = UpdateEntry(row)]
      BY <2>1 DEF Update, Inserts, Updates, Pending
    <3>2. UpdateEntry(row) \in WriteEntry /\ UpdateEntry(row).kind = "Update"
      BY EntryTypes DEF UpdateEntry
    <3> QED
      BY <2>1, <3>1, <3>2, RealIdsBelow
  <2>2. CASE h \in Inserts(t) \cup Updates(t)
    <3> DEFINE e == [kind |-> Kind(t, h), row |-> row]
    <3>1. h \in Pending(t) /\ Kind(t, h) \in {"Insert", "Update"}
      BY <2>2 DEF Inserts, Updates
    <3>2. writes' = [writes EXCEPT ![t][h] = e]
      BY <2>2, <3>1 DEF Update, Pending
    <3>3. e \in WriteEntry /\ e.kind = Kind(t, h)
      BY <3>1, EntryTypes
    <3>4. /\ Kind(t, h) = "Insert" <=> IsProvisional(h)
          /\ h < ProvisionalFlag + provisional[t]
      BY <3>1 DEF IInv, WritesKeyed
    <3> HIDE DEF e
    <3> QED
      BY <3>2, <3>3, <3>4
  <2> QED
    BY <2>1, <2>2 DEF Update
<1>2. /\ UNCHANGED <<table, state, epochs, provisional, committing, todo, base>>
      /\ committing = None
  BY DEF Update, MayCall
<1>3. /\ writes' \in [Tx -> [Handle -> WriteEntry \cup {None}]]
      /\ WritesKeyed'
  BY <1>1, <1>2, WriteKeepsKeys
<1>4. TypeOK'
  BY <1>2, <1>3, CapturePreservesType DEF IInv, TypeOK, Update
<1> QED
  BY <1>2, <1>3, <1>4, CallPreserves

\* A buffered delete keeps them apart: an insert is dropped, not replaced.
LEMMA DeletePreserves ==
    ASSUME IInv, NEW t \in Tx, NEW h \in Handle, Delete(t, h)
    PROVE  IInv'
<1>1. PICK entry \in WriteEntry \cup {None} :
          /\ writes' = [writes EXCEPT ![t][h] = entry]
          /\ entry # None => /\ entry.kind = "Insert" <=> IsProvisional(h)
                             /\ h < ProvisionalFlag + provisional[t]
  <2>1. DeleteEntry \in WriteEntry /\ DeleteEntry.kind = "Delete"
    BY EntryTypes DEF DeleteEntry
  <2>2. CASE writes' = [writes EXCEPT ![t][h] = DeleteEntry]
             /\ ~IsProvisional(h)
    BY <2>1, <2>2, RealIdsBelow
  <2>3. CASE writes' = [writes EXCEPT ![t][h] = DeleteEntry]
             /\ h \in Updates(t)
    <3>1. ~IsProvisional(h)
      BY <2>3 DEF IInv, WritesKeyed, Updates
    <3> QED
      BY <2>1, <2>3, <3>1, RealIdsBelow
  <2>4. CASE writes' = [writes EXCEPT ![t][h] = None]
    BY <2>4
  <2> QED
    BY <2>2, <2>3, <2>4 DEF Delete
<1>2. /\ UNCHANGED <<table, state, epochs, provisional, committing, todo, base>>
      /\ committing = None
  BY DEF Delete, MayCall
<1>3. /\ writes' \in [Tx -> [Handle -> WriteEntry \cup {None}]]
      /\ WritesKeyed'
  BY <1>1, <1>2, WriteKeepsKeys
<1>4. TypeOK'
  BY <1>2, <1>3, CapturePreservesType DEF IInv, TypeOK, Delete
<1> QED
  BY <1>2, <1>3, <1>4, CallPreserves

\* Abort, and a rejected commit, change the state of one transaction.
LEMMA AbortPreserves ==
    ASSUME IInv, NEW t \in Tx, Abort(t) \/ CommitRejected(t)
    PROVE  IInv'
<1>1. /\ state' = [state EXCEPT ![t] = "Aborted"]
      /\ UNCHANGED <<table, reads, epochs, writes, provisional,
                     committing, todo, base>>
      /\ committing = None
  BY DEF Abort, CommitRejected, MayCall
<1>2. TypeOK'
  BY <1>1 DEF IInv, TypeOK
<1>3. WritesKeyed'
  BY <1>1 DEF IInv, WritesKeyed, Pending, Kind
<1> QED
  BY <1>1, <1>2, <1>3, CallPreserves

\* Validation establishes everything the loop relies on.
LEMMA CommitValidatedPreserves ==
    ASSUME IInv, NEW t \in Tx, CommitValidated(t)
    PROVE  IInv'
<1>1. /\ committing' = t /\ todo' = Pending(t)
      /\ base' = Len(table.changes)
      /\ UNCHANGED <<table, state, reads, epochs, writes, provisional>>
      /\ table.next + provisional[t] <= ProvisionalFlag
  BY DEF CommitValidated
<1>2. /\ Pending(t)' = Pending(t) /\ Inserts(t)' = Inserts(t)
      /\ Updates(t)' = Updates(t) /\ Deletes(t)' = Deletes(t)
      /\ ClaimsDistinct(t)' <=> ClaimsDistinct(t)
  BY <1>1 DEF Pending, Inserts, Updates, Deletes, Kind, ClaimsDistinct
<1>3. \A h \in Pending(t) : h \in Deletes(t) \cup Updates(t) \cup Inserts(t)
  BY EntryTypes DEF IInv, TypeOK, Pending, Deletes, Updates, Inserts, Kind
<1>4. TypeOK'
  <2>1. Len(table.changes) \in Nat
    BY DEF IInv, TypeOK, TableRecord
  <2> QED
    BY <1>1, <2>1 DEF IInv, TypeOK, Pending
<1>5. WritesKeyed' /\ IndexesAgree'
  BY <1>1 DEF IInv, WritesKeyed, Pending, Kind, IndexesAgree
<1>6. \A h \in Pending(t) \ Inserts(t) : Contains(table, h)
  BY <1>3 DEF CommitValidated, Validate, TargetsExist
<1>7. \A h \in Pending(t) \ Deletes(t) :
         table.primary[writes[t][h].row.k] \in
             {None} \cup (Pending(t) \cap Deletes(t)) \cup ({h} \cap Updates(t))
  BY <1>3 DEF CommitValidated, Validate, KeysFree, Deletes
<1>8. \A h \in Pending(t) \cap Inserts(t) : table.next + provisional[t] <= h
  <2>1. \A h \in Inserts(t) : h \in Handle /\ h >= ProvisionalFlag
    BY DEF IInv, WritesKeyed, Inserts, IsProvisional, Pending
  <2>2. table.next \in Nat /\ provisional[t] \in Nat
    BY BoundAssumption, FlagAssumption DEF IInv, TypeOK, TableRecord
  <2> QED
    BY <1>1, <2>1, <2>2, FlagAssumption, BoundAssumption DEF Handle
<1>9. RemainingWritesFit'
  BY <1>1, <1>2, <1>6, <1>7, <1>8
     DEF RemainingWritesFit, CommitValidated, Validate, Contains
<1> QED
  BY <1>1, <1>4, <1>5, <1>9, NoTxAssumption DEF IInv

\* The end of a commit drains the buffer and frees the store.
LEMMA CommitDonePreserves ==
    ASSUME IInv, NEW t \in Tx, CommitDone(t)
    PROVE  IInv'
<1>1. IndexesAgree'
  BY DrainKeepsWellFormed DEF IInv, IndexesAgree, CommitDone
<1>2. TypeOK'
  BY <1>1 DEF IInv, TypeOK, CommitDone, IndexesAgree, WellFormed
<1>3. WritesKeyed'
  BY DEF IInv, WritesKeyed, Pending, Kind, CommitDone
<1> QED
  BY <1>1, <1>2, <1>3 DEF IInv, RemainingWritesFit, CommitDone

-----------------------------------------------------------------------------
(* One table operation and the writes that are left.                       *)

(* Apply: what is left to show of a table operation, once the writes that *)
(* remain are known to fit the tables.                                     *)
LEMMA StillFits ==
    ASSUME NEW t \in Tx, committing' = t, todo' \subseteq Pending(t)',
           \A g \in todo' \ Inserts(t)' : Contains(table', g),
           \A g \in todo' \ Deletes(t)' :
               table'.primary[writes'[t][g].row.k] \in
                   {None} \cup (todo' \cap Deletes(t)') \cup ({g} \cap Updates(t)'),
           ClaimsDistinct(t)',
           \A g \in todo' \cap Inserts(t)' : table'.next + provisional'[t] <= g
    PROVE  RemainingWritesFit'
BY DEF RemainingWritesFit

\* A delete can only free keys; an update or insert comes when no delete is
\* left and takes a key no remaining write claims.
LEMMA ApplyPreserves ==
    ASSUME IInv, NEW t \in Tx, NEW h \in Handle, ApplyWrite(t, h)
    PROVE  IInv'
<1>1. IndexesAgree'
  BY ApplyKeepsWellFormed
<1>2. /\ committing = t /\ committing # None /\ committing' = t
      /\ todo' = todo \ {h} /\ h \in todo
      /\ UNCHANGED <<state, reads, epochs, writes, provisional, base>>
  BY NoTxAssumption DEF ApplyWrite, IsNextWrite
<1>3. TypeOK'
  BY <1>1, <1>2 DEF IInv, TypeOK, IndexesAgree, WellFormed
<1>4. WritesKeyed'
  BY <1>2 DEF IInv, WritesKeyed, Pending, Kind
<1>5. /\ Pending(t)' = Pending(t) /\ Inserts(t)' = Inserts(t)
      /\ Updates(t)' = Updates(t) /\ Deletes(t)' = Deletes(t)
      /\ ClaimsDistinct(t)' <=> ClaimsDistinct(t)
  BY <1>2 DEF Pending, Inserts, Updates, Deletes, Kind, ClaimsDistinct
<1>6. /\ todo \subseteq Pending(t)
      /\ \A g \in todo \ Inserts(t) : Contains(table, g)
      /\ \A g \in todo \ Deletes(t) :
            table.primary[writes[t][g].row.k] \in
                {None} \cup (todo \cap Deletes(t)) \cup ({g} \cap Updates(t))
      /\ ClaimsDistinct(t)
      /\ \A g \in todo \cap Inserts(t) : table.next + provisional[t] <= g
  BY <1>2 DEF IInv, RemainingWritesFit
<1>7. /\ table \in TableRecord
      /\ h \in Pending(t) /\ writes[t][h] \in WriteEntry
  BY <1>2, <1>6 DEF IInv, TypeOK, Pending
<1>8. \A g \in todo \ Inserts(t) : g \in RowId
  BY <1>6, FlagAssumption, BoundAssumption
     DEF IInv, WritesKeyed, Inserts, IsProvisional, RowId, Handle, Pending
<1>9. \A g \in todo \ Deletes(t) : writes[t][g].row.k \in Key
  <2> SUFFICES ASSUME NEW g \in todo \ Deletes(t)
               PROVE  writes[t][g].row.k \in Key
    OBVIOUS
  <2>1. g \in Pending(t) /\ writes[t][g] \in WriteEntry
    BY <1>6 DEF IInv, TypeOK, Pending
  <2>2. writes[t][g].kind # "Delete"
    BY <2>1 DEF Deletes, Kind
  <2>3. writes[t][g].row \in Row
    BY <2>1, <2>2, EntryTypes
  <2> QED BY <2>3 DEF Row
<1>10. CASE Kind(t, h) = "Delete"
  <2>1. table' = DeleteRow(table, h) /\ h \in Deletes(t) /\ h \in RowId
    BY <1>2, <1>6, <1>7, <1>8, <1>10
       DEF ApplyWrite, Deletes, Inserts
  <2>2. /\ \A i \in RowId \ {h} : table'.rows[i] = table.rows[i]
        /\ table'.next = table.next
    BY <1>7, <2>1 DEF DeleteRow, TableRecord
  <2>3. table.rows[h] # None /\ table.rows[h].row.k \in Key
    BY <1>2, <1>6, <1>7, <1>10, <2>1
       DEF Contains, Inserts, TableRecord, StoredRow, Row
  <2>4. \A k \in Key : table'.primary[k] =
            IF k = table.rows[h].row.k THEN None ELSE table.primary[k]
    BY <1>7, <2>1 DEF DeleteRow, TableRecord
  <2>5. \A k \in Key : table.primary[k] = h => k = table.rows[h].row.k
    BY <2>1 DEF IInv, IndexesAgree, WellFormed, PrimaryAgrees
  <2>6. \A g \in todo' \ Inserts(t) : Contains(table', g)
    BY <1>2, <1>6, <1>8, <2>2 DEF Contains
  <2>7. \A g \in todo' \ Deletes(t) :
           table'.primary[writes[t][g].row.k] \in
               {None} \cup (todo' \cap Deletes(t)) \cup ({g} \cap Updates(t))
    BY <1>2, <1>6, <1>9, <2>1, <2>4, <2>5
  <2>8. \A g \in todo' \cap Inserts(t) : table'.next + provisional[t] <= g
    BY <1>2, <1>6, <2>2
  <2>9. RemainingWritesFit'
    <3>1. todo' \subseteq Pending(t)' /\ ClaimsDistinct(t)' /\ writes' = writes
          /\ provisional' = provisional
      BY <1>2, <1>5, <1>6
    <3> QED BY <1>2, <1>5, <2>6, <2>7, <2>8, <3>1, StillFits
  <2> QED BY <1>1, <1>2, <1>3, <1>4, <2>9, NoTxAssumption DEF IInv
<1>11. CASE Kind(t, h) # "Delete"
  <2>1. \A g \in todo : g \notin Deletes(t)
    BY <1>11, <1>6 DEF ApplyWrite, IsNextWrite, AppliedBefore, Deletes
  <2>2. h \in Updates(t) \cup Inserts(t) /\ writes[t][h].row \in Row
    BY <1>7, <1>11, EntryTypes DEF Updates, Inserts, Kind
  <2>3. \A g \in todo \ {h} : writes[t][g].row.k # writes[t][h].row.k
    <3> SUFFICES ASSUME NEW g \in todo, g # h
                 PROVE  writes[t][g].row.k # writes[t][h].row.k
      OBVIOUS
    <3>1. g \in Pending(t) /\ writes[t][g] \in WriteEntry
      BY <1>6 DEF IInv, TypeOK, Pending
    <3>2. writes[t][g].kind \in {"Insert", "Update", "Delete"}
      BY <3>1, EntryTypes
    <3>3. g \in Updates(t) \cup Inserts(t)
      BY <2>1, <3>1, <3>2 DEF Updates, Inserts, Deletes, Kind
    <3> QED BY <1>6, <2>2, <3>3 DEF ClaimsDistinct
  <2>4. CASE Kind(t, h) = "Update"
    <3>1. table' = UpdateRow(table, h, writes[t][h].row)
      BY <2>4 DEF ApplyWrite
    <3>2. h \in RowId /\ Contains(table, h)
      BY <1>2, <1>6, <1>8, <2>4 DEF Inserts
    <3>3. /\ table'.next = table.next
          /\ \A i \in RowId : table.rows[i] # None => table'.rows[i] # None
      <4>1. [row |-> writes[t][h].row, version |-> table.rows[h].version + 1]
              # None
        BY <1>7, <2>2, <3>2, NoneAssumption
           DEF Contains, TableRecord, StoredRow
      <4> QED
        BY <1>7, <3>1, <3>2, <4>1 DEF UpdateRow, TableRecord
    <3>4. \A k \in Key : k # writes[t][h].row.k =>
             table'.primary[k] \in {table.primary[k], None}
      BY <3>1 DEF UpdateRow, MovePrimary
    <3>5. \A g \in todo' \ Inserts(t) : Contains(table', g)
      BY <1>2, <1>6, <1>8, <3>3 DEF Contains
    <3>6. \A g \in todo' \ Deletes(t) :
             table'.primary[writes[t][g].row.k] \in
                 {None} \cup (todo' \cap Deletes(t)) \cup ({g} \cap Updates(t))
      BY <1>2, <1>6, <1>9, <2>1, <2>3, <3>4
    <3>7. \A g \in todo' \cap Inserts(t) : table'.next + provisional[t] <= g
      BY <1>2, <1>6, <3>3
    <3>8. RemainingWritesFit'
      <4>1. todo' \subseteq Pending(t)' /\ ClaimsDistinct(t)' /\ writes' = writes
            /\ provisional' = provisional
        BY <1>2, <1>5, <1>6
      <4> QED BY <1>2, <1>5, <3>5, <3>6, <3>7, <4>1, StillFits
    <3> QED BY <1>1, <1>2, <1>3, <1>4, <3>8, NoTxAssumption DEF IInv
  <2>5. CASE Kind(t, h) = "Insert"
    <3>1. table' = InsertRow(table, writes[t][h].row)
      BY <2>5 DEF ApplyWrite
    <3>2. /\ table'.next = table.next + 1
          /\ \A i \in RowId : table.rows[i] # None => table'.rows[i] # None
      <4>1. [row |-> writes[t][h].row, version |-> 0] # None
        BY <2>2, NoneAssumption DEF StoredRow
      <4> QED
        BY <1>7, <3>1, <4>1 DEF InsertRow, TableRecord
    <3>3. \A k \in Key : k # writes[t][h].row.k =>
             table'.primary[k] = table.primary[k]
      BY <1>7, <3>1 DEF InsertRow, TableRecord
    <3>4. \A g \in todo' \ Inserts(t) : Contains(table', g)
      BY <1>2, <1>6, <1>8, <3>2 DEF Contains
    <3>5. \A g \in todo' \ Deletes(t) :
             table'.primary[writes[t][g].row.k] \in
                 {None} \cup (todo' \cap Deletes(t)) \cup ({g} \cap Updates(t))
      BY <1>2, <1>6, <1>9, <2>1, <2>3, <3>3
    <3>6. \A g \in todo' \cap Inserts(t) : table'.next + provisional[t] <= g
      <4> SUFFICES ASSUME NEW g \in todo' \cap Inserts(t)
                   PROVE  table'.next + provisional[t] <= g
        OBVIOUS
      <4>1. h < g /\ g \in Handle
        BY <1>2, <1>6, <2>1, <2>5
           DEF ApplyWrite, IsNextWrite, AppliedBefore, Inserts, Deletes, Pending
      <4>2. table.next + provisional[t] <= h
        BY <1>2, <1>6, <1>7, <2>5 DEF Inserts
      <4> QED
        BY <4>1, <4>2, <3>2, <1>7 DEF Handle, TableRecord, IInv, TypeOK
    <3>7. RemainingWritesFit'
      <4>1. todo' \subseteq Pending(t)' /\ ClaimsDistinct(t)' /\ writes' = writes
            /\ provisional' = provisional
        BY <1>2, <1>5, <1>6
      <4> QED BY <1>2, <1>5, <3>4, <3>5, <3>6, <4>1, StillFits
    <3> QED BY <1>1, <1>2, <1>3, <1>4, <3>7, NoTxAssumption DEF IInv
  <2> QED
    BY <1>7, <1>11, <2>4, <2>5, EntryTypes DEF Kind
<1> QED
  BY <1>10, <1>11

-----------------------------------------------------------------------------
(* The invariants of the specification.                                    *)

\* The inductive invariant is preserved by every step.
LEMMA NextPreserves == IInv /\ [Next]_vars => IInv'
<1> SUFFICES ASSUME IInv, [Next]_vars PROVE IInv'
  OBVIOUS
<1>1. CASE UNCHANGED vars
  <2>1. /\ table' = table /\ state' = state /\ reads' = reads
        /\ epochs' = epochs /\ writes' = writes
        /\ provisional' = provisional /\ committing' = committing
        /\ todo' = todo /\ base' = base
    BY <1>1 DEF vars
  <2>2. TypeOK'
    BY <2>1 DEF IInv, TypeOK
  <2>3. IndexesAgree'
    BY <2>1 DEF IInv, IndexesAgree
  <2>4. WritesKeyed'
    BY <2>1 DEF IInv, WritesKeyed, Pending, Kind
  <2>5. RemainingWritesFit'
    <3>1. \A t : /\ Pending(t)' = Pending(t) /\ Inserts(t)' = Inserts(t)
                 /\ Updates(t)' = Updates(t) /\ Deletes(t)' = Deletes(t)
      BY <2>1 DEF Pending, Kind, Inserts, Updates, Deletes
    <3>2. \A t : ClaimsDistinct(t)' <=> ClaimsDistinct(t)
      BY <2>1, <3>1 DEF ClaimsDistinct
    <3> QED
      BY <2>1, <3>1, <3>2 DEF IInv, RemainingWritesFit
  <2> QED
    BY <2>1, <2>2, <2>3, <2>4, <2>5 DEF IInv
<1>2. CASE Next
  BY <1>2, BeginPreserves, GetPreserves, ObserveSetPreserves,
     InsertPreserves, UpdatePreserves, DeletePreserves, AbortPreserves,
     CommitValidatedPreserves, ApplyPreserves, CommitDonePreserves
     DEF Next
<1> QED
  BY <1>1, <1>2

\* The inductive invariant: validation's findings survive, for the writes
\* still to be applied, every operation commit applies.
THEOREM Inductive == Spec => []IInv
BY InitEstablishes, NextPreserves, PTL DEF Spec

\* Every variable keeps its type; in particular no commit ever hands out a
\* row id that carries the provisional flag.
THEOREM TypeCorrect == Spec => []TypeOK
<1>1. IInv => TypeOK
  BY DEF IInv
<1> QED
  BY <1>1, Inductive, PTL

\* The primary and the secondary index agree with the stored rows after
\* every table operation, whatever transactions interleave.
THEOREM IndexesAlwaysAgree == Spec => []IndexesAgree
<1>1. IInv => IndexesAgree
  BY DEF IInv
<1> QED
  BY <1>1, Inductive, PTL

\* commit.rs apply never reaches one of its expect panics: what validate
\* accepted, the loop can apply to the end in its own order.
THEOREM CommitNeverPanics == Spec => []ApplyNeverPanics
<1>1. IInv => ApplyNeverPanics
  <2> SUFFICES ASSUME IInv, committing # None, NEW h \in todo,
                      IsNextWrite(committing, h)
               PROVE  CanApply(committing, h)
    BY DEF ApplyNeverPanics
  <2> DEFINE t == committing
  <2>1. t \in Tx /\ h \in Pending(t) /\ writes[t][h] \in WriteEntry
    BY DEF IInv, TypeOK, RemainingWritesFit, Pending
  <2>2. CASE Kind(t, h) = "Delete"
    BY <2>2 DEF IInv, RemainingWritesFit, CanApply, CanDelete, Inserts
  <2>3. CASE Kind(t, h) # "Delete"
    <3>1. todo \cap Deletes(t) = {}
      BY <2>3 DEF IsNextWrite, AppliedBefore, Deletes
    <3>2. table.primary[writes[t][h].row.k] \in {None} \cup ({h} \cap Updates(t))
      BY <2>3, <3>1 DEF IInv, RemainingWritesFit, Deletes
    <3>3. CASE Kind(t, h) = "Update"
      BY <3>2, <3>3 DEF IInv, RemainingWritesFit, CanApply, CanUpdate, Inserts
    <3>4. CASE Kind(t, h) = "Insert"
      BY <3>2, <3>4 DEF CanApply, CanInsert, Updates
    <3> QED
      BY <2>1, <2>3, <3>3, <3>4, EntryTypes DEF Kind
  <2> QED
    BY <2>2, <2>3
<1> QED
  BY <1>1, Inductive, PTL

\* What the loop relies on between two of its operations.
THEOREM RemainingWritesAlwaysFit == Spec => []RemainingWritesFit
<1>1. IInv => RemainingWritesFit
  BY DEF IInv
<1> QED
  BY <1>1, Inductive, PTL

\* A lookup through the write set never returns a row that the transaction
\* itself sees elsewhere: it rests on the index agreeing with the rows.
THEOREM LookupsAreSound == Spec => []LookupIsSound
<1>1. IInv => LookupIsSound
  <2> SUFFICES ASSUME IInv, NEW t \in Tx
               PROVE  /\ \A k \in Key : \A h \in LookupUnique(t, k) :
                            Owner(View(t, h), "k", k)
                      /\ \A z \in Zone : \A h \in LookupIndex(t, z) :
                            Owner(View(t, h), "z", z)
    BY DEF LookupIsSound
  <2>1. ASSUME NEW h \in Pending(t), NEW f, NEW v, Owner(writes[t][h].row, f, v)
        PROVE  Owner(View(t, h), f, v)
    BY <2>1 DEF View, Pending
  <2>2. ASSUME NEW k \in Key, NEW h \in LookupUnique(t, k)
        PROVE  Owner(View(t, h), "k", k)
    <3>1. CASE h \in RowId /\ h = table.primary[k] /\ writes[t][h] = None
      <4>1. table.rows[h] # None /\ table.rows[h].row.k = k
        BY <3>1 DEF IInv, IndexesAgree, WellFormed, PrimaryAgrees
      <4>2. table.rows[h].row # None
        BY <3>1, <4>1, NoneAssumption
           DEF IInv, TypeOK, TableRecord, StoredRow
      <4> QED
        BY <3>1, <4>1, <4>2 DEF View, Owner, Contains
    <3>2. CASE writes[t][h] # None /\ h \in Handle
      BY <2>1, <2>2, <3>2 DEF LookupUnique, LookupOwners, Pending
    <3>3. /\ h \in Pending(t) \/ (h = table.primary[k] /\ h # None)
      BY <2>2 DEF LookupUnique, LookupOwners
    <3>4. table.primary[k] \in RowId \cup {None}
      BY DEF IInv, TypeOK, TableRecord
    <3> QED
      BY <3>1, <3>2, <3>3, <3>4, RealIdsAreHandles DEF Pending
  <2>3. ASSUME NEW z \in Zone, NEW h \in LookupIndex(t, z)
        PROVE  Owner(View(t, h), "z", z)
    <3>1. CASE h \in RowId /\ h \in table.secondary[z] /\ writes[t][h] = None
      <4>1. table.rows[h] # None /\ table.rows[h].row.z = z
        BY <3>1 DEF IInv, IndexesAgree, WellFormed, SecondaryAgrees
      <4>2. table.rows[h].row # None
        BY <3>1, <4>1, NoneAssumption
           DEF IInv, TypeOK, TableRecord, StoredRow
      <4> QED
        BY <3>1, <4>1, <4>2 DEF View, Owner, Contains
    <3>2. CASE writes[t][h] # None /\ h \in Handle
      BY <2>1, <2>3, <3>2 DEF LookupIndex, LookupOwners, Pending
    <3>3. /\ h \in Pending(t) \/ h \in table.secondary[z]
      BY <2>3 DEF LookupIndex, LookupOwners
    <3>4. table.secondary[z] \subseteq RowId
      BY DEF IInv, TypeOK, TableRecord
    <3> QED
      BY <3>1, <3>2, <3>3, <3>4, RealIdsAreHandles DEF Pending
  <2> QED
    BY <2>2, <2>3
<1> QED
  BY <1>1, Inductive, PTL

\* No step reuses a row id or takes a version back.
LEMMA IdentityStep == IInv /\ [Next]_vars => IdentityKept
<1> SUFFICES ASSUME IInv, [Next]_vars, NEW i \in RowId
             PROVE  /\ i < table.next /\ table.rows[i] = None
                          => table'.rows[i] = None
                    /\ table.rows[i] # None /\ table'.rows[i] # None =>
                          \/ table'.rows[i] = table.rows[i]
                          \/ table'.rows[i].version > table.rows[i].version
  BY DEF IdentityKept
<1>1. CASE table'.rows = table.rows
  BY <1>1
<1>2. ASSUME NEW t \in Tx, NEW h \in Handle, ApplyWrite(t, h)
      PROVE  /\ i < table.next /\ table.rows[i] = None
                   => table'.rows[i] = None
             /\ table.rows[i] # None /\ table'.rows[i] # None =>
                   \/ table'.rows[i] = table.rows[i]
                   \/ table'.rows[i].version > table.rows[i].version
  <2>1. table \in TableRecord /\ FreshIdsUnused(table)
    BY DEF IInv, IndexesAgree, WellFormed
  <2>2. CASE table' = DeleteRow(table, h)
    BY <2>1, <2>2 DEF DeleteRow, TableRecord
  <2>3. CASE table' = UpdateRow(table, h, writes[t][h].row)
               /\ Contains(table, h)
    <3> DEFINE stored == [row |-> writes[t][h].row,
                          version |-> table.rows[h].version + 1]
    <3>1. table'.rows = table.rows
            \/ table'.rows = [table.rows EXCEPT ![h] = stored]
      BY <2>3 DEF UpdateRow
    <3>2. h \in RowId /\ table.rows[h] # None
            /\ table.rows[h].version \in Nat
      BY <2>1, <2>3 DEF Contains, TableRecord, StoredRow
    <3>3. stored.version > table.rows[h].version
      BY <3>2
    <3> QED
      BY <2>1, <3>1, <3>2, <3>3 DEF TableRecord
  <2>4. CASE table' = InsertRow(table, writes[t][h].row)
    <3>1. table'.rows = [table.rows EXCEPT ![table.next] =
                            [row |-> writes[t][h].row, version |-> 0]]
      BY <2>4 DEF InsertRow
    <3>2. i = table.next => table.rows[i] = None
      BY <2>1 DEF FreshIdsUnused, TableRecord, RowId
    <3> QED
      BY <2>1, <3>1, <3>2, FlagAssumption DEF TableRecord, RowId
  <2> QED
    BY <1>2, <2>2, <2>3, <2>4 DEF ApplyWrite, CanApply, CanUpdate
<1>3. CASE Next
  <2>1. (\E t \in Tx, h \in Handle : ApplyWrite(t, h))
           \/ table'.rows = table.rows
    BY <1>3 DEF Next, Begin, Get, ObserveSet, Insert, Update, Delete, Abort,
       CommitRejected, CommitValidated, CommitDone, DrainChanges
  <2> QED
    BY <1>1, <1>2, <2>1
<1> QED
  BY <1>1, <1>3 DEF vars

\* Row ids are never reused and versions only grow, so that the version a
\* transaction recorded can only ever stand for the contents it was shown.
THEOREM IdentityAlwaysStable == Spec => IdentityIsStable
BY IdentityStep, Inductive, PTL DEF Spec, IdentityIsStable

-----------------------------------------------------------------------------
(* The history variables only watch: what is proved of Spec holds of HSpec. *)

\* A step of the history is a step of the transaction engine.
LEMMA HistoryStep == [HNext]_hvars => [Next]_vars
BY DEF HNext, hvars, Next, vars, Finishing

\* The inductive invariant of the engine holds under the history too.
LEMMA HistoryInductive == HSpec => []IInv
<1>1. HInit => IInv
  BY InitEstablishes DEF HInit
<1> QED
  BY <1>1, HistoryStep, NextPreserves, PTL DEF HSpec

-----------------------------------------------------------------------------
(* Isolation: a version or an epoch that did not change stands for         *)
(* contents that did not change.                                           *)

\* What the table may do under the eyes of the other transactions.
TableMoves ==
    /\ table.next <= table'.next
    /\ table.epoch <= table'.epoch
    /\ table'.epoch = table.epoch => table'.rows = table.rows
    /\ IdentityKept

\* No step takes the counters back, and rows change only with the epoch.
LEMMA TableStep == IInv /\ [Next]_vars => TableMoves
<1> SUFFICES ASSUME IInv, [Next]_vars
             PROVE  /\ table.next <= table'.next
                    /\ table.epoch <= table'.epoch
                    /\ table'.epoch = table.epoch => table'.rows = table.rows
  BY IdentityStep DEF TableMoves
<1>1. table \in TableRecord /\ table.next \in Nat /\ table.epoch \in Nat
  BY FlagAssumption DEF IInv, TypeOK, TableRecord
<1>2. CASE /\ table'.rows = table.rows /\ table'.next = table.next
           /\ table'.epoch = table.epoch
  BY <1>1, <1>2
<1>3. ASSUME NEW t \in Tx, NEW h \in Handle, ApplyWrite(t, h)
      PROVE  /\ table.next <= table'.next
             /\ table.epoch <= table'.epoch
             /\ table'.epoch = table.epoch => table'.rows = table.rows
  <2>1. CASE table' = DeleteRow(table, h)
    BY <1>1, <2>1 DEF DeleteRow
  <2>2. CASE table' = UpdateRow(table, h, writes[t][h].row)
    BY <1>1, <2>2 DEF UpdateRow
  <2>3. CASE table' = InsertRow(table, writes[t][h].row)
    BY <1>1, <2>3 DEF InsertRow
  <2> QED
    BY <1>3, <2>1, <2>2, <2>3 DEF ApplyWrite
<1>4. CASE Next
  <2>1. \/ \E t \in Tx, h \in Handle : ApplyWrite(t, h)
        \/ /\ table'.rows = table.rows /\ table'.next = table.next
           /\ table'.epoch = table.epoch
    BY <1>4 DEF Next, Begin, Get, ObserveSet, Insert, Update, Delete, Abort,
       CommitRejected, CommitValidated, CommitDone, DrainChanges
  <2> QED
    BY <1>2, <1>3, <2>1
<1> QED
  BY <1>2, <1>4 DEF vars

\* What a recorded row observation means: the version is behind the row's,
\* or it still stands for the contents that were shown.  A row that was seen
\* has an id that will not be handed out again.
RowTold(t, id) ==
    /\ reads[t][id] = Unread => last[t][id] = Unread
    /\ reads[t][id] = None => last[t][id] = None
    /\ reads[t][id] \in Nat =>
          /\ id < table.next
          /\ Contains(table, id) =>
                /\ reads[t][id] <= table.rows[id].version
                /\ reads[t][id] = table.rows[id].version
                      => last[t][id] = table.rows[id].row

\* The same for a set observation and the table's epoch.
SetTold(t) ==
    /\ epochs[t] = Unread => lastSet[t] = Unread
    /\ epochs[t] \in Nat =>
          /\ epochs[t] <= table.epoch
          /\ epochs[t] = table.epoch => lastSet[t] = Contents(table)

\* A finished transaction has no history left.
Told(t) ==
    IF state[t] = "Active"
    THEN SetTold(t) /\ \A id \in RowId : RowTold(t, id)
    ELSE lastSet[t] = Unread /\ \A id \in RowId : last[t][id] = Unread

SeenTypes ==
    /\ last = [t \in Tx |-> [id \in RowId |-> last[t][id]]]
    /\ lastSet = [t \in Tx |-> lastSet[t]]

HistoriesHold ==
    /\ SeenTypes
    /\ \A t \in Tx : Told(t)

\* A row observation stays good while the table moves.
LEMMA RowStaysTold ==
    ASSUME IInv, TableMoves, NEW t \in Tx, NEW id \in RowId, RowTold(t, id),
           reads'[t][id] = reads[t][id], last'[t][id] = last[t][id],
           table' \in TableRecord
    PROVE  RowTold(t, id)'
<1>1. table \in TableRecord /\ table.next \in Int /\ table'.next \in Int
      /\ id \in Int
  BY FlagAssumption DEF IInv, TypeOK, TableRecord, RowId
<1>2. table.next <= table'.next
  BY DEF TableMoves
<1>3. CASE reads[t][id] \in Nat
  <2>1. id < table.next /\ id < table'.next
    BY <1>1, <1>2, <1>3 DEF RowTold
  <2>2. ASSUME Contains(table', id)
        PROVE  /\ reads[t][id] <= table'.rows[id].version
               /\ reads[t][id] = table'.rows[id].version
                      => last[t][id] = table'.rows[id].row
    <3>1. table.rows[id] # None /\ table'.rows[id] # None
      BY <2>1, <2>2 DEF TableMoves, IdentityKept, Contains
    <3>2. \/ table'.rows[id] = table.rows[id]
          \/ table'.rows[id].version > table.rows[id].version
      BY <3>1 DEF TableMoves, IdentityKept
    <3>3. table.rows[id].version \in Nat /\ table'.rows[id].version \in Nat
      BY <1>1, <3>1 DEF TableRecord, StoredRow
    <3>4. /\ reads[t][id] <= table.rows[id].version
          /\ reads[t][id] = table.rows[id].version
                => last[t][id] = table.rows[id].row
      BY <1>3, <3>1 DEF RowTold, Contains
    <3> QED
      BY <1>3, <3>2, <3>3, <3>4
  <2>3. reads[t][id] # None /\ reads[t][id] # Unread
    BY <1>3, NoneAssumption, UnreadAssumption
  <2> QED
    BY <2>1, <2>2, <2>3 DEF RowTold
<1>4. CASE reads[t][id] \notin Nat
  BY <1>4 DEF RowTold
<1> QED
  BY <1>3, <1>4

\* And so does a set observation.
LEMMA SetStaysTold ==
    ASSUME IInv, TableMoves, NEW t \in Tx, SetTold(t),
           epochs'[t] = epochs[t], lastSet'[t] = lastSet[t],
           table' \in TableRecord
    PROVE  SetTold(t)'
<1>1. table.epoch \in Nat /\ table'.epoch \in Nat
  BY DEF IInv, TypeOK, TableRecord
<1>2. /\ table.epoch <= table'.epoch
      /\ table'.epoch = table.epoch => table'.rows = table.rows
  BY DEF TableMoves
<1>3. table'.rows = table.rows => Contents(table') = Contents(table)
  BY DEF Contents
<1> QED
  BY <1>1, <1>2, <1>3 DEF SetTold

\* A transaction that a step does not touch keeps what it was told.
LEMMA StaysTold ==
    ASSUME IInv, TableMoves, table' \in TableRecord, NEW t \in Tx, Told(t),
           state'[t] = state[t], reads'[t] = reads[t], epochs'[t] = epochs[t],
           last'[t] = last[t], lastSet'[t] = lastSet[t]
    PROVE  Told(t)'
<1>1. CASE state[t] = "Active"
  <2>1. SetTold(t)'
    BY <1>1, SetStaysTold DEF Told
  <2>2. ASSUME NEW id \in RowId PROVE RowTold(t, id)'
    <3>1. RowTold(t, id)
      BY <1>1 DEF Told
    <3> QED
      BY <3>1, RowStaysTold
  <2> QED
    BY <1>1, <2>1, <2>2 DEF Told
<1>2. CASE state[t] # "Active"
  BY <1>2 DEF Told
<1> QED
  BY <1>1, <1>2

\* Recording the version of a row together with its contents is sound: an
\* absent row is recorded as None, whatever id it has.
LEMMA RecordTells ==
    ASSUME IInv, NEW t \in Tx, NEW id \in RowId,
           table' = table,
           reads'[t][id] = VersionOf(table, id),
           last'[t][id] = Contents(table)[id]
    PROVE  RowTold(t, id)'
<1>1. table \in TableRecord /\ FreshIdsUnused(table)
  BY DEF IInv, IndexesAgree, WellFormed
<1>2. CASE table.rows[id] = None
  <2>1. reads'[t][id] = None /\ last'[t][id] = None
    BY <1>2 DEF VersionOf, Contains, Contents
  <2> QED
    BY <2>1, NoneAssumption, UnreadAssumption DEF RowTold
<1>3. CASE table.rows[id] # None
  <2>1. reads'[t][id] = table.rows[id].version
        /\ last'[t][id] = table.rows[id].row
    BY <1>3 DEF VersionOf, Contains, Contents
  <2>2. table.rows[id].version \in Nat
    BY <1>1, <1>3 DEF TableRecord, StoredRow
  <2>3. id < table.next
    BY <1>1, <1>3, FlagAssumption DEF FreshIdsUnused, TableRecord, RowId
  <2>4. reads'[t][id] # None /\ reads'[t][id] # Unread
    BY <2>1, <2>2, NoneAssumption, UnreadAssumption
  <2> QED
    BY <2>1, <2>2, <2>3, <2>4 DEF RowTold
<1> QED
  BY <1>2, <1>3

\* One row observation: that row is told anew, everything else as before.
LEMMA RecordingKeepsHistories ==
    ASSUME IInv, TableMoves, HistoriesHold, NEW t \in Tx, NEW id \in RowId,
           state[t] = "Active",
           Record(t, id),
           last' = [last EXCEPT ![t][id] = Contents(table)[id]],
           UNCHANGED <<table, state, epochs, lastSet>>
    PROVE  HistoriesHold'
<1>1. /\ reads \in [Tx -> [RowId -> Nat \cup {None, Unread}]]
      /\ table \in TableRecord
  BY DEF IInv, TypeOK
<1>2. last = [u \in Tx |-> [i \in RowId |-> last[u][i]]]
  BY DEF HistoriesHold, SeenTypes
<1>3. /\ reads'[t][id] = VersionOf(table, id)
      /\ \A i \in RowId \ {id} : reads'[t][i] = reads[t][i]
      /\ \A u \in Tx \ {t} : reads'[u] = reads[u]
  BY <1>1 DEF Record
<1>4. /\ last'[t][id] = Contents(table)[id]
      /\ \A i \in RowId \ {id} : last'[t][i] = last[t][i]
      /\ \A u \in Tx \ {t} : last'[u] = last[u]
  BY <1>2
<1>5. SeenTypes'
  <2>1. last' = [u \in Tx |-> [i \in RowId |-> last'[u][i]]]
    BY <1>2
  <2> QED
    BY <2>1 DEF HistoriesHold, SeenTypes
<1>6. Told(t)'
  <2>1. SetTold(t)'
    BY <1>1, SetStaysTold DEF HistoriesHold, Told
  <2>2. ASSUME NEW i \in RowId PROVE RowTold(t, i)'
    <3>1. CASE i = id
      BY <1>3, <1>4, <3>1, RecordTells
    <3>2. CASE i # id
      <4>1. RowTold(t, i)
        BY DEF HistoriesHold, Told
      <4> QED
        BY <1>1, <1>3, <1>4, <3>2, <4>1, RowStaysTold
    <3> QED
      BY <3>1, <3>2
  <2> QED
    BY <2>1, <2>2 DEF Told
<1>7. ASSUME NEW u \in Tx, u # t PROVE Told(u)'
  BY <1>1, <1>3, <1>4, <1>7, StaysTold DEF HistoriesHold
<1> QED
  BY <1>5, <1>6, <1>7 DEF HistoriesHold

\* get shows the committed row and records its version.
LEMMA GetKeepsHistories ==
    ASSUME IInv, TableMoves, HistoriesHold, NEW t \in Tx, NEW id \in RowId,
           Get(t, id), Shown(t, id)
    PROVE  HistoriesHold'
BY RecordingKeepsHistories DEF Get, Shown, MayCall

\* update and delete capture the version of a row they are the first to
\* write; what a later one captures is nothing.
LEMMA CaptureKeepsHistories ==
    ASSUME IInv, TableMoves, HistoriesHold, NEW t \in Tx, NEW h \in Handle,
           MayCall(t), Capture(t, h), Captured(t, h),
           UNCHANGED <<table, state, epochs>>
    PROVE  HistoriesHold'
<1>1. h \in RowId <=> ~IsProvisional(h)
  BY FlagAssumption, BoundAssumption DEF RowId, Handle, IsProvisional
<1>2. CASE h \in RowId /\ writes[t][h] = None
  BY <1>1, <1>2, RecordingKeepsHistories DEF Capture, Captured, MayCall
<1>3. CASE ~(h \in RowId /\ writes[t][h] = None)
  <2>1. UNCHANGED <<reads, last, lastSet>>
    BY <1>1, <1>3 DEF Capture, Captured
  <2>2. table' \in TableRecord
    BY DEF IInv, TypeOK
  <2> QED
    BY <2>1, <2>2, StaysTold DEF HistoriesHold, SeenTypes
<1> QED
  BY <1>2, <1>3

\* A set observation shows the rows at the epoch it records.
LEMMA ObserveSetKeepsHistories ==
    ASSUME IInv, TableMoves, HistoriesHold, NEW t \in Tx,
           ObserveSet(t), ShownSet(t)
    PROVE  HistoriesHold'
<1>1. /\ table' = table /\ state' = state /\ reads' = reads /\ last' = last
      /\ epochs' = [epochs EXCEPT ![t] = table.epoch]
      /\ lastSet' = [lastSet EXCEPT ![t] = Contents(table)]
      /\ state[t] = "Active"
  BY DEF ObserveSet, ShownSet, MayCall
<1>2. epochs \in [Tx -> Nat \cup {Unread}] /\ table \in TableRecord
  BY DEF IInv, TypeOK
<1>3. lastSet = [u \in Tx |-> lastSet[u]]
  BY DEF HistoriesHold, SeenTypes
<1>4. SeenTypes'
  <2>1. lastSet' = [u \in Tx |-> lastSet'[u]]
    BY <1>1, <1>3
  <2> QED
    BY <1>1, <2>1 DEF HistoriesHold, SeenTypes
<1>5. /\ epochs'[t] = table.epoch /\ lastSet'[t] = Contents(table)
      /\ \A u \in Tx \ {t} : epochs'[u] = epochs[u] /\ lastSet'[u] = lastSet[u]
  BY <1>1, <1>2, <1>3
<1>6. Told(t)'
  <2>1. table.epoch \in Nat /\ table.epoch # Unread
    BY <1>2, UnreadAssumption DEF TableRecord
  <2>2. SetTold(t)'
    BY <1>1, <1>5, <2>1 DEF SetTold
  <2>3. ASSUME NEW i \in RowId PROVE RowTold(t, i)'
    <3>1. RowTold(t, i)
      BY <1>1 DEF HistoriesHold, Told
    <3> QED
      BY <1>1, <1>2, <3>1, RowStaysTold
  <2> QED
    BY <1>1, <2>2, <2>3 DEF Told
<1>7. ASSUME NEW u \in Tx, u # t PROVE Told(u)'
  BY <1>1, <1>2, <1>5, <1>7, StaysTold DEF HistoriesHold
<1> QED
  BY <1>4, <1>6, <1>7 DEF HistoriesHold

\* The history of a finished transaction is dropped.
LEMMA ForgetKeepsHistories ==
    ASSUME IInv, TableMoves, HistoriesHold, table' \in TableRecord,
           NEW t \in Tx, NEW end, end # "Active",
           state' = [state EXCEPT ![t] = end],
           UNCHANGED <<reads, epochs>>, Forget(t)
    PROVE  HistoriesHold'
<1>1. /\ last = [u \in Tx |-> [i \in RowId |-> last[u][i]]]
      /\ lastSet = [u \in Tx |-> lastSet[u]]
  BY DEF HistoriesHold, SeenTypes
<1>2. /\ last' = [last EXCEPT ![t] = [i \in RowId |-> Unread]]
      /\ lastSet' = [lastSet EXCEPT ![t] = Unread]
  BY DEF Forget
<1>3. state \in [Tx -> {"Active", "Committed", "Aborted"}]
  BY DEF IInv, TypeOK
<1>4. SeenTypes'
  BY <1>1, <1>2 DEF SeenTypes
<1>5. Told(t)'
  BY <1>1, <1>2, <1>3 DEF Told
<1>6. ASSUME NEW u \in Tx, u # t PROVE Told(u)'
  <2>1. state'[u] = state[u] /\ last'[u] = last[u] /\ lastSet'[u] = lastSet[u]
    BY <1>1, <1>2, <1>3, <1>6
  <2> QED
    BY <2>1, StaysTold DEF HistoriesHold
<1> QED
  BY <1>4, <1>5, <1>6 DEF HistoriesHold

\* Begin starts an empty read set beside an empty history.
LEMMA BeginKeepsHistories ==
    ASSUME IInv, TableMoves, HistoriesHold, NEW t \in Tx, Begin(t),
           UNCHANGED seen
    PROVE  HistoriesHold'
<1>1. /\ table' = table /\ last' = last /\ lastSet' = lastSet
      /\ state[t] # "Active"
      /\ state' = [state EXCEPT ![t] = "Active"]
      /\ reads' = [reads EXCEPT ![t] = [i \in RowId |-> Unread]]
      /\ epochs' = [epochs EXCEPT ![t] = Unread]
  BY DEF Begin, seen
<1>2. /\ state \in [Tx -> {"Active", "Committed", "Aborted"}]
      /\ reads \in [Tx -> [RowId -> Nat \cup {None, Unread}]]
      /\ epochs \in [Tx -> Nat \cup {Unread}]
      /\ table \in TableRecord
  BY DEF IInv, TypeOK
<1>3. /\ state'[t] = "Active" /\ epochs'[t] = Unread
      /\ \A i \in RowId : reads'[t][i] = Unread
      /\ \A u \in Tx \ {t} : /\ state'[u] = state[u] /\ reads'[u] = reads[u]
                             /\ epochs'[u] = epochs[u]
  BY <1>1, <1>2
<1>4. Told(t)'
  BY <1>1, <1>3, UnreadAssumption DEF HistoriesHold, Told, SetTold, RowTold
<1>5. ASSUME NEW u \in Tx, u # t PROVE Told(u)'
  BY <1>1, <1>2, <1>3, <1>5, StaysTold DEF HistoriesHold
<1> QED
  BY <1>1, <1>4, <1>5 DEF HistoriesHold, SeenTypes

\* Every step keeps the histories in agreement with the read sets.
LEMMA StepKeepsHistories ==
    ASSUME IInv, HistoriesHold, [HNext]_hvars
    PROVE  HistoriesHold'
<1>1. TableMoves /\ table' \in TableRecord
  BY HistoryStep, TableStep, NextPreserves DEF IInv, TypeOK
<1>2. CASE UNCHANGED <<state, reads, epochs, last, lastSet>>
  BY <1>1, <1>2, StaysTold DEF HistoriesHold, SeenTypes
<1>3. CASE UNCHANGED hvars
  BY <1>2, <1>3 DEF hvars, vars, seen
<1>4. ASSUME NEW t \in Tx, Finishing(t), Forget(t)
      PROVE  HistoriesHold'
  <2>1. CASE CommitDone(t)
    BY <1>1, <1>4, <2>1, ForgetKeepsHistories DEF CommitDone
  <2>2. CASE Abort(t) \/ CommitRejected(t)
    BY <1>1, <1>4, <2>2, ForgetKeepsHistories DEF Abort, CommitRejected
  <2> QED
    BY <1>4, <2>1, <2>2 DEF Finishing
<1>5. ASSUME NEW t \in Tx, NEW h \in Handle, Captured(t, h),
             Delete(t, h) \/ \E row \in Row : Update(t, h, row)
      PROVE  HistoriesHold'
  BY <1>1, <1>5, CaptureKeepsHistories DEF Delete, Update
<1>6. ASSUME NEW t \in Tx, UNCHANGED seen,
             \/ \E row \in Row : Insert(t, row)
             \/ \E h \in Handle : ApplyWrite(t, h)
             \/ CommitValidated(t)
      PROVE  HistoriesHold'
  BY <1>2, <1>6 DEF Insert, ApplyWrite, CommitValidated, seen
<1>7. CASE HNext
  BY <1>1, <1>4, <1>5, <1>6, <1>7, BeginKeepsHistories, GetKeepsHistories,
     ObserveSetKeepsHistories DEF HNext, seen
<1> QED
  BY <1>3, <1>7

\* What validation accepts was shown as it is in the table it validated
\* against.
LEMMA ValidationMeansCurrent ==
    ASSUME IInv, HistoriesHold, NEW t \in Tx, CommitValidated(t)
    PROVE  /\ \A id \in RowId : last[t][id] \in {Unread, Contents(table)[id]}
           /\ lastSet[t] \in {Unread, Contents(table)}
<1>1. /\ ReadsHold(t) /\ SetTold(t) /\ \A id \in RowId : RowTold(t, id)
      /\ table \in TableRecord
  BY DEF CommitValidated, Validate, MayCall, HistoriesHold, Told, IInv, TypeOK
<1>2. ASSUME NEW id \in RowId
      PROVE  last[t][id] \in {Unread, Contents(table)[id]}
  <2>1. RowTold(t, id) /\ reads[t][id] \in {Unread, VersionOf(table, id)}
    BY <1>1 DEF ReadsHold
  <2>2. CASE reads[t][id] = Unread
    BY <2>1, <2>2 DEF RowTold
  <2>3. CASE reads[t][id] = VersionOf(table, id) /\ table.rows[id] = None
    BY <2>1, <2>3 DEF RowTold, VersionOf, Contains, Contents
  <2>4. CASE reads[t][id] = VersionOf(table, id) /\ table.rows[id] # None
    <3>1. reads[t][id] = table.rows[id].version /\ table.rows[id].version \in Nat
      BY <1>1, <2>4 DEF VersionOf, Contains, TableRecord, StoredRow
    <3> QED
      BY <2>1, <2>4, <3>1 DEF RowTold, Contains, Contents
  <2> QED
    BY <2>1, <2>2, <2>3, <2>4
<1>3. lastSet[t] \in {Unread, Contents(table)}
  BY <1>1 DEF ReadsHold, SetTold, TableRecord
<1> QED
  BY <1>2, <1>3

\* The serialization point of a commit is where it validates: from there on
\* neither its history nor the table it validated against changes.
LEMMA StepKeepsReadsCurrent ==
    ASSUME IInv, HistoriesHold, LastReadsAreCurrent, [HNext]_hvars
    PROVE  LastReadsAreCurrent'
<1>1. ASSUME NEW t \in Tx, CommitValidated(t), before' = table, UNCHANGED seen
      PROVE  LastReadsAreCurrent'
  BY <1>1, ValidationMeansCurrent DEF CommitValidated, LastReadsAreCurrent, seen
<1>2. CASE UNCHANGED <<committing, last, lastSet, before>>
  BY <1>2 DEF LastReadsAreCurrent
<1>3. CASE committing' = None
  BY <1>3 DEF LastReadsAreCurrent
<1>4. CASE HNext
  <2>1. PICK t \in Tx :
           \/ CommitValidated(t) /\ before' = table /\ UNCHANGED seen
           \/ committing' = None
           \/ UNCHANGED <<committing, last, lastSet, before>>
    BY <1>4 DEF HNext, Begin, Insert, ApplyWrite, Get, ObserveSet, Delete,
       Update, Finishing, Abort, CommitRejected, CommitDone, MayCall, seen
  <2> QED
    BY <1>1, <1>2, <1>3, <2>1
<1> QED
  BY <1>2, <1>4 DEF hvars, seen, vars

\* Nothing was shown before anything began.
LEMMA InitHistories == HInit => HistoriesHold /\ LastReadsAreCurrent
BY DEF HInit, Init, HistoriesHold, SeenTypes, Told, LastReadsAreCurrent

\* Optimistic validation is enough for isolation: a commit that validate
\* accepts could have made all its last observations at the moment it
\* commits, however many other transactions committed in between.
THEOREM ValidatedReadsAreCurrent == HSpec => []LastReadsAreCurrent
<1>1. IInv /\ HistoriesHold /\ LastReadsAreCurrent /\ [HNext]_hvars
         => HistoriesHold' /\ LastReadsAreCurrent'
  BY StepKeepsHistories, StepKeepsReadsCurrent
<1> QED
  BY <1>1, InitHistories, HistoryInductive, PTL DEF HSpec

-----------------------------------------------------------------------------
(* Atomicity: between two operations of the apply loop the table is the    *)
(* one validated against with the writes applied so far, and no others.    *)

\* A row that existed when commit began: as it was, until the loop comes to
\* its write.
RealRow(t, id) ==
    LET old == before.rows[id]
    IN  IF id \notin Pending(t) \ todo THEN old
        ELSE IF Kind(t, id) = "Delete" THEN None
        ELSE IF writes[t][id].row = old.row THEN old
        ELSE [row |-> writes[t][id].row, version |-> old.version + 1]

DoneInserts(t) == Inserts(t) \ todo

\* Inserts are taken in the order of their handles, and each has the id
\* that follows from its place in that order.
InsertsInOrder(t) ==
    /\ table.next = before.next + Cardinality(DoneInserts(t))
    /\ \A g \in DoneInserts(t), h \in Inserts(t) \cap todo : g < h
    /\ \A h \in DoneInserts(t) :
          /\ AssignedId(t, h) < table.next
          /\ table.rows[AssignedId(t, h)] =
                [row |-> writes[t][h].row, version |-> 0]
    /\ \A id \in RowId : before.next <= id /\ id < table.next =>
          \E h \in DoneInserts(t) : AssignedId(t, h) = id

Loop(t) ==
    /\ WellFormed(before)
    /\ before.next <= table.next
    /\ \A h \in Deletes(t) \cup Updates(t) : Contains(before, h)
    /\ \A id \in RowId : id < before.next => table.rows[id] = RealRow(t, id)
    /\ InsertsInOrder(t)

LoopHolds == committing # None => Loop(committing)

\* A write set holds finitely many inserts.
LEMMA InsertsAreFinite ==
    ASSUME NEW t \in Tx, NEW S, S \subseteq Inserts(t)
    PROVE  IsFiniteSet(S) /\ Cardinality(S) \in Nat
<1>1. IsFiniteSet(Handle)
  BY FS_Interval, FlagAssumption, BoundAssumption DEF Handle
<1>2. S \subseteq Handle
  BY DEF Inserts, Pending
<1> QED
  BY <1>1, <1>2, FS_Subset, FS_CardinalityType

\* The id of an insert is not the id of a row that was there before.
LEMMA AssignedIdsAreNew ==
    ASSUME NEW t \in Tx, NEW h, before.next \in Nat
    PROVE  AssignedId(t, h) \in Nat /\ before.next <= AssignedId(t, h)
<1>1. Cardinality({g \in Inserts(t) : g < h}) \in Nat
  BY InsertsAreFinite
<1> QED
  BY <1>1 DEF AssignedId

\* The kinds of the writes of t do not change while it commits.
LEMMA SameWrites ==
    ASSUME NEW t \in Tx, UNCHANGED <<writes, before>>
    PROVE  /\ Pending(t)' = Pending(t) /\ Inserts(t)' = Inserts(t)
           /\ Updates(t)' = Updates(t) /\ Deletes(t)' = Deletes(t)
           /\ \A h : Kind(t, h)' = Kind(t, h)
           /\ \A h : AssignedId(t, h)' = AssignedId(t, h)
BY DEF Pending, Inserts, Updates, Deletes, Kind, AssignedId

\* What the loop relies on about the write it takes next.
LEMMA NextWriteFacts ==
    ASSUME IInv, LoopHolds, NEW t \in Tx, NEW h \in Handle, ApplyWrite(t, h)
    PROVE  /\ Loop(t) /\ h \in todo /\ h \in Pending(t)
           /\ writes[t][h] \in WriteEntry
           /\ before.next \in Nat /\ table.next \in 0 .. ProvisionalFlag
           /\ Kind(t, h) \in {"Insert", "Update", "Delete"}
           /\ Kind(t, h) # "Insert" => /\ h \in RowId /\ h < before.next
                                       /\ table.rows[h] = before.rows[h]
                                       /\ before.rows[h] \in StoredRow
                                       /\ h \notin Inserts(t)
<1>1. h \in todo /\ committing = t /\ committing # None
  BY NoTxAssumption DEF ApplyWrite, IsNextWrite
<1>2. Loop(t) /\ h \in Pending(t)
  BY <1>1 DEF LoopHolds, IInv, RemainingWritesFit
<1>3. writes[t][h] \in WriteEntry
  BY <1>2 DEF IInv, TypeOK, Pending
<1>4. before.next \in Nat /\ table.next \in 0 .. ProvisionalFlag
  BY <1>2, FlagAssumption DEF Loop, WellFormed, TableRecord, IInv, TypeOK
<1>5. Kind(t, h) \in {"Insert", "Update", "Delete"}
  BY <1>3, EntryTypes DEF Kind
<1>6. ASSUME Kind(t, h) # "Insert"
      PROVE  /\ h \in RowId /\ h < before.next
             /\ table.rows[h] = before.rows[h] /\ before.rows[h] \in StoredRow
             /\ h \notin Inserts(t)
  <2>1. h \in Deletes(t) \cup Updates(t) /\ h \notin Inserts(t)
    BY <1>2, <1>5, <1>6 DEF Deletes, Updates, Inserts
  <2>2. Contains(before, h)
    BY <1>2, <2>1 DEF Loop
  <2>3. h \in RowId /\ before.rows[h] # None
    BY <2>2 DEF Contains
  <2>4. h < before.next
    BY <1>2, <1>4, <2>3, FlagAssumption
       DEF Loop, WellFormed, FreshIdsUnused, RowId
  <2>5. table.rows[h] = before.rows[h]
    BY <1>1, <1>2, <2>3, <2>4 DEF Loop, RealRow
  <2>6. before.rows[h] \in StoredRow
    BY <1>2, <2>3 DEF Loop, WellFormed, TableRecord
  <2> QED
    BY <2>1, <2>3, <2>4, <2>5, <2>6
<1> QED
  BY <1>1, <1>2, <1>3, <1>4, <1>5, <1>6

\* A delete or an update puts its own row where it belongs and moves no
\* other.
LEMMA RealWriteKeepsLoop ==
    ASSUME NEW t \in Tx, Loop(t), NEW h \in RowId, h < before.next,
           h \notin Inserts(t), before.next \in Nat,
           table.next \in 0 .. ProvisionalFlag,
           UNCHANGED <<writes, before>>, todo' = todo \ {h},
           table'.next = table.next,
           \A id \in RowId \ {h} : table'.rows[id] = table.rows[id],
           table'.rows[h] = RealRow(t, h)'
    PROVE  Loop(t)'
<1>1. /\ Pending(t)' = Pending(t) /\ Inserts(t)' = Inserts(t)
      /\ Updates(t)' = Updates(t) /\ Deletes(t)' = Deletes(t)
      /\ \A g : Kind(t, g)' = Kind(t, g)
      /\ \A g : AssignedId(t, g)' = AssignedId(t, g)
  BY SameWrites
<1>2. ASSUME NEW id \in RowId, id < before.next
      PROVE  table'.rows[id] = RealRow(t, id)'
  <2>1. CASE id = h
    BY <2>1
  <2>2. CASE id # h
    <3>1. RealRow(t, id)' = RealRow(t, id)
      BY <1>1, <2>2 DEF RealRow
    <3>2. table.rows[id] = RealRow(t, id)
      BY <1>2 DEF Loop
    <3> QED
      BY <2>2, <3>1, <3>2
  <2> QED
    BY <2>1, <2>2
<1>3. DoneInserts(t)' = DoneInserts(t)
      /\ Inserts(t)' \cap todo' = Inserts(t) \cap todo
  BY <1>1 DEF DoneInserts
<1>4. ASSUME NEW g \in DoneInserts(t)
      PROVE  /\ AssignedId(t, g)' < table'.next
             /\ table'.rows[AssignedId(t, g)'] =
                   [row |-> writes'[t][g].row, version |-> 0]
  <2>1. /\ AssignedId(t, g) < table.next
        /\ table.rows[AssignedId(t, g)] =
              [row |-> writes[t][g].row, version |-> 0]
    BY DEF Loop, InsertsInOrder
  <2>2. AssignedId(t, g) \in Nat /\ before.next <= AssignedId(t, g)
    BY AssignedIdsAreNew
  <2>3. AssignedId(t, g) # h
    BY <2>2 DEF RowId
  <2>4. AssignedId(t, g) \in RowId
    BY <2>1, <2>2, FlagAssumption DEF RowId
  <2> QED
    BY <1>1, <2>1, <2>3, <2>4
<1>5. InsertsInOrder(t)'
  BY <1>1, <1>3, <1>4 DEF Loop, InsertsInOrder
<1> QED
  BY <1>1, <1>2, <1>5 DEF Loop

\* An insert takes the next id, which is the one its place among the
\* inserts gives it.
LEMMA InsertKeepsLoop ==
    ASSUME NEW t \in Tx, Loop(t), NEW h \in Inserts(t) \cap todo,
           h \notin RowId, before.next \in Nat, table.next \in RowId,
           \A g \in Inserts(t) \cap todo : g # h => h < g,
           UNCHANGED <<writes, before>>, todo' = todo \ {h},
           table'.next = table.next + 1,
           \A id \in RowId \ {table.next} : table'.rows[id] = table.rows[id],
           table'.rows[table.next] = [row |-> writes[t][h].row, version |-> 0]
    PROVE  Loop(t)'
<1>1. /\ Pending(t)' = Pending(t) /\ Inserts(t)' = Inserts(t)
      /\ Updates(t)' = Updates(t) /\ Deletes(t)' = Deletes(t)
      /\ \A g : Kind(t, g)' = Kind(t, g)
      /\ \A g : AssignedId(t, g)' = AssignedId(t, g)
  BY SameWrites
<1>2. before.next <= table.next /\ InsertsInOrder(t) /\ table.next \in Nat
  BY FlagAssumption DEF Loop, RowId
<1>3. ASSUME NEW id \in RowId, id < before.next
      PROVE  table'.rows[id] = RealRow(t, id)'
  <2>1. RealRow(t, id)' = RealRow(t, id)
    BY <1>1 DEF RealRow
  <2>2. table.rows[id] = RealRow(t, id)
    BY <1>3 DEF Loop
  <2>3. id # table.next
    BY <1>2, <1>3 DEF RowId
  <2> QED
    BY <2>1, <2>2, <2>3
<1>4. /\ DoneInserts(t)' = DoneInserts(t) \cup {h} /\ h \notin DoneInserts(t)
      /\ Inserts(t)' \cap todo' = (Inserts(t) \cap todo) \ {h}
  BY <1>1 DEF DoneInserts
<1>5. Cardinality(DoneInserts(t)') = Cardinality(DoneInserts(t)) + 1
  <2>1. IsFiniteSet(DoneInserts(t))
    BY InsertsAreFinite DEF DoneInserts
  <2> QED
    BY <1>4, <2>1, FS_AddElement
<1>6. Cardinality(DoneInserts(t)) \in Nat
  BY InsertsAreFinite DEF DoneInserts
<1>7. AssignedId(t, h) = table.next
  <2>1. ASSUME NEW g \in Inserts(t) PROVE g < h <=> g \in DoneInserts(t)
    <3>1. g \in Int /\ h \in Int
      BY DEF Inserts, Pending, Handle
    <3>2. CASE g \in todo
      BY <3>1, <3>2 DEF DoneInserts
    <3>3. CASE g \notin todo
      BY <1>2, <3>3 DEF DoneInserts, InsertsInOrder
    <3> QED
      BY <3>2, <3>3
  <2>2. {g \in Inserts(t) : g < h} = DoneInserts(t)
    BY <2>1 DEF DoneInserts
  <2> QED
    BY <1>2, <2>2 DEF AssignedId, InsertsInOrder
<1>8. table'.next = before'.next + Cardinality(DoneInserts(t)')
  <2>1. table.next = before.next + Cardinality(DoneInserts(t))
    BY <1>2 DEF InsertsInOrder
  <2> QED
    BY <1>5, <1>6, <2>1
<1>9. \A g \in DoneInserts(t)', k \in Inserts(t)' \cap todo' : g < k
  BY <1>2, <1>4 DEF InsertsInOrder
<1>10. ASSUME NEW g \in DoneInserts(t)'
       PROVE  /\ AssignedId(t, g)' < table'.next
              /\ table'.rows[AssignedId(t, g)'] =
                    [row |-> writes'[t][g].row, version |-> 0]
  <2>1. CASE g = h
    BY <1>1, <1>2, <1>7, <2>1
  <2>2. CASE g # h
    <3>1. /\ AssignedId(t, g) < table.next
          /\ table.rows[AssignedId(t, g)] =
                [row |-> writes[t][g].row, version |-> 0]
      BY <1>2, <1>4, <2>2 DEF InsertsInOrder
    <3>2. AssignedId(t, g) \in Nat
      BY AssignedIdsAreNew
    <3>3. AssignedId(t, g) \in RowId \ {table.next}
      BY <3>1, <3>2, <1>2, FlagAssumption DEF RowId
    <3> QED
      BY <1>1, <1>2, <3>1, <3>2, <3>3
  <2> QED
    BY <2>1, <2>2
<1>11. ASSUME NEW id \in RowId, before'.next <= id, id < table'.next
       PROVE  \E g \in DoneInserts(t)' : AssignedId(t, g)' = id
  <2>1. CASE id = table.next
    BY <1>1, <1>4, <1>7, <2>1
  <2>2. CASE id # table.next
    <3>1. id < table.next /\ before.next <= id
      BY <1>2, <1>11, <2>2 DEF RowId
    <3> QED
      BY <1>1, <1>2, <1>4, <3>1 DEF InsertsInOrder
  <2> QED
    BY <2>1, <2>2
<1>12. InsertsInOrder(t)'
  BY <1>8, <1>9, <1>10, <1>11 DEF InsertsInOrder
<1> QED
  BY <1>1, <1>2, <1>3, <1>12 DEF Loop

\* One operation of the loop, as the change it makes and the record of it.
OneChange(id, new) ==
    /\ id \in RowId /\ new # table.rows[id]
    /\ table'.rows = [table.rows EXCEPT ![id] = new]
    /\ table'.epoch = table.epoch + 1
    /\ \E kind : table'.changes =
          Append(table.changes, [kind |-> kind, id |-> id,
                                 old |-> table.rows[id], new |-> new])

\* The three operations; an update to the row that is there does nothing.
OneWrite(t, h) ==
    \/ /\ Kind(t, h) = "Delete" /\ table'.next = table.next
       /\ OneChange(h, None)
    \/ /\ Kind(t, h) = "Update" /\ table'.next = table.next
       /\ IF writes[t][h].row = table.rows[h].row THEN table' = table
          ELSE OneChange(h, [row |-> writes[t][h].row,
                             version |-> table.rows[h].version + 1])
    \/ /\ Kind(t, h) = "Insert" /\ table'.next = table.next + 1
       /\ OneChange(table.next, [row |-> writes[t][h].row, version |-> 0])

\* Every operation of the loop is one of these.
LEMMA ApplyIsOneWrite ==
    ASSUME IInv, LoopHolds, NEW t \in Tx, NEW h \in Handle, ApplyWrite(t, h)
    PROVE  OneWrite(t, h)
<1>1. /\ writes[t][h] \in WriteEntry
      /\ Kind(t, h) \in {"Insert", "Update", "Delete"}
      /\ Kind(t, h) # "Insert" => h \in RowId
      /\ h \in Pending(t) /\ h \in todo
  BY NextWriteFacts
<1>2. table \in TableRecord /\ FreshIdsUnused(table)
  BY DEF IInv, IndexesAgree, WellFormed
<1>3. Kind(t, h) # "Delete" => writes[t][h].row \in Row
  BY <1>1, EntryTypes DEF Kind
<1>4. CASE Kind(t, h) = "Delete"
  <2>1. table' = DeleteRow(table, h) /\ h \in RowId /\ table.rows[h] # None
    BY <1>1, <1>4 DEF ApplyWrite, CanApply, CanDelete, Contains
  <2> QED
    BY <1>4, <2>1 DEF OneWrite, OneChange, DeleteRow
<1>5. CASE Kind(t, h) = "Update"
  <2> DEFINE stored == [row |-> writes[t][h].row,
                        version |-> table.rows[h].version + 1]
  <2>1. /\ table' = UpdateRow(table, h, writes[t][h].row)
        /\ h \in RowId /\ table.rows[h] # None
    BY <1>1, <1>5 DEF ApplyWrite, CanApply, CanUpdate, Contains
  <2>2. CASE writes[t][h].row = table.rows[h].row
    BY <1>5, <2>1, <2>2 DEF OneWrite, UpdateRow
  <2>3. CASE writes[t][h].row # table.rows[h].row
    <3>1. stored # table.rows[h]
      BY <2>3
    <3>2. /\ table'.rows = [table.rows EXCEPT ![h] = stored]
          /\ table'.next = table.next
          /\ table'.epoch = table.epoch + 1
          /\ table'.changes = Append(table.changes,
                                [kind |-> "Update", id |-> h,
                                 old |-> table.rows[h], new |-> stored])
      BY <2>1, <2>3 DEF UpdateRow
    <3> HIDE DEF stored
    <3>3. OneChange(h, stored) /\ table'.next = table.next
      BY <2>1, <3>1, <3>2 DEF OneChange
    <3> QED
      BY <1>5, <2>3, <3>3 DEF OneWrite, stored
  <2> QED
    BY <2>2, <2>3
<1>6. CASE Kind(t, h) = "Insert"
  <2>1. table' = InsertRow(table, writes[t][h].row)
    BY <1>6 DEF ApplyWrite
  <2>2. table.next \in RowId
    <3>1. table.next + provisional[t] <= h /\ h < ProvisionalFlag + provisional[t]
      BY <1>1, <1>6, NoTxAssumption
         DEF IInv, RemainingWritesFit, WritesKeyed, Inserts, ApplyWrite
    <3> QED
      BY <3>1, FlagAssumption, BoundAssumption
         DEF IInv, TypeOK, TableRecord, RowId, Handle
  <2>3. table.rows[table.next] = None
    BY <1>2, <2>2 DEF FreshIdsUnused, RowId
  <2>4. [row |-> writes[t][h].row, version |-> 0] # None
    BY <1>3, <1>6, NoneAssumption DEF StoredRow
  <2> QED
    BY <1>6, <2>1, <2>2, <2>3, <2>4 DEF OneWrite, OneChange, InsertRow
<1> QED
  BY <1>1, <1>4, <1>5, <1>6

\* Every operation of the loop keeps what the loop has done so far.
LEMMA ApplyKeepsLoop ==
    ASSUME IInv, LoopHolds, NEW t \in Tx, NEW h \in Handle, ApplyWrite(t, h),
           before' = before
    PROVE  LoopHolds'
<1>1. /\ Loop(t) /\ h \in todo /\ h \in Pending(t)
      /\ before.next \in Nat /\ table.next \in 0 .. ProvisionalFlag
      /\ Kind(t, h) # "Insert" => /\ h \in RowId /\ h < before.next
                                  /\ table.rows[h] = before.rows[h]
                                  /\ before.rows[h] \in StoredRow
                                  /\ h \notin Inserts(t)
  BY NextWriteFacts
<1>2. /\ committing' = t /\ todo' = todo \ {h} /\ writes' = writes
      /\ IsNextWrite(t, h)
  BY DEF ApplyWrite
<1>3. OneWrite(t, h) /\ table.rows \in [RowId -> StoredRow \cup {None}]
  BY ApplyIsOneWrite DEF IInv, TypeOK, TableRecord
<1>4. Pending(t)' = Pending(t) /\ Kind(t, h)' = Kind(t, h)
  BY <1>2, SameWrites
<1>5. CASE Kind(t, h) = "Delete"
  <2>1. /\ table'.next = table.next
        /\ table'.rows = [table.rows EXCEPT ![h] = None]
    BY <1>3, <1>5 DEF OneWrite, OneChange
  <2>2. RealRow(t, h)' = None
    BY <1>1, <1>2, <1>4, <1>5 DEF RealRow
  <2>3. Loop(t)'
    BY <1>1, <1>2, <1>3, <1>5, <2>1, <2>2, RealWriteKeepsLoop
  <2> QED
    BY <1>2, <2>3 DEF LoopHolds
<1>6. CASE Kind(t, h) = "Update"
  <2>1. PICK new : new = IF writes[t][h].row = before.rows[h].row
                         THEN before.rows[h]
                         ELSE [row |-> writes[t][h].row,
                               version |-> before.rows[h].version + 1]
    OBVIOUS
  <2>2. /\ table'.next = table.next /\ table'.rows[h] = new
        /\ \A id \in RowId \ {h} : table'.rows[id] = table.rows[id]
    <3>1. CASE writes[t][h].row = before.rows[h].row
      BY <1>1, <1>3, <1>6, <2>1, <3>1 DEF OneWrite
    <3>2. CASE writes[t][h].row # before.rows[h].row
      <4>1. /\ table'.rows = [table.rows EXCEPT ![h] = new]
            /\ table'.next = table.next
        BY <1>1, <1>3, <1>6, <2>1, <3>2 DEF OneWrite, OneChange
      <4> QED
        BY <1>1, <1>3, <1>6, <4>1
    <3> QED
      BY <3>1, <3>2
  <2>3. RealRow(t, h)' = new
    BY <1>1, <1>2, <1>4, <1>6, <2>1 DEF RealRow
  <2>4. Loop(t)'
    BY <1>1, <1>2, <1>6, <2>2, <2>3, RealWriteKeepsLoop
  <2> QED
    BY <1>2, <2>4 DEF LoopHolds
<1>7. CASE Kind(t, h) = "Insert"
  <2>1. /\ table'.next = table.next + 1 /\ table.next \in RowId
        /\ table'.rows = [table.rows EXCEPT ![table.next] =
                             [row |-> writes[t][h].row, version |-> 0]]
    BY <1>3, <1>7 DEF OneWrite, OneChange
  <2>2. h \in Inserts(t) \cap todo
    BY <1>1, <1>7 DEF Inserts
  <2>3. h \notin RowId
    BY <1>1, <1>7, FlagAssumption DEF IInv, WritesKeyed, IsProvisional, RowId
  <2>4. \A g \in Inserts(t) \cap todo : g # h => h < g
    BY <1>2, <1>7 DEF IsNextWrite, AppliedBefore, Inserts
  <2>5. Loop(t)'
    BY <1>1, <1>2, <1>3, <2>1, <2>2, <2>3, <2>4, InsertKeepsLoop
  <2> QED
    BY <1>2, <2>5 DEF LoopHolds
<1> QED
  BY <1>3, <1>5, <1>6, <1>7 DEF OneWrite

\* The loop begins at the table that was validated, with nothing done.
LEMMA ValidationStartsLoop ==
    ASSUME IInv, NEW t \in Tx, CommitValidated(t), before' = table
    PROVE  LoopHolds'
<1>1. /\ committing' = t /\ todo' = Pending(t)
      /\ table' = table /\ writes' = writes /\ TargetsExist(t)
  BY DEF CommitValidated, Validate
<1>2. /\ WellFormed(table) /\ table.next \in Nat
  BY FlagAssumption DEF IInv, IndexesAgree, WellFormed, TableRecord
<1>3. /\ Pending(t)' = Pending(t) /\ Inserts(t)' = Inserts(t)
      /\ Updates(t)' = Updates(t) /\ Deletes(t)' = Deletes(t)
  BY <1>1 DEF Pending, Inserts, Updates, Deletes, Kind
<1>4. DoneInserts(t)' = {}
  BY <1>1, <1>3 DEF DoneInserts, Inserts
<1>5. Cardinality(DoneInserts(t)') = 0
  BY <1>4, FS_EmptySet
<1>6. InsertsInOrder(t)'
  <2>1. table'.next = before'.next + Cardinality(DoneInserts(t)')
    BY <1>1, <1>2, <1>5
  <2>2. \A id \in RowId : ~(before'.next <= id /\ id < table'.next)
    BY <1>1, <1>2 DEF RowId
  <2> QED
    BY <1>4, <2>1, <2>2 DEF InsertsInOrder
<1>7. \A id \in RowId : table'.rows[id] = RealRow(t, id)'
  BY <1>1, <1>3 DEF RealRow
<1>8. Loop(t)'
  BY <1>1, <1>2, <1>3, <1>6, <1>7 DEF Loop, TargetsExist
<1> QED
  BY <1>1, <1>8 DEF LoopHolds

\* No other step touches the table or the write set of a running commit.
LEMMA StepKeepsLoop ==
    ASSUME IInv, LoopHolds, [HNext]_hvars
    PROVE  LoopHolds'
<1>1. CASE committing' = None
  BY <1>1 DEF LoopHolds
<1>2. CASE UNCHANGED hvars
  <2>1. UNCHANGED <<table, writes, committing, todo, before>>
    BY <1>2 DEF hvars, vars
  <2> QED
    BY <2>1 DEF LoopHolds, Loop, InsertsInOrder, DoneInserts, RealRow,
       AssignedId, Pending, Inserts, Updates, Deletes, Kind
<1>3. CASE HNext
  <2>1. PICK t \in Tx :
           \/ CommitValidated(t) /\ before' = table
           \/ committing' = None
           \/ \E h \in Handle : ApplyWrite(t, h) /\ before' = before
    BY <1>3 DEF HNext, Begin, Insert, Get, ObserveSet, Delete,
       Update, Finishing, Abort, CommitRejected, CommitDone, MayCall
  <2> QED
    BY <1>1, <2>1, ValidationStartsLoop, ApplyKeepsLoop
<1> QED
  BY <1>2, <1>3

\* When the loop is through, every row is what the whole write set makes
\* of it.
LEMMA LoopEndsAtomic ==
    ASSUME IInv, LoopHolds
    PROVE  CommitIsAtomic
<1> SUFFICES ASSUME committing # None, todo = {}
             PROVE  table.rows = [id \in RowId |-> RowAfter(committing, id)]
  BY DEF CommitIsAtomic, Applied
<1>1. PICK t \in Tx : t = committing
  BY DEF IInv, TypeOK
<1>2. /\ Loop(t) /\ InsertsInOrder(t) /\ WellFormed(before)
      /\ WellFormed(table)
  BY <1>1 DEF LoopHolds, Loop, IInv, IndexesAgree
<1>3. /\ before.next \in Nat /\ table.next \in Nat
      /\ table.rows \in [RowId -> StoredRow \cup {None}]
  BY <1>2, FlagAssumption DEF WellFormed, TableRecord
<1>4. DoneInserts(t) = Inserts(t) /\ \A h \in Pending(t) : h \notin todo
  BY DEF DoneInserts
<1>5. ASSUME NEW id \in RowId PROVE table.rows[id] = RowAfter(t, id)
  <2>1. CASE id \in Deletes(t) \cup Updates(t)
    <3>1. id < before.next
      <4>1. before.rows[id] # None
        BY <1>2, <2>1 DEF Loop, Contains
      <4> QED
        BY <1>2, <1>3, <4>1, FlagAssumption DEF WellFormed, FreshIdsUnused, RowId
    <3>2. table.rows[id] = RealRow(t, id) /\ id \in Pending(t)
      BY <1>2, <2>1, <3>1 DEF Loop, Deletes, Updates
    <3>3. {h \in Inserts(t) : AssignedId(t, h) = id} = {}
      BY <1>3, <3>1, AssignedIdsAreNew DEF RowId
    <3>4. CASE id \in Deletes(t) /\ id \notin Updates(t)
      <4>1. Kind(t, id) = "Delete"
        BY <3>4 DEF Deletes
      <4>2. RowAfter(t, id) = None
        BY <3>3, <3>4 DEF RowAfter
      <4> QED
        BY <1>4, <3>2, <4>1, <4>2 DEF RealRow
    <3>5. CASE id \in Updates(t) /\ id \notin Deletes(t)
      <4>1. Kind(t, id) # "Delete"
        BY <3>5 DEF Updates
      <4>2. RowAfter(t, id) =
              IF writes[t][id].row = before.rows[id].row THEN before.rows[id]
              ELSE [row |-> writes[t][id].row,
                    version |-> before.rows[id].version + 1]
        BY <3>3, <3>5 DEF RowAfter
      <4> QED
        BY <1>4, <3>2, <4>1, <4>2 DEF RealRow
    <3> QED
      BY <2>1, <3>4, <3>5 DEF Deletes, Updates
  <2>2. CASE id \notin Deletes(t) \cup Updates(t)
    <3> DEFINE inserted == {h \in Inserts(t) : AssignedId(t, h) = id}
    <3>1. CASE inserted # {}
      <4>1. PICK h \in inserted : h = CHOOSE g \in inserted : TRUE
        BY <3>1
      <4>2. table.rows[id] = [row |-> writes[t][h].row, version |-> 0]
        BY <1>2, <1>4, <4>1 DEF InsertsInOrder
      <4>3. RowAfter(t, id) =
              [row |-> writes[t][CHOOSE g \in inserted : TRUE].row,
               version |-> 0]
        BY <2>2, <3>1 DEF RowAfter
      <4> QED
        BY <4>1, <4>2, <4>3
    <3>2. CASE inserted = {}
      <4>1. RowAfter(t, id) = before.rows[id]
        BY <2>2, <3>2 DEF RowAfter
      <4>2. CASE id < before.next
        <5>1. table.rows[id] = RealRow(t, id)
          BY <1>2, <4>2 DEF Loop
        <5>2. id \notin Pending(t)
          BY <2>2, EntryTypes, FlagAssumption
             DEF IInv, TypeOK, WritesKeyed, Pending, Deletes, Updates, Kind,
                 IsProvisional, RowId
        <5> QED
          BY <4>1, <5>1, <5>2 DEF RealRow
      <4>3. CASE ~(id < before.next)
        <5>1. id \in Int /\ before.next <= id
          BY <1>3, <4>3, FlagAssumption DEF RowId
        <5>2. ~(id < table.next)
          BY <1>2, <1>4, <3>2, <5>1 DEF InsertsInOrder
        <5>3. id >= table.next
          BY <1>3, <5>1, <5>2
        <5>4. before.rows[id] = None /\ table.rows[id] = None
          BY <1>2, <5>1, <5>3 DEF WellFormed, FreshIdsUnused
        <5> QED
          BY <4>1, <5>4
      <4> QED
        BY <4>2, <4>3
    <3> QED
      BY <3>1, <3>2
  <2> QED
    BY <2>1, <2>2
<1> QED
  BY <1>1, <1>3, <1>5

\* A commit leaves the table it validated against with its whole write set
\* applied at once, whatever it was and in whatever order the loop works.
THEOREM CommitsAreAtomic == HSpec => []CommitIsAtomic
<1>1. HInit => LoopHolds
  BY DEF HInit, Init, LoopHolds
<1>2. IInv /\ LoopHolds /\ [HNext]_hvars => LoopHolds'
  BY StepKeepsLoop
<1>3. IInv /\ LoopHolds => CommitIsAtomic
  BY LoopEndsAtomic
<1> QED
  BY <1>1, <1>2, <1>3, HistoryInductive, PTL DEF HSpec

-----------------------------------------------------------------------------
(* The change records: what commit returns is what it did.                 *)

\* The records made since the loop began that name one row.
RecordsOf(id) ==
    {i \in base + 1 .. Len(table.changes) : table.changes[i].id = id}

Described(id) ==
    IF before.rows[id] = table.rows[id]
    THEN RecordsOf(id) = {}
    ELSE \E i \in RecordsOf(id) :
            /\ table.changes[i].old = before.rows[id]
            /\ table.changes[i].new = table.rows[id]
            /\ \A j \in RecordsOf(id) : j = i

RecordsHold ==
    committing # None =>
        /\ base <= Len(table.changes)
        /\ table.epoch = before.epoch + (Len(table.changes) - base)
        /\ \A id \in RowId : Described(id)

\* A change of a row that the loop had not touched adds its one record.
LEMMA OneChangeIsRecorded ==
    ASSUME IInv, NEW c \in RowId, NEW new, OneChange(c, new),
           table.rows[c] = before.rows[c],
           committing # None, RecordsHold, before.epoch \in Nat,
           UNCHANGED <<base, before, committing>>
    PROVE  RecordsHold'
<1>1. PICK kind : table'.changes =
          Append(table.changes, [kind |-> kind, id |-> c,
                                 old |-> table.rows[c], new |-> new])
  BY DEF OneChange
<1>2. PICK rec : rec = [kind |-> kind, id |-> c,
                        old |-> table.rows[c], new |-> new]
  OBVIOUS
<1>3. rec.id = c /\ rec.old = before.rows[c] /\ rec.new = new
  BY <1>2
<1>4. /\ table.changes \in Seq(Change) /\ base \in Nat /\ table.epoch \in Nat
      /\ table.rows \in [RowId -> StoredRow \cup {None}]
  BY DEF IInv, TypeOK, TableRecord
<1>5. PICK n \in Nat : n = Len(table.changes)
  BY <1>4
<1>6. PICK s : s = table.changes
  OBVIOUS
<1>7. PICK u : u = table'.changes
  OBVIOUS
<1>8. /\ u = Append(s, rec) /\ s \in Seq(Change) /\ n = Len(s)
  BY <1>1, <1>2, <1>4, <1>5, <1>6, <1>7
<1>9. Len(u) = n + 1 /\ u[n + 1] = rec /\ \A i \in 1 .. n : u[i] = s[i]
  BY <1>8
<1>10. /\ base <= n /\ table.epoch = before.epoch + (n - base)
       /\ \A id \in RowId : Described(id)
  BY <1>5 DEF RecordsHold
<1>11. /\ base' <= Len(u)
       /\ table'.epoch = before.epoch + (Len(u) - base)
  BY <1>4, <1>9, <1>10 DEF OneChange
<1>12. /\ table'.rows[c] = new /\ new # before.rows[c]
       /\ \A id \in RowId \ {c} : table'.rows[id] = table.rows[id]
  BY <1>4 DEF OneChange
<1>13. \A id : RecordsOf(id) = {i \in base + 1 .. n : s[i].id = id}
  BY <1>5, <1>6 DEF RecordsOf
<1>14. \A id : RecordsOf(id)' = {i \in base + 1 .. n + 1 : u[i].id = id}
  BY <1>7, <1>9 DEF RecordsOf
<1>15. Described(c)'
  <2>1. \A i \in base + 1 .. n : s[i].id # c
    BY <1>10, <1>13 DEF Described
  <2>2. \A i \in base + 1 .. n + 1 : u[i].id = c <=> i = n + 1
    BY <1>3, <1>4, <1>9, <2>1
  <2>3. n + 1 \in base + 1 .. n + 1
    BY <1>4, <1>10
  <2>4. RecordsOf(c)' = {n + 1}
    BY <1>14, <2>2, <2>3
  <2> QED
    BY <1>3, <1>7, <1>9, <1>12, <2>4 DEF Described
<1>16. ASSUME NEW id \in RowId, id # c PROVE Described(id)'
  <2>1. RecordsOf(id)' = RecordsOf(id)
    <3>1. \A i \in base + 1 .. n + 1 : u[i].id = id <=>
             (i \in base + 1 .. n /\ s[i].id = id)
      BY <1>3, <1>4, <1>9, <1>16
    <3>2. base + 1 .. n \subseteq base + 1 .. n + 1
      BY <1>4
    <3>3. {i \in base + 1 .. n + 1 : u[i].id = id}
            = {i \in base + 1 .. n : s[i].id = id}
      BY <3>1, <3>2
    <3> QED
      BY <1>13, <1>14, <3>3
  <2>2. \A i \in RecordsOf(id) : u[i] = s[i]
    BY <1>4, <1>9, <1>13
  <2>3. Described(id) /\ table'.rows[id] = table.rows[id]
    BY <1>10, <1>12, <1>16
  <2> QED
    BY <1>6, <1>7, <2>1, <2>2, <2>3 DEF Described
<1> QED
  BY <1>7, <1>11, <1>15, <1>16 DEF RecordsHold

\* Every operation of the loop keeps the records exact.
LEMMA ApplyKeepsRecords ==
    ASSUME IInv, LoopHolds, RecordsHold, NEW t \in Tx, NEW h \in Handle,
           ApplyWrite(t, h), before' = before
    PROVE  RecordsHold'
<1>1. /\ Loop(t)
      /\ before.next \in Nat /\ table.next \in 0 .. ProvisionalFlag
      /\ Kind(t, h) # "Insert" => h \in RowId /\ table.rows[h] = before.rows[h]
  BY NextWriteFacts
<1>2. /\ committing' = committing /\ base' = base /\ committing # None
  BY NoTxAssumption DEF ApplyWrite
<1>3. before.epoch \in Nat
  BY <1>1 DEF Loop, WellFormed, TableRecord
<1>4. CASE table' = table
  BY <1>2, <1>4 DEF RecordsHold, Described, RecordsOf
<1>5. ASSUME NEW new, OneChange(h, new), Kind(t, h) # "Insert"
      PROVE  RecordsHold'
  BY <1>1, <1>2, <1>3, <1>5, OneChangeIsRecorded
<1>6. ASSUME NEW new, OneChange(table.next, new)
      PROVE  RecordsHold'
  <2>1. table.next \in RowId /\ before.next <= table.next
    BY <1>1, <1>6 DEF OneChange, Loop
  <2>2. table.rows[table.next] = None /\ before.rows[table.next] = None
    BY <1>1, <2>1 DEF Loop, WellFormed, FreshIdsUnused, IInv, IndexesAgree,
       RowId
  <2> QED
    BY <1>2, <1>3, <1>6, <2>1, <2>2, OneChangeIsRecorded
<1> QED
  BY <1>4, <1>5, <1>6, ApplyIsOneWrite DEF OneWrite

\* The records hold from validation to the end of the loop.
LEMMA StepKeepsRecords ==
    ASSUME IInv, LoopHolds, RecordsHold, [HNext]_hvars
    PROVE  RecordsHold'
<1>1. CASE committing' = None
  BY <1>1 DEF RecordsHold
<1>2. CASE UNCHANGED hvars
  <2>1. UNCHANGED <<table, committing, base, before>>
    BY <1>2 DEF hvars, vars
  <2> QED
    BY <2>1 DEF RecordsHold, Described, RecordsOf
<1>3. ASSUME NEW t \in Tx, CommitValidated(t), before' = table
      PROVE  RecordsHold'
  <2>1. table' = table /\ base' = Len(table.changes)
    BY <1>3 DEF CommitValidated
  <2>2. Len(table.changes) \in Nat /\ table.epoch \in Nat
    BY DEF IInv, TypeOK, TableRecord
  <2>3. \A id : RecordsOf(id)' = {}
    BY <2>1, <2>2 DEF RecordsOf
  <2> QED
    BY <1>3, <2>1, <2>2, <2>3 DEF RecordsHold, Described
<1>4. CASE HNext
  <2>1. PICK t \in Tx :
           \/ CommitValidated(t) /\ before' = table
           \/ committing' = None
           \/ \E h \in Handle : ApplyWrite(t, h) /\ before' = before
    BY <1>4 DEF HNext, Begin, Insert, Get, ObserveSet, Delete,
       Update, Finishing, Abort, CommitRejected, CommitDone, MayCall
  <2> QED
    BY <1>1, <1>3, <2>1, ApplyKeepsRecords
<1> QED
  BY <1>2, <1>4

\* What commit cuts from the buffer are the records made since the loop
\* began, in their places.
LEMMA CollectedAreTheRecords ==
    ASSUME IInv, base <= Len(table.changes)
    PROVE  /\ Len(CollectedChanges) = Len(table.changes) - base
           /\ DOMAIN CollectedChanges = 1 .. Len(table.changes) - base
           /\ \A i \in 1 .. Len(table.changes) - base :
                 CollectedChanges[i] = table.changes[base + i]
<1>1. table.changes \in Seq(Change) /\ base \in Nat
      /\ Len(table.changes) \in Nat
  BY DEF IInv, TypeOK, TableRecord
<1> QED
  BY <1>1, SubSeqProperties DEF CollectedChanges

\* At the end of the loop the records tell exactly what it did.
LEMMA RecordsDescribe ==
    ASSUME IInv, LoopHolds, RecordsHold
    PROVE  ChangesDescribeCommit
<1> SUFFICES ASSUME committing # None PROVE ChangesDescribeCommit
  BY DEF ChangesDescribeCommit, Applied
<1>1. /\ base \in Nat /\ Len(table.changes) \in Nat
      /\ base <= Len(table.changes)
      /\ table.epoch = before.epoch + (Len(table.changes) - base)
      /\ \A id \in RowId : Described(id)
  BY DEF RecordsHold, IInv, TypeOK, TableRecord
<1>2. PICK n \in Nat : n = Len(table.changes) - base
  <2>1. Len(table.changes) - base \in Nat
    BY <1>1
  <2> QED
    BY <2>1
<1>3. PICK w : w = CollectedChanges
  OBVIOUS
<1>4. /\ Len(w) = n /\ DOMAIN w = 1 .. n
      /\ \A i \in 1 .. n : w[i] = table.changes[base + i]
  BY <1>1, <1>2, <1>3, CollectedAreTheRecords
<1>5. ASSUME NEW id \in RowId
      PROVE  LET about == {i \in DOMAIN w : w[i].id = id}
             IN  IF before.rows[id] = table.rows[id] THEN about = {}
                 ELSE \E i \in about : /\ about = {i}
                                       /\ w[i].old = before.rows[id]
                                       /\ w[i].new = table.rows[id]
  <2>1. PICK about : about = {i \in DOMAIN w : w[i].id = id}
    OBVIOUS
  <2>2. \A i : i \in about <=> i \in 1 .. n /\ base + i \in RecordsOf(id)
    <3>1. \A i \in 1 .. n : base + i \in base + 1 .. Len(table.changes)
      BY <1>1, <1>2
    <3> QED
      BY <1>4, <2>1, <3>1 DEF RecordsOf
  <2>3. CASE before.rows[id] = table.rows[id]
    BY <1>1, <2>1, <2>2, <2>3 DEF Described
  <2>4. CASE before.rows[id] # table.rows[id]
    <3>1. PICK j \in RecordsOf(id) :
             /\ table.changes[j].old = before.rows[id]
             /\ table.changes[j].new = table.rows[id]
             /\ \A k \in RecordsOf(id) : k = j
      BY <1>1, <2>4 DEF Described
    <3>2. j \in base + 1 .. Len(table.changes)
      BY <3>1 DEF RecordsOf
    <3>3. PICK i \in 1 .. n : j = base + i
      <4>1. j - base \in 1 .. n /\ j = base + (j - base)
        BY <1>1, <1>2, <3>2
      <4> QED
        BY <4>1
    <3>4. i \in about
      BY <2>2, <3>1, <3>3
    <3>5. \A k \in about : k = i
      <4> SUFFICES ASSUME NEW k \in about PROVE k = i
        OBVIOUS
      <4>1. base + k = base + i /\ k \in 1 .. n
        BY <2>2, <3>1, <3>3
      <4> QED
        BY <1>1, <4>1
    <3>6. about = {i}
      BY <3>4, <3>5
    <3>7. w[i].old = before.rows[id] /\ w[i].new = table.rows[id]
      BY <1>4, <3>1, <3>3
    <3> QED
      BY <2>1, <2>4, <3>4, <3>6, <3>7
  <2> QED
    BY <2>3, <2>4
<1>6. table.epoch = before.epoch + Len(w)
  BY <1>1, <1>2, <1>4
<1> QED
  BY <1>3, <1>5, <1>6 DEF ChangesDescribeCommit

\* The change feed is exact: subscribers, log and replicas that follow what
\* commit returns learn every change of every row once, and nothing else,
\* even when the buffer already held records of somebody else.
THEOREM ChangesAreExact == HSpec => []ChangesDescribeCommit
<1>1. HInit => LoopHolds /\ RecordsHold
  BY DEF HInit, Init, LoopHolds, RecordsHold
<1>2. IInv /\ LoopHolds /\ RecordsHold /\ [HNext]_hvars
         => LoopHolds' /\ RecordsHold'
  BY StepKeepsLoop, StepKeepsRecords
<1>3. IInv /\ LoopHolds /\ RecordsHold => ChangesDescribeCommit
  BY RecordsDescribe
<1> QED
  BY <1>1, <1>2, <1>3, HistoryInductive, PTL DEF HSpec

-----------------------------------------------------------------------------
(* The write set: its inductive invariant.                                 *)

(* One write set that knows the first c insert handles: handles hold       *)
(* inserts and tombstones of inherited inserts, stored rows hold the rest, *)
(* and handles not yet issued hold nothing.                                *)
SetOK(ws, c) ==
    /\ ws \in WriteSetRecord /\ c \in 0 .. MaxHandles
    /\ \A id \in RealId : /\ ~HasKind(ws.own[id], "Insert")
                          /\ ws.base # Absent => ~HasKind(ws.base[id], "Insert")
    /\ \A s \in Slot :
          /\ ~HasKind(ws.own[s], "Update")
          /\ ws.base # Absent => ws.base[s] = Absent \/ HasKind(ws.base[s], "Insert")
          /\ HasKind(ws.own[s], "Delete") => ws.base # Absent /\ HasKind(ws.base[s], "Insert")
          /\ s >= c => ws.own[s] = Absent /\ (ws.base # Absent => ws.base[s] = Absent)

(* A branch ws of p has inherited what p holds and knows p's handles.      *)
Under(p, pc, ws, c) == ws.base = Folded(p) /\ pc <= c

GoodChain(ss, cs) ==
    /\ ss \in Seq(WriteSetRecord) /\ Len(ss) \in 1 .. MaxDepth
    /\ cs \in Seq(0 .. MaxHandles) /\ Len(cs) = Len(ss)
    /\ ss[1].base = Absent
    /\ \A i \in 1 .. Len(ss) : SetOK(ss[i], cs[i])
    /\ \A i \in 2 .. Len(ss) : Under(ss[i - 1], cs[i - 1], ss[i], cs[i])

(* What may take the place of the last write set of a chain. *)
GoodTip(ss, cs, ws, c) ==
    /\ SetOK(ws, c) /\ ws.base = ss[Len(ss)].base
    /\ Len(ss) > 1 => Under(ss[Len(ss) - 1], cs[Len(ss) - 1], ws, c)

GoodSave(ss, cs, sv) ==
    sv # Absent =>
        /\ sv \in [writes : WriteSetRecord, provisional : 0 .. MaxHandles]
        /\ GoodTip(ss, cs, sv.writes, sv.provisional)

ChainInv == GoodChain(sets, counts) /\ GoodSave(sets, counts, saved)

-----------------------------------------------------------------------------
(* Entries and write sets.                                                 *)

LEMMA Kinds ==
    ASSUME NEW e \in Entry \cup {Absent}
    PROVE  /\ e = Absent \/ HasKind(e, "Insert") \/ HasKind(e, "Update") \/ HasKind(e, "Delete")
           /\ HasKind(e, "Insert") => ~HasKind(e, "Update") /\ ~HasKind(e, "Delete")
           /\ HasKind(e, "Update") => ~HasKind(e, "Delete")
           /\ ~HasKind(Absent, "Insert") /\ ~HasKind(Absent, "Update") /\ ~HasKind(Absent, "Delete")
BY DEF HasKind, Entry

LEMMA NewEntries ==
    ASSUME NEW row \in Value
    PROVE  /\ [kind |-> "Insert", row |-> row] \in Entry /\ HasKind([kind |-> "Insert", row |-> row], "Insert")
           /\ [kind |-> "Update", row |-> row] \in Entry /\ HasKind([kind |-> "Update", row |-> row], "Update")
<1>1. [kind |-> "Insert", row |-> row] \in Entry /\ [kind |-> "Update", row |-> row] \in Entry
  BY DEF Entry
<1> QED BY <1>1, WriteSetAssumption DEF HasKind

LEMMA Tombstones ==
    /\ [kind |-> "Delete", row |-> Absent] \in Entry
    /\ HasKind([kind |-> "Delete", row |-> Absent], "Delete")
<1>1. [kind |-> "Delete", row |-> Absent] \in Entry
  BY DEF Entry
<1> QED BY <1>1, WriteSetAssumption DEF HasKind

(* A write set's layers, and what it shows. *)
LEMMA Layers ==
    ASSUME NEW ws \in WriteSetRecord
    PROVE  /\ ws.own \in Map /\ ws.base \in Map \cup {Absent}
           /\ \A id \in Id : ws.own[id] \in Entry \cup {Absent}
           /\ ws.base # Absent => \A id \in Id : ws.base[id] \in Entry \cup {Absent}
           /\ \A id \in Id : Logical(ws, id) \in Entry \cup {Absent}
           /\ ws = [base |-> ws.base, own |-> ws.own]
<1>1. ws.own \in Map /\ ws.base \in Map \cup {Absent} /\ ws = [base |-> ws.base, own |-> ws.own]
  BY DEF WriteSetRecord
<1>2. /\ \A id \in Id : ws.own[id] \in Entry \cup {Absent}
      /\ ws.base # Absent => \A id \in Id : ws.base[id] \in Entry \cup {Absent}
  BY <1>1 DEF Map
<1> QED BY <1>1, <1>2 DEF Logical

LEMMA Ids ==
    /\ \A id \in Id : id \in RealId \/ id \in Slot
    /\ \A id \in RealId : id \in Id /\ id \notin Slot
    /\ \A id \in Slot : id \in Id /\ id \notin RealId /\ id \in Nat
BY WriteSetAssumption DEF Id, Slot

Put(ws, id, entry) == [base |-> ws.base, own |-> [ws.own EXCEPT ![id] = entry]]

LEMMA PutLayers ==
    ASSUME NEW ws \in WriteSetRecord, NEW id \in Id, NEW e \in Entry \cup {Absent}
    PROVE  /\ Put(ws, id, e) \in WriteSetRecord /\ Put(ws, id, e).base = ws.base
           /\ Put(ws, id, e).own[id] = e
           /\ \A x \in Id \ {id} : Put(ws, id, e).own[x] = ws.own[x]
<1>1. ws.own \in Map /\ ws.base \in Map \cup {Absent}
  BY Layers
<1>2. PICK m : m = [ws.own EXCEPT ![id] = e]
  OBVIOUS
<1>3. m \in Map /\ m[id] = e /\ \A x \in Id \ {id} : m[x] = ws.own[x]
  BY <1>1, <1>2 DEF Map
<1>4. Put(ws, id, e) = [base |-> ws.base, own |-> m]
  BY <1>2 DEF Put
<1> QED BY <1>1, <1>3, <1>4 DEF WriteSetRecord

(* A write to one id leaves a good write set, if the id may hold it. *)
LEMMA PutKeeps ==
    ASSUME NEW ws, NEW c, SetOK(ws, c), NEW c2 \in 0 .. MaxHandles, c <= c2,
           NEW id \in Id, NEW e \in Entry \cup {Absent},
           id \in RealId => ~HasKind(e, "Insert"),
           id \in Slot => /\ ~HasKind(e, "Update") /\ (e # Absent => id < c2)
                          /\ HasKind(e, "Delete") => ws.base # Absent /\ HasKind(ws.base[id], "Insert")
    PROVE  SetOK(Put(ws, id, e), c2)
<1>1. ws \in WriteSetRecord /\ c \in 0 .. MaxHandles
  BY DEF SetOK
<1>2. PICK new : new = Put(ws, id, e)
  OBVIOUS
<1>3. new \in WriteSetRecord /\ new.base = ws.base /\ new.own[id] = e
      /\ \A x \in Id \ {id} : new.own[x] = ws.own[x]
  BY <1>1, <1>2, PutLayers
<1>4. ASSUME NEW x \in RealId
      PROVE  ~HasKind(new.own[x], "Insert") /\ (new.base # Absent => ~HasKind(new.base[x], "Insert"))
  BY <1>3, Ids DEF SetOK
<1>5. ASSUME NEW s \in Slot
      PROVE  /\ ~HasKind(new.own[s], "Update")
             /\ new.base # Absent => new.base[s] = Absent \/ HasKind(new.base[s], "Insert")
             /\ HasKind(new.own[s], "Delete") => new.base # Absent /\ HasKind(new.base[s], "Insert")
             /\ s >= c2 => new.own[s] = Absent /\ (new.base # Absent => new.base[s] = Absent)
  <2>1. s \in Id /\ s \in Nat /\ (s >= c2 => s >= c)
    BY <1>1, Ids
  <2>2. CASE s = id
    <3>1. s >= c2 => ~(s < c2)
      BY <2>1
    <3> QED BY <1>3, <2>1, <2>2, <3>1 DEF SetOK
  <2>3. CASE s # id
    BY <1>3, <2>1, <2>3 DEF SetOK
  <2> QED BY <2>2, <2>3
<1> QED BY <1>2, <1>3, <1>4, <1>5 DEF SetOK

(* What a branch inherits. *)
LEMMA FoldedMap ==
    ASSUME NEW ws, NEW c, SetOK(ws, c)
    PROVE  /\ Folded(ws) \in Map /\ Folded(ws) # Absent
           /\ \A id \in RealId : ~HasKind(Folded(ws)[id], "Insert") /\ Folded(ws)[id] = Logical(ws, id)
           /\ \A s \in Slot :
                 /\ Folded(ws)[s] = Absent \/ HasKind(Folded(ws)[s], "Insert")
                 /\ s >= c => Folded(ws)[s] = Absent
                 /\ HasKind(Folded(ws)[s], "Insert") <=> HasKind(Logical(ws, s), "Insert")
                 /\ HasKind(Folded(ws)[s], "Insert") => Folded(ws)[s] = Logical(ws, s)
                 /\ Folded(ws)[s] = Absent <=> Logical(ws, s) = Absent \/ HasKind(Logical(ws, s), "Delete")
<1>1. ws \in WriteSetRecord /\ ws.own \in Map /\ ws.base \in Map \cup {Absent}
  BY Layers DEF SetOK
<1>2. CASE ws.base = Absent
  <2>1. Folded(ws) = ws.own /\ \A id \in Id : Logical(ws, id) = ws.own[id]
    BY <1>2 DEF Folded, Logical
  <2>2. \A s \in Slot : ws.own[s] = Absent \/ HasKind(ws.own[s], "Insert")
    BY <1>1, <1>2, Layers, Kinds, Ids DEF SetOK
  <2> QED BY <1>1, <1>2, <2>1, <2>2, Kinds, Ids, WriteSetAssumption DEF SetOK
<1>3. CASE ws.base # Absent
  <2>1. PICK f : f = Folded(ws)
    OBVIOUS
  <2>2. f = [id \in Id |-> IF HasKind(ws.base[id], "Insert") /\ HasKind(ws.own[id], "Delete")
                           THEN Absent ELSE Logical(ws, id)]
    BY <1>3, <2>1 DEF Folded
  <2>3. f \in Map /\ f # Absent
    BY <1>1, <2>2, Layers, WriteSetAssumption DEF Map
  <2>4. ASSUME NEW id \in RealId PROVE ~HasKind(f[id], "Insert") /\ f[id] = Logical(ws, id)
    BY <1>3, <2>2, Ids DEF SetOK, Logical
  <2>5. ASSUME NEW s \in Slot
        PROVE  /\ f[s] = Absent \/ HasKind(f[s], "Insert")
               /\ s >= c => f[s] = Absent
               /\ HasKind(f[s], "Insert") <=> HasKind(Logical(ws, s), "Insert")
               /\ HasKind(f[s], "Insert") => f[s] = Logical(ws, s)
               /\ f[s] = Absent <=> Logical(ws, s) = Absent \/ HasKind(Logical(ws, s), "Delete")
    <3>1. /\ ws.own[s] \in Entry \cup {Absent} /\ ws.base[s] \in Entry \cup {Absent}
          /\ s \in Id /\ ~HasKind(ws.own[s], "Update")
          /\ ws.base[s] = Absent \/ HasKind(ws.base[s], "Insert")
          /\ HasKind(ws.own[s], "Delete") => HasKind(ws.base[s], "Insert")
          /\ s >= c => ws.own[s] = Absent /\ ws.base[s] = Absent
      BY <1>1, <1>3, Layers, Ids DEF SetOK
    <3>2. f[s] = IF HasKind(ws.base[s], "Insert") /\ HasKind(ws.own[s], "Delete") THEN Absent ELSE Logical(ws, s)
      BY <2>2, <3>1
    <3>3. Logical(ws, s) = IF ws.own[s] # Absent THEN ws.own[s] ELSE ws.base[s]
      BY <1>3 DEF Logical
    <3>4. CASE ws.own[s] = Absent
      BY <3>1, <3>2, <3>3, <3>4, Kinds
    <3>5. CASE HasKind(ws.own[s], "Insert")
      <4>1. ws.own[s] # Absent /\ ~HasKind(ws.own[s], "Delete")
        BY <3>1, <3>5, Kinds DEF HasKind
      <4> QED BY <3>1, <3>2, <3>3, <3>5, <4>1
    <3>6. CASE HasKind(ws.own[s], "Delete")
      <4>1. ws.own[s] # Absent /\ ~HasKind(ws.own[s], "Insert") /\ ~HasKind(Absent, "Insert")
        BY <3>1, <3>6, Kinds DEF HasKind
      <4> QED BY <3>1, <3>2, <3>3, <3>6, <4>1
    <3> QED BY <3>1, <3>4, <3>5, <3>6, Kinds
  <2> QED BY <2>1, <2>3, <2>4, <2>5
<1> QED BY <1>2, <1>3

-----------------------------------------------------------------------------
(* Absorbing a branch.                                                     *)

LEMMA AbsorbLayers ==
    ASSUME NEW p, NEW pc, NEW ws, NEW c, SetOK(p, pc), SetOK(ws, c)
    PROVE  /\ AbsorbInto(p, ws) \in WriteSetRecord /\ AbsorbInto(p, ws).base = p.base
           /\ \A id \in Id : AbsorbInto(p, ws).own[id] = FoldEntry(p, ws.own[id], id)
<1>1. /\ p \in WriteSetRecord /\ ws \in WriteSetRecord
      /\ \A id \in Id : ws.own[id] \in Entry \cup {Absent} /\ p.own[id] \in Entry \cup {Absent}
      /\ p.base \in Map \cup {Absent}
  BY Layers DEF SetOK
<1>2. PICK m : m = [id \in Id |-> FoldEntry(p, ws.own[id], id)]
  OBVIOUS
<1>3. \A id \in Id : FoldEntry(p, ws.own[id], id) \in Entry \cup {Absent}
  BY <1>1 DEF FoldEntry
<1>4. m \in Map /\ \A id \in Id : m[id] = FoldEntry(p, ws.own[id], id)
  BY <1>2, <1>3 DEF Map
<1>5. AbsorbInto(p, ws) = [base |-> p.base, own |-> m]
  BY <1>2 DEF AbsorbInto
<1> QED BY <1>1, <1>4, <1>5 DEF WriteSetRecord

LEMMA AbsorbKeeps ==
    ASSUME NEW p, NEW pc, NEW ws, NEW c, SetOK(p, pc), SetOK(ws, c), Under(p, pc, ws, c)
    PROVE  SetOK(AbsorbInto(p, ws), c)
<1>1. PICK new : new = AbsorbInto(p, ws)
  OBVIOUS
<1>2. /\ new \in WriteSetRecord /\ new.base = p.base
      /\ \A id \in Id : new.own[id] = FoldEntry(p, ws.own[id], id)
  BY <1>1, AbsorbLayers
<1>3. /\ ws.base = Folded(p) /\ Folded(p) # Absent /\ p \in WriteSetRecord /\ ws \in WriteSetRecord
      /\ pc \in Nat /\ c \in 0 .. MaxHandles /\ pc <= c
  BY FoldedMap DEF Under, SetOK
<1>4. ASSUME NEW id \in RealId
      PROVE  ~HasKind(new.own[id], "Insert") /\ (new.base # Absent => ~HasKind(new.base[id], "Insert"))
  <2>1. new.own[id] \in {p.own[id], Absent, ws.own[id]}
    BY <1>2, Ids DEF FoldEntry
  <2>2. ~HasKind(Absent, "Insert")
    BY DEF HasKind
  <2> QED BY <1>2, <2>1, <2>2 DEF SetOK
<1>5. ASSUME NEW s \in Slot
      PROVE  /\ ~HasKind(new.own[s], "Update")
             /\ new.base # Absent => new.base[s] = Absent \/ HasKind(new.base[s], "Insert")
             /\ HasKind(new.own[s], "Delete") => new.base # Absent /\ HasKind(new.base[s], "Insert")
             /\ s >= c => new.own[s] = Absent /\ (new.base # Absent => new.base[s] = Absent)
  <2>1. /\ s \in Id /\ s \in Nat /\ (s >= c => s >= pc)
        /\ ws.own[s] \in Entry \cup {Absent} /\ p.own[s] \in Entry \cup {Absent}
    BY <1>3, Ids, Layers
  <2>2. /\ ~HasKind(ws.own[s], "Update") /\ ~HasKind(p.own[s], "Update")
        /\ p.base # Absent => p.base[s] = Absent \/ HasKind(p.base[s], "Insert")
        /\ HasKind(p.own[s], "Delete") => p.base # Absent /\ HasKind(p.base[s], "Insert")
        /\ s >= c => ws.own[s] = Absent /\ p.own[s] = Absent /\ (p.base # Absent => p.base[s] = Absent)
        /\ HasKind(ws.own[s], "Delete") => HasKind(Folded(p)[s], "Insert")
    BY <1>3, <2>1 DEF SetOK, Under
  <2>3. CASE ws.own[s] = Absent
    <3>1. new.own[s] = p.own[s]
      BY <1>2, <2>1, <2>3 DEF FoldEntry
    <3> QED BY <1>2, <2>2, <3>1
  <2>4. CASE HasKind(ws.own[s], "Delete")
    <3>1. HasKind(Logical(p, s), "Insert") /\ ws.own[s] # Absent /\ ~HasKind(ws.own[s], "Insert")
      BY <2>1, <2>2, <2>4, FoldedMap, Kinds DEF HasKind
    <3>2. new.own[s] = IF p.own[s] # Absent THEN Absent ELSE ws.own[s]
      BY <1>2, <2>1, <2>4, <3>1 DEF FoldEntry
    <3>3. CASE p.own[s] # Absent
      BY <1>2, <2>2, <3>2, <3>3, Kinds
    <3>4. CASE p.own[s] = Absent
      <4>1. p.base # Absent /\ HasKind(p.base[s], "Insert")
        <5>1. Logical(p, s) = IF p.base = Absent THEN Absent ELSE p.base[s]
          BY <3>4 DEF Logical
        <5> QED BY <3>1, <5>1 DEF HasKind
      <4>2. new.own[s] = ws.own[s]
        BY <3>2, <3>4
      <4> QED BY <1>2, <2>2, <3>1, <4>1, <4>2
    <3> QED BY <3>3, <3>4
  <2>5. CASE HasKind(ws.own[s], "Insert")
    <3>1. new.own[s] = ws.own[s] /\ ws.own[s] # Absent /\ ~HasKind(ws.own[s], "Delete")
      <4>1. ws.own[s] # Absent /\ ~HasKind(ws.own[s], "Delete")
        BY <2>1, <2>5, Kinds DEF HasKind
      <4> QED BY <1>2, <2>1, <4>1 DEF FoldEntry
    <3> QED BY <1>2, <2>2, <2>5, <3>1
  <2> QED BY <2>1, <2>2, <2>3, <2>4, <2>5, Kinds
<1> QED BY <1>1, <1>2, <1>3, <1>4, <1>5 DEF SetOK

-----------------------------------------------------------------------------
(* Chains.                                                                 *)

LEMMA ChainInit == WSInit => ChainInv
<1> SUFFICES ASSUME WSInit PROVE ChainInv
  OBVIOUS
<1>1. PICK ws : ws = [base |-> Absent, own |-> EmptyMap]
  OBVIOUS
<1>2. EmptyMap \in Map /\ \A id \in Id : EmptyMap[id] = Absent
  BY DEF EmptyMap, Map
<1>3. ws \in WriteSetRecord /\ ws.base = Absent /\ \A id \in Id : ws.own[id] = Absent
  BY <1>1, <1>2 DEF WriteSetRecord
<1>4. 0 \in 0 .. MaxHandles /\ 1 \in 1 .. MaxDepth
  BY WriteSetAssumption
<1>5. SetOK(ws, 0)
  BY <1>3, <1>4, Ids DEF SetOK, HasKind
<1>6. sets = <<ws>> /\ counts = <<0>> /\ saved = Absent
  BY <1>1 DEF WSInit
<1>7. PICK ss \in Seq(WriteSetRecord), cs \in Seq(0 .. MaxHandles) : ss = sets /\ cs = counts
  <2>1. <<ws>> \in Seq(WriteSetRecord)
    BY <1>3
  <2>2. <<0>> \in Seq(0 .. MaxHandles)
    BY <1>4
  <2> QED BY <1>6, <2>1, <2>2
<1>8. Len(ss) = 1 /\ ss[1] = ws /\ Len(cs) = 1 /\ cs[1] = 0
  BY <1>6, <1>7
<1>9. GoodChain(ss, cs)
  BY <1>3, <1>4, <1>5, <1>8 DEF GoodChain
<1> QED BY <1>6, <1>7, <1>9 DEF ChainInv, GoodSave

(* The elements of a good chain. *)
LEMMA Chain ==
    ASSUME NEW ss, NEW cs, GoodChain(ss, cs)
    PROVE  /\ Len(ss) \in Nat \ {0} /\ Len(ss) <= MaxDepth /\ Len(cs) = Len(ss)
           /\ ss \in Seq(WriteSetRecord) /\ cs \in Seq(0 .. MaxHandles)
           /\ \A i \in 1 .. Len(ss) : ss[i] \in WriteSetRecord /\ cs[i] \in 0 .. MaxHandles
           /\ GoodTip(ss, cs, ss[Len(ss)], cs[Len(ss)])
<1>1. Len(ss) \in Nat \ {0} /\ Len(ss) <= MaxDepth
  BY WriteSetAssumption DEF GoodChain
<1>2. \A i \in 1 .. Len(ss) : ss[i] \in WriteSetRecord /\ cs[i] \in 0 .. MaxHandles
  BY DEF GoodChain, SetOK
<1>3. Len(ss) \in 1 .. Len(ss) /\ (Len(ss) > 1 => Len(ss) \in 2 .. Len(ss))
  BY <1>1
<1> QED BY <1>1, <1>2, <1>3 DEF GoodChain, GoodTip

(* The last write set is replaced. *)
LEMMA TipReplaced ==
    ASSUME NEW ss, NEW cs, GoodChain(ss, cs), NEW ws, NEW c, GoodTip(ss, cs, ws, c),
           NEW ts, ts = [ss EXCEPT ![Len(ss)] = ws], NEW ds, ds = [cs EXCEPT ![Len(ss)] = c]
    PROVE  GoodChain(ts, ds)
<1>1. PICK n \in Nat \ {0} : n = Len(ss)
  BY Chain
<1>2. /\ ss \in Seq(WriteSetRecord) /\ cs \in Seq(0 .. MaxHandles) /\ Len(cs) = n /\ n \in 1 .. MaxDepth
      /\ ws \in WriteSetRecord /\ c \in 0 .. MaxHandles /\ n \in 1 .. n
  BY <1>1, Chain, WriteSetAssumption DEF GoodTip, SetOK
<1>3. /\ ts \in Seq(WriteSetRecord) /\ Len(ts) = n /\ ts[n] = ws
      /\ \A i \in 1 .. n : i # n => ts[i] = ss[i]
  BY <1>1, <1>2, ExceptSeq
<1>4. /\ ds \in Seq(0 .. MaxHandles) /\ Len(ds) = n /\ ds[n] = c
      /\ \A i \in 1 .. n : i # n => ds[i] = cs[i]
  BY <1>1, <1>2, ExceptSeq
<1>5. ts[1].base = Absent
  <2>1. n = 1 \/ (1 # n /\ 1 \in 1 .. n)
    BY <1>1
  <2> QED BY <1>1, <1>3, <2>1 DEF GoodChain, GoodTip
<1>6. \A i \in 1 .. n : SetOK(ts[i], ds[i])
  BY <1>1, <1>3, <1>4 DEF GoodChain, GoodTip
<1>7. ASSUME NEW i \in 2 .. n PROVE Under(ts[i - 1], ds[i - 1], ts[i], ds[i])
  <2>1. i - 1 \in 1 .. n /\ i - 1 # n /\ i \in 1 .. n /\ n > 1
    BY <1>1
  <2>2. ts[i - 1] = ss[i - 1] /\ ds[i - 1] = cs[i - 1]
    BY <1>3, <1>4, <2>1
  <2>3. CASE i = n
    BY <1>1, <1>3, <1>4, <2>1, <2>2, <2>3 DEF GoodTip
  <2>4. CASE i # n
    BY <1>1, <1>3, <1>4, <2>1, <2>2, <2>4 DEF GoodChain
  <2> QED BY <2>3, <2>4
<1> QED BY <1>2, <1>3, <1>4, <1>5, <1>6, <1>7 DEF GoodChain

(* The snapshot still fits then. *)
LEMMA SaveKept ==
    ASSUME NEW ss, NEW cs, GoodChain(ss, cs), NEW ws, NEW c, GoodTip(ss, cs, ws, c),
           NEW ts, ts = [ss EXCEPT ![Len(ss)] = ws], NEW ds, ds = [cs EXCEPT ![Len(ss)] = c],
           NEW sv, GoodSave(ss, cs, sv)
    PROVE  GoodSave(ts, ds, sv)
<1>1. PICK n \in Nat \ {0} : n = Len(ss)
  BY Chain
<1>2. /\ ss \in Seq(WriteSetRecord) /\ cs \in Seq(0 .. MaxHandles) /\ Len(cs) = n /\ n \in 1 .. MaxDepth
      /\ ws \in WriteSetRecord /\ c \in 0 .. MaxHandles /\ n \in 1 .. n
  BY <1>1, Chain, WriteSetAssumption DEF GoodTip, SetOK
<1>3. /\ ts \in Seq(WriteSetRecord) /\ Len(ts) = n /\ ts[n] = ws
      /\ \A i \in 1 .. n : i # n => ts[i] = ss[i]
  BY <1>1, <1>2, ExceptSeq
<1>4. /\ ds \in Seq(0 .. MaxHandles) /\ Len(ds) = n /\ ds[n] = c
      /\ \A i \in 1 .. n : i # n => ds[i] = cs[i]
  BY <1>1, <1>2, ExceptSeq
<1>5. n > 1 => n - 1 \in 1 .. n /\ n - 1 # n
  BY <1>1
<1>6. n > 1 => ts[n - 1] = ss[n - 1] /\ ds[n - 1] = cs[n - 1]
  BY <1>3, <1>4, <1>5
<1> QED BY <1>1, <1>3, <1>6 DEF GoodSave, GoodTip

LEMMA Prefixes ==
    ASSUME NEW S, NEW q \in Seq(S), NEW k \in 0 .. Len(q)
    PROVE  SubSeq(q, 1, k) \in Seq(S) /\ Len(SubSeq(q, 1, k)) = k /\ \A i \in 1 .. k : SubSeq(q, 1, k)[i] = q[i]
<1>1. Len(q) \in Nat /\ \A i \in 1 .. Len(q) : q[i] \in S
  BY LenProperties, ElementOfSeq
<1>2. 1 \in Int /\ k \in Int /\ \A i \in 1 .. k : q[i] \in S
  BY <1>1
<1>3. /\ SubSeq(q, 1, k) \in Seq(S) /\ Len(SubSeq(q, 1, k)) = IF 1 <= k THEN k - 1 + 1 ELSE 0
      /\ \A i \in 1 .. k - 1 + 1 : SubSeq(q, 1, k)[i] = q[1 + i - 1]
  BY <1>2, SubSeqProperties
<1>4. (IF 1 <= k THEN k - 1 + 1 ELSE 0) = k
  BY <1>1
<1>5. ASSUME NEW i \in 1 .. k PROVE SubSeq(q, 1, k)[i] = q[i]
  <2>1. i \in 1 .. k - 1 + 1 /\ 1 + i - 1 = i
    BY <1>1
  <2> QED BY <1>3, <2>1
<1> QED BY <1>3, <1>4, <1>5

(* Replacing the last two elements by one. *)
LEMMA LastReplaced ==
    ASSUME NEW S, NEW q \in Seq(S), NEW x \in S, NEW k \in Nat, Len(q) = k + 2
    PROVE  Append(SubSeq(q, 1, k), x) = [SubSeq(q, 1, k + 1) EXCEPT ![k + 1] = x]
<1>1. k \in 0 .. Len(q) /\ k + 1 \in 0 .. Len(q) /\ k + 1 \in 1 .. k + 1
  OBVIOUS
<1>2. PICK a, b : a = SubSeq(q, 1, k) /\ b = SubSeq(q, 1, k + 1)
  OBVIOUS
<1>3. a \in Seq(S) /\ Len(a) = k /\ \A i \in 1 .. k : a[i] = q[i]
  BY <1>1, <1>2, Prefixes
<1>4. b \in Seq(S) /\ Len(b) = k + 1 /\ \A i \in 1 .. k + 1 : b[i] = q[i]
  BY <1>1, <1>2, Prefixes
<1>5. PICK c, d : c = Append(a, x) /\ d = [b EXCEPT ![k + 1] = x]
  OBVIOUS
<1>6. c \in Seq(S) /\ Len(c) = k + 1 /\ c[k + 1] = x /\ \A i \in 1 .. k : c[i] = q[i]
  BY <1>3, <1>5, AppendProperties
<1>7. d \in Seq(S) /\ Len(d) = k + 1 /\ \A i \in 1 .. k + 1 : d[i] = IF i = k + 1 THEN x ELSE q[i]
  BY <1>1, <1>4, <1>5, ExceptSeq
<1>8. \A i \in 1 .. k + 1 : i = k + 1 \/ i \in 1 .. k
  OBVIOUS
<1>9. \A i \in 1 .. k + 1 : c[i] = d[i]
  BY <1>6, <1>7, <1>8
<1>10. c = d
  BY <1>6, <1>7, <1>9, SeqEqual
<1> QED BY <1>2, <1>5, <1>10

LEMMA CountPrefixes ==
    ASSUME NEW q \in Seq(0 .. MaxHandles), NEW k \in 0 .. Len(q)
    PROVE  /\ SubSeq(q, 1, k) \in Seq(0 .. MaxHandles) /\ Len(SubSeq(q, 1, k)) = k
           /\ \A i \in 1 .. k : SubSeq(q, 1, k)[i] = q[i]
<1>1. PICK S : S = 0 .. MaxHandles
  OBVIOUS
<1>2. q \in Seq(S)
  BY <1>1
<1>3. SubSeq(q, 1, k) \in Seq(S) /\ Len(SubSeq(q, 1, k)) = k /\ \A i \in 1 .. k : SubSeq(q, 1, k)[i] = q[i]
  BY <1>2, Prefixes
<1> QED BY <1>1, <1>3

(* A branch is added. *)
LEMMA ChainGrows ==
    ASSUME NEW ss, NEW cs, GoodChain(ss, cs), Len(ss) < MaxDepth,
           NEW ws, ws = [base |-> Folded(ss[Len(ss)]), own |-> EmptyMap],
           NEW ts, ts = Append(ss, ws), NEW ds, ds = Append(cs, cs[Len(ss)])
    PROVE  SetOK(ws, cs[Len(ss)]) /\ GoodChain(ts, ds)
<1>1. PICK n \in Nat \ {0} : n = Len(ss)
  BY Chain
<1>2. PICK t, c : t = ss[n] /\ c = cs[n]
  OBVIOUS
<1>3. /\ ss \in Seq(WriteSetRecord) /\ cs \in Seq(0 .. MaxHandles) /\ Len(cs) = n
      /\ SetOK(t, c) /\ c \in 0 .. MaxHandles
  BY <1>1, <1>2, Chain DEF GoodTip, SetOK
<1>4. EmptyMap \in Map /\ \A id \in Id : EmptyMap[id] = Absent
  BY DEF EmptyMap, Map
<1>5. ws \in WriteSetRecord /\ ws.base = Folded(t) /\ ws.base # Absent /\ \A id \in Id : ws.own[id] = Absent
  BY <1>1, <1>2, <1>3, <1>4, FoldedMap DEF WriteSetRecord
<1>6. \A id \in Id : /\ ~HasKind(ws.own[id], "Insert") /\ ~HasKind(ws.own[id], "Update")
                     /\ ~HasKind(ws.own[id], "Delete")
  BY <1>5 DEF HasKind
<1>7. SetOK(ws, c)
  <2>1. \A id \in RealId : ~HasKind(ws.own[id], "Insert") /\ ~HasKind(ws.base[id], "Insert")
    BY <1>3, <1>5, <1>6, FoldedMap, Ids
  <2>2. ASSUME NEW s \in Slot
        PROVE  /\ ~HasKind(ws.own[s], "Update") /\ ~HasKind(ws.own[s], "Delete") /\ ws.own[s] = Absent
               /\ ws.base[s] = Absent \/ HasKind(ws.base[s], "Insert")
               /\ s >= c => ws.base[s] = Absent
    BY <1>3, <1>5, <1>6, FoldedMap, Ids
  <2> QED BY <1>3, <1>5, <2>1, <2>2 DEF SetOK
<1>8. Under(t, c, ws, c)
  BY <1>3, <1>5, <1>6, Ids DEF Under
<1>9. /\ ts \in Seq(WriteSetRecord) /\ Len(ts) = n + 1 /\ ts[n + 1] = ws
      /\ \A i \in 1 .. n : ts[i] = ss[i]
  BY <1>1, <1>3, <1>5, AppendProperties
<1>10. /\ ds \in Seq(0 .. MaxHandles) /\ Len(ds) = n + 1 /\ ds[n + 1] = c
       /\ \A i \in 1 .. n : ds[i] = cs[i]
  BY <1>1, <1>2, <1>3, AppendProperties
<1>11. ASSUME NEW i \in 1 .. n + 1 PROVE SetOK(ts[i], ds[i])
  <2>1. i \in 1 .. n \/ i = n + 1
    BY <1>1
  <2> QED BY <1>1, <1>7, <1>9, <1>10, <2>1 DEF GoodChain
<1>12. ASSUME NEW i \in 2 .. n + 1 PROVE Under(ts[i - 1], ds[i - 1], ts[i], ds[i])
  <2>1. i \in 2 .. n \/ i = n + 1
    BY <1>1
  <2>2. CASE i \in 2 .. n
    <3>1. i - 1 \in 1 .. n /\ i \in 1 .. n
      BY <1>1, <2>2
    <3> QED BY <1>1, <1>9, <1>10, <2>2, <3>1 DEF GoodChain
  <2>3. CASE i = n + 1
    <3>1. i - 1 = n /\ n \in 1 .. n
      BY <1>1, <2>3
    <3> QED BY <1>2, <1>8, <1>9, <1>10, <2>3, <3>1
  <2> QED BY <2>1, <2>2, <2>3
<1>13. ts[1].base = Absent /\ n + 1 \in 1 .. MaxDepth
  BY <1>1, <1>9, WriteSetAssumption DEF GoodChain
<1> QED BY <1>1, <1>2, <1>7, <1>9, <1>10, <1>11, <1>12, <1>13 DEF GoodChain

(* The last branch goes. *)
LEMMA ChainShrinks ==
    ASSUME NEW ss, NEW cs, GoodChain(ss, cs), NEW m \in Nat \ {0}, Len(ss) = m + 1,
           NEW ts, ts = SubSeq(ss, 1, m), NEW ds, ds = SubSeq(cs, 1, m)
    PROVE  GoodChain(ts, ds)
<1>1. PICK n \in Nat \ {0} : n = Len(ss) /\ n > 1
  BY Chain
<1>2. m = n - 1
  BY <1>1
<1>3. /\ ss \in Seq(WriteSetRecord) /\ cs \in Seq(0 .. MaxHandles) /\ Len(cs) = n /\ n <= MaxDepth
  BY <1>1, Chain
<1>4. m \in 0 .. n /\ 1 \in 1 .. m
  BY <1>1, <1>2
<1>5. /\ ts \in Seq(WriteSetRecord) /\ Len(ts) = m /\ \A i \in 1 .. m : ts[i] = ss[i]
  BY <1>1, <1>2, <1>3, <1>4, Prefixes
<1>6. /\ ds \in Seq(0 .. MaxHandles) /\ Len(ds) = m /\ \A i \in 1 .. m : ds[i] = cs[i]
  BY <1>1, <1>2, <1>3, <1>4, CountPrefixes
<1>7. ASSUME NEW i \in 1 .. m PROVE SetOK(ts[i], ds[i]) /\ (i > 1 => Under(ts[i - 1], ds[i - 1], ts[i], ds[i]))
  <2>1. i \in 1 .. n /\ (i > 1 => i - 1 \in 1 .. m /\ i \in 2 .. n)
    BY <1>1, <1>2
  <2> QED BY <1>1, <1>5, <1>6, <2>1 DEF GoodChain
<1>8. \A i \in 2 .. m : i \in 1 .. m /\ i > 1
  BY <1>2
<1>9. m \in 1 .. MaxDepth /\ ts[1].base = Absent
  BY <1>1, <1>2, <1>3, <1>4, <1>5, WriteSetAssumption DEF GoodChain
<1> QED BY <1>5, <1>6, <1>7, <1>8, <1>9 DEF GoodChain

(* The last branch is absorbed: the chain without it, its last write set   *)
(* replaced.                                                               *)
LEMMA ChainAbsorbs ==
    ASSUME NEW ss, NEW cs, GoodChain(ss, cs), Len(ss) > 1,
           NEW ws, ws = AbsorbInto(ss[Len(ss) - 1], ss[Len(ss)]),
           NEW ts, ts = Append(SubSeq(ss, 1, Len(ss) - 2), ws),
           NEW ds, ds = Append(SubSeq(cs, 1, Len(ss) - 2), cs[Len(ss)])
    PROVE  GoodChain(ts, ds)
<1>1. PICK n \in Nat \ {0} : n = Len(ss) /\ n > 1
  BY Chain
<1>2. PICK m \in Nat \ {0} : m = n - 1
  <2>1. n - 1 \in Nat \ {0}
    BY <1>1
  <2> QED BY <2>1
<1>3. PICK p, pc, t, c : p = ss[m] /\ pc = cs[m] /\ t = ss[n] /\ c = cs[n]
  OBVIOUS
<1>4. m \in 1 .. n /\ n \in 2 .. n /\ n \in 1 .. n
  BY <1>1, <1>2
<1>5. /\ SetOK(p, pc) /\ SetOK(t, c) /\ Under(p, pc, t, c)
  BY <1>1, <1>2, <1>3, <1>4 DEF GoodChain
<1>6. ws = AbsorbInto(p, t) /\ ws \in WriteSetRecord /\ ws.base = p.base
  BY <1>1, <1>2, <1>3, <1>5, AbsorbLayers
<1>7. SetOK(ws, c) /\ pc <= c /\ c \in 0 .. MaxHandles /\ pc \in 0 .. MaxHandles
  <2>1. SetOK(ws, c)
    BY <1>5, <1>6, AbsorbKeeps
  <2> QED BY <1>5, <2>1 DEF Under, SetOK
<1>8. PICK us, bs : us = SubSeq(ss, 1, m) /\ bs = SubSeq(cs, 1, m)
  OBVIOUS
<1>9. /\ GoodChain(us, bs) /\ Len(us) = m /\ Len(bs) = m /\ \A i \in 1 .. m : us[i] = ss[i] /\ bs[i] = cs[i]
  <2>1. Len(ss) = m + 1 /\ GoodChain(ss, cs) /\ m \in Nat \ {0}
    BY <1>1, <1>2
  <2>2. us = SubSeq(ss, 1, m) /\ bs = SubSeq(cs, 1, m)
    BY <1>8
  <2> HIDE <1>8
  <2>3. GoodChain(us, bs)
    BY ONLY <2>1, <2>2, ChainShrinks, Zenon
  <2>4. /\ ss \in Seq(WriteSetRecord) /\ cs \in Seq(0 .. MaxHandles) /\ Len(cs) = Len(ss) /\ m \in 0 .. Len(ss)
    BY <2>1, Chain
  <2>5. Len(us) = m /\ \A i \in 1 .. m : us[i] = ss[i]
    BY ONLY <2>2, <2>4, Prefixes
  <2>6. Len(bs) = m /\ \A i \in 1 .. m : bs[i] = cs[i]
    BY ONLY <2>2, <2>4, CountPrefixes
  <2> QED BY <2>3, <2>5, <2>6
<1>10. us[m] = p /\ bs[m] = pc
  BY <1>2, <1>3, <1>9
<1>11. GoodTip(us, bs, ws, c)
  <2>1. CASE m > 1
    <3>1. m \in 2 .. m /\ m - 1 \in 1 .. m
      BY <1>2, <2>1
    <3>2. PICK g, gc : g = us[m - 1] /\ gc = bs[m - 1]
      OBVIOUS
    <3>3. Under(g, gc, p, pc) /\ SetOK(g, gc)
      BY <1>9, <1>10, <3>1, <3>2 DEF GoodChain
    <3>4. gc \in Nat /\ gc <= c
      BY <1>7, <3>3 DEF Under, SetOK
    <3>5. Under(g, gc, ws, c)
      BY <1>6, <3>3, <3>4 DEF Under
    <3> QED BY <1>6, <1>7, <1>9, <1>10, <3>2, <3>5 DEF GoodTip
  <2>2. CASE ~(m > 1)
    BY <1>6, <1>7, <1>9, <1>10, <2>2 DEF GoodTip
  <2> QED BY <2>1, <2>2
<1>12. PICK vs, es : vs = [us EXCEPT ![m] = ws] /\ es = [bs EXCEPT ![m] = c]
  OBVIOUS
<1>13. GoodChain(vs, es)
  <2>1. vs = [us EXCEPT ![Len(us)] = ws] /\ es = [bs EXCEPT ![Len(us)] = c]
    BY <1>9, <1>12
  <2> QED BY <1>9, <1>11, <2>1, TipReplaced
<1>14. ts = vs /\ ds = es
  <2>1. PICK k \in Nat : m = k + 1 /\ n - 2 = k /\ n = k + 2
    <3>1. m - 1 \in Nat /\ m = (m - 1) + 1 /\ n - 2 = m - 1 /\ n = (m - 1) + 2
      BY <1>1, <1>2
    <3> QED BY <3>1
  <2>2. ss \in Seq(WriteSetRecord) /\ cs \in Seq(0 .. MaxHandles) /\ Len(cs) = k + 2 /\ Len(ss) = k + 2
    BY <1>1, <2>1, Chain
  <2>3. ts = Append(SubSeq(ss, 1, k), ws) /\ ds = Append(SubSeq(cs, 1, k), c)
    BY <1>1, <1>3, <2>1
  <2>4. ts = vs
    BY <1>6, <1>8, <1>12, <2>1, <2>2, <2>3, LastReplaced
  <2>5. PICK S : S = 0 .. MaxHandles
    OBVIOUS
  <2>6. cs \in Seq(S) /\ c \in S
    BY <1>7, <2>2, <2>5
  <2>7. Append(SubSeq(cs, 1, k), c) = [SubSeq(cs, 1, k + 1) EXCEPT ![k + 1] = c]
    BY ONLY k \in Nat, <2>2, <2>6, LastReplaced
  <2> QED BY <1>8, <1>12, <2>1, <2>3, <2>4, <2>7
<1> QED BY <1>13, <1>14

-----------------------------------------------------------------------------
(* The steps.                                                              *)

(* A write to the running transaction. *)
LEMMA WriteKeeps ==
    ASSUME ChainInv, NEW id \in Id, NEW e \in Entry \cup {Absent}, NEW c \in 0 .. MaxHandles,
           counts[Deepest] <= c, PutOwn(id, e), counts' = [counts EXCEPT ![Deepest] = c],
           id \in RealId => ~HasKind(e, "Insert"),
           id \in Slot =>
               /\ ~HasKind(e, "Update") /\ (e # Absent => id < c)
               /\ HasKind(e, "Delete") => Tip.base # Absent /\ HasKind(Tip.base[id], "Insert")
    PROVE  ChainInv'
<1>1. PICK n \in Nat \ {0} : n = Deepest
  BY Chain DEF ChainInv, Deepest
<1>2. PICK t, d, ws : t = sets[n] /\ d = counts[n] /\ ws = Put(t, id, e)
  OBVIOUS
<1>3. SetOK(t, d) /\ GoodTip(sets, counts, t, d) /\ t \in WriteSetRecord /\ d \in 0 .. MaxHandles
  BY <1>1, <1>2, Chain DEF ChainInv, Deepest, GoodTip, SetOK
<1>4. Tip = t /\ counts[Deepest] = d
  BY <1>1, <1>2 DEF Tip
<1>5. SetOK(ws, c)
  BY <1>2, <1>3, <1>4, PutKeeps
<1>6. ws.base = t.base /\ ws.own[id] = e /\ \A x \in Id \ {id} : ws.own[x] = t.own[x]
  BY <1>2, <1>3, PutLayers
<1>7. GoodTip(sets, counts, ws, c)
  <2>1. ASSUME n > 1 PROVE Under(sets[n - 1], counts[n - 1], ws, c)
    <3>1. PICK p, pc : p = sets[n - 1] /\ pc = counts[n - 1]
      OBVIOUS
    <3>2. Under(p, pc, t, d) /\ pc \in Nat
      <4>1. n - 1 \in 1 .. Len(sets)
        BY <1>1, <2>1 DEF Deepest
      <4> QED BY <1>1, <1>3, <2>1, <3>1, <4>1, Chain DEF GoodTip, ChainInv, Deepest
    <3>3. pc <= d /\ pc <= c
      BY <1>3, <1>4, <3>2 DEF Under
    <3> QED BY <1>6, <3>1, <3>2, <3>3 DEF Under
  <2> QED BY <1>1, <1>2, <1>5, <1>6, <2>1 DEF GoodTip, Deepest
<1>8. sets' = [sets EXCEPT ![n] = ws] /\ counts' = [counts EXCEPT ![n] = c] /\ saved' = saved
  BY <1>1, <1>2, <1>4 DEF PutOwn, Put
<1>9. PICK ts, ds : ts = sets' /\ ds = counts'
  OBVIOUS
<1>10. GoodChain(ts, ds) /\ GoodSave(ts, ds, saved)
  <2>1. ts = [sets EXCEPT ![Len(sets)] = ws] /\ ds = [counts EXCEPT ![Len(sets)] = c] /\ GoodChain(sets, counts)
    BY <1>1, <1>8, <1>9 DEF ChainInv, Deepest
  <2>2. GoodChain(ts, ds)
    BY <1>7, <2>1, TipReplaced
  <2>3. GoodSave(ts, ds, saved)
    BY <1>7, <2>1, SaveKept DEF ChainInv
  <2> QED BY <2>2, <2>3
<1> QED BY <1>8, <1>9, <1>10 DEF ChainInv

(* What the running transaction shows for a handle. *)
LEMMA TipFacts ==
    ASSUME ChainInv
    PROVE  /\ SetOK(Tip, counts[Deepest]) /\ Tip \in WriteSetRecord /\ counts[Deepest] \in 0 .. MaxHandles
           /\ \A id \in Id :
                 /\ Tip.own[id] \in Entry \cup {Absent} /\ Logical(Tip, id) \in Entry \cup {Absent}
                 /\ HasKind(Logical(Tip, id), "Insert") => id \in Slot /\ id < counts[Deepest]
                 /\ HasKind(Logical(Tip, id), "Update") => id \in RealId
                 /\ HasKind(Logical(Tip, id), "Insert") /\ Inherited(id) =>
                       Tip.base # Absent /\ HasKind(Tip.base[id], "Insert")
                 /\ HasKind(Logical(Tip, id), "Insert") /\ ~Inherited(id) => HasKind(Tip.own[id], "Insert")
<1>1. PICK t, c : t = Tip /\ c = counts[Deepest]
  OBVIOUS
<1>2. SetOK(t, c) /\ t \in WriteSetRecord /\ c \in 0 .. MaxHandles
  BY <1>1, Chain DEF ChainInv, Tip, Deepest, GoodTip, SetOK
<1>3. ASSUME NEW id \in Id
      PROVE  /\ t.own[id] \in Entry \cup {Absent} /\ Logical(t, id) \in Entry \cup {Absent}
             /\ HasKind(Logical(t, id), "Insert") => id \in Slot /\ id < c
             /\ HasKind(Logical(t, id), "Update") => id \in RealId
             /\ HasKind(Logical(t, id), "Insert") /\ t.own[id] = Absent =>
                   t.base # Absent /\ HasKind(t.base[id], "Insert")
             /\ HasKind(Logical(t, id), "Insert") /\ t.own[id] # Absent => HasKind(t.own[id], "Insert")
  <2>1. t.own[id] \in Entry \cup {Absent} /\ Logical(t, id) \in Entry \cup {Absent}
    BY <1>2, Layers
  <2>2. \/ t.own[id] # Absent /\ Logical(t, id) = t.own[id]
        \/ t.own[id] = Absent /\ t.base = Absent /\ Logical(t, id) = Absent
        \/ t.own[id] = Absent /\ t.base # Absent /\ Logical(t, id) = t.base[id]
    BY DEF Logical
  <2>3. CASE id \in RealId
    BY <1>2, <2>1, <2>2, <2>3 DEF SetOK, HasKind
  <2>4. CASE id \in Slot
    <3>1. id \in Nat /\ (~(id < c) => id >= c)
      BY <1>2, <2>4, Ids
    <3> QED BY <1>2, <2>1, <2>2, <2>4, <3>1 DEF SetOK, HasKind
  <2> QED BY <2>3, <2>4, Ids
<1>4. \A id \in Id : HasKind(Logical(t, id), "Insert") /\ Inherited(id) => t.own[id] = Absent
  BY <1>1 DEF Inherited
<1>5. \A id \in Id : HasKind(Logical(t, id), "Insert") /\ ~Inherited(id) => t.own[id] # Absent
  BY <1>1 DEF Inherited, HasKind
<1> QED BY <1>1, <1>2, <1>3, <1>4, <1>5

LEMMA InsertKeeps ==
    ASSUME ChainInv, NEW row \in Value, BufferInsert(row)
    PROVE  ChainInv'
<1>1. PICK h, e : h = counts[Deepest] /\ e = [kind |-> "Insert", row |-> row]
  OBVIOUS
<1>2. h < MaxHandles /\ PutOwn(h, e) /\ counts' = [counts EXCEPT ![Deepest] = h + 1]
  BY <1>1 DEF BufferInsert
<1>3. h \in 0 .. MaxHandles
  BY <1>1, TipFacts
<1>4. h \in Slot /\ h + 1 \in 0 .. MaxHandles /\ h <= h + 1 /\ h < h + 1 /\ h >= h
  BY <1>2, <1>3, WriteSetAssumption DEF Slot
<1>5. h \in Id /\ h \notin RealId
  BY <1>4, Ids
<1>6. e \in Entry /\ HasKind(e, "Insert")
  BY <1>1, NewEntries
<1>7. ~HasKind(e, "Update") /\ ~HasKind(e, "Delete")
  BY <1>6, Kinds
<1> QED BY <1>1, <1>2, <1>4, <1>5, <1>6, <1>7, WriteKeeps

LEMMA SameCounts ==
    ASSUME ChainInv, counts' = counts
    PROVE  counts' = [counts EXCEPT ![Deepest] = counts[Deepest]]
<1>1. counts \in Seq(0 .. MaxHandles) /\ Deepest \in 1 .. Len(counts)
  BY Chain DEF ChainInv, Deepest
<1>2. counts = [i \in 1 .. Len(counts) |-> counts[i]]
  BY <1>1
<1> QED BY <1>1, <1>2

LEMMA UpdateKeeps ==
    ASSUME ChainInv, NEW id \in Id, NEW row \in Value, BufferUpdate(id, row)
    PROVE  ChainInv'
<1>1. PICK old, c, i, u : /\ old = Logical(Tip, id) /\ c = counts[Deepest]
                          /\ i = [kind |-> "Insert", row |-> row] /\ u = [kind |-> "Update", row |-> row]
  OBVIOUS
<1>2. counts' = [counts EXCEPT ![Deepest] = c] /\ c \in 0 .. MaxHandles /\ c <= c
  BY <1>1, SameCounts, TipFacts DEF BufferUpdate
<1>3. /\ i \in Entry /\ u \in Entry /\ HasKind(i, "Insert") /\ HasKind(u, "Update")
      /\ ~HasKind(i, "Update") /\ ~HasKind(i, "Delete") /\ ~HasKind(u, "Insert") /\ ~HasKind(u, "Delete")
  BY <1>1, NewEntries, Kinds
<1>4. CASE id \in RealId /\ PutOwn(id, u)
  BY <1>1, <1>2, <1>3, <1>4, Ids, WriteKeeps
<1>5. CASE HasKind(old, "Insert") /\ PutOwn(id, i)
  <2>1. id \in Slot /\ id \notin RealId /\ id < c
    BY <1>1, <1>5, TipFacts, Ids
  <2> QED BY <1>1, <1>2, <1>3, <1>5, <2>1, WriteKeeps
<1>6. \/ old = Absent /\ id \in RealId /\ PutOwn(id, u)
      \/ HasKind(old, "Insert") /\ PutOwn(id, i)
      \/ HasKind(old, "Update") /\ PutOwn(id, u)
  BY <1>1 DEF BufferUpdate
<1>7. HasKind(old, "Update") => id \in RealId
  BY <1>1, TipFacts
<1> QED BY <1>4, <1>5, <1>6, <1>7

LEMMA DeleteKeeps ==
    ASSUME ChainInv, NEW id \in Id, BufferDelete(id)
    PROVE  ChainInv'
<1>1. PICK old, c, d : /\ old = Logical(Tip, id) /\ c = counts[Deepest]
                       /\ d = [kind |-> "Delete", row |-> Absent]
  OBVIOUS
<1>2. counts' = [counts EXCEPT ![Deepest] = c] /\ c \in 0 .. MaxHandles /\ c <= c
  BY <1>1, SameCounts, TipFacts DEF BufferDelete
<1>3. d \in Entry /\ HasKind(d, "Delete") /\ ~HasKind(d, "Insert") /\ ~HasKind(d, "Update")
  BY <1>1, Tombstones, Kinds
<1>4. ~HasKind(Absent, "Delete") /\ ~HasKind(Absent, "Insert") /\ ~HasKind(Absent, "Update")
  BY DEF HasKind
<1>5. CASE id \in RealId /\ PutOwn(id, d)
  BY <1>1, <1>2, <1>3, <1>5, Ids, WriteKeeps
<1>6. CASE HasKind(old, "Insert") /\ ~Inherited(id) /\ PutOwn(id, Absent)
  <2>1. id \in Slot /\ id \notin RealId
    BY <1>1, <1>6, TipFacts, Ids
  <2> QED BY <1>1, <1>2, <1>4, <1>6, <2>1, WriteKeeps
<1>7. CASE HasKind(old, "Insert") /\ Inherited(id) /\ PutOwn(id, d)
  <2>1. id \in Slot /\ id \notin RealId /\ id < c /\ Tip.base # Absent /\ HasKind(Tip.base[id], "Insert")
    BY <1>1, <1>7, TipFacts, Ids
  <2> QED BY <1>1, <1>2, <1>3, <1>7, <2>1, WriteKeeps
<1>8. \/ old = Absent /\ id \in RealId /\ PutOwn(id, d)
      \/ HasKind(old, "Insert") /\ ~Inherited(id) /\ PutOwn(id, Absent)
      \/ HasKind(old, "Insert") /\ Inherited(id) /\ PutOwn(id, d)
      \/ HasKind(old, "Update") /\ PutOwn(id, d)
  BY <1>1 DEF BufferDelete
<1>9. HasKind(old, "Update") => id \in RealId
  BY <1>1, TipFacts
<1> QED BY <1>5, <1>6, <1>7, <1>8, <1>9

LEMMA ChainStep == ChainInv /\ [WSNext]_wvars => ChainInv'
<1> SUFFICES ASSUME ChainInv, [WSNext]_wvars PROVE ChainInv'
  OBVIOUS
<1>1. PICK n \in Nat \ {0} : n = Deepest /\ n = Len(sets)
  BY Chain DEF ChainInv, Deepest
<1>2. PICK ts, ds : ts = sets' /\ ds = counts'
  OBVIOUS
<1>3. PICK ss, cs : ss = sets /\ cs = counts /\ GoodChain(ss, cs) /\ Len(ss) = n
  BY <1>1 DEF ChainInv
<1>4. ASSUME saved' = Absent, GoodChain(ts, ds) PROVE ChainInv'
  BY <1>2, <1>4 DEF ChainInv, GoodSave
<1>5. CASE Branch
  <2>1. PICK ws : ws = [base |-> Folded(ss[Len(ss)]), own |-> EmptyMap]
    OBVIOUS
  <2>2. Len(ss) < MaxDepth /\ ts = Append(ss, ws) /\ ds = Append(cs, cs[Len(ss)]) /\ saved' = Absent
    BY <1>1, <1>2, <1>3, <1>5, <2>1 DEF Branch, Tip, Deepest
  <2>3. GoodChain(ts, ds)
    BY ONLY <1>3, <2>1, <2>2, ChainGrows
  <2> QED BY <1>4, <2>2, <2>3
<1>6. CASE Absorb
  <2>1. PICK ws : ws = AbsorbInto(ss[Len(ss) - 1], ss[Len(ss)])
    OBVIOUS
  <2>2. n > 1 /\ Len(ss) > 1 /\ saved' = Absent /\ ts = Append(SubSeq(ss, 1, Len(ss) - 2), ws)
    BY <1>1, <1>2, <1>3, <1>6, <2>1 DEF Absorb, Tip, Deepest
  <2>3. cs[Len(ss) - 1] <= cs[Len(ss)] /\ cs[Len(ss) - 1] \in Nat /\ cs[Len(ss)] \in Nat
    <3>1. n \in 2 .. n /\ n \in 1 .. n /\ n - 1 \in 1 .. n
      BY <1>1, <2>2
    <3>2. Under(ss[n - 1], cs[n - 1], ss[n], cs[n]) /\ cs[n] \in 0 .. MaxHandles /\ cs[n - 1] \in 0 .. MaxHandles
      BY <1>3, <3>1, Chain DEF GoodChain
    <3> QED BY <1>3, <3>2 DEF Under
  <2>4. ds = Append(SubSeq(cs, 1, Len(ss) - 2), cs[Len(ss)])
    <3>1. (IF cs[Len(ss)] > cs[Len(ss) - 1] THEN cs[Len(ss)] ELSE cs[Len(ss) - 1]) = cs[Len(ss)]
      BY <2>3
    <3> QED BY <1>1, <1>2, <1>3, <1>6, <3>1 DEF Absorb, Deepest
  <2>5. GoodChain(ts, ds)
    BY ONLY <1>3, <2>1, <2>2, <2>4, ChainAbsorbs
  <2> QED BY <1>4, <2>2, <2>5
<1>7. CASE Discard
  <2>1. n > 1 /\ saved' = Absent /\ ts = SubSeq(ss, 1, n - 1) /\ ds = SubSeq(cs, 1, n - 1)
    BY <1>1, <1>2, <1>3, <1>7 DEF Discard
  <2>2. PICK m \in Nat \ {0} : m = n - 1 /\ n = m + 1
    <3>1. n - 1 \in Nat \ {0} /\ n = (n - 1) + 1
      BY <2>1
    <3> QED BY <3>1
  <2>3. Len(ss) = m + 1 /\ m \in Nat \ {0} /\ ts = SubSeq(ss, 1, m) /\ ds = SubSeq(cs, 1, m)
    BY <1>3, <2>1, <2>2
  <2>4. GoodChain(ts, ds)
    BY ONLY <1>3, <2>3, ChainShrinks, Zenon
  <2> QED BY <1>4, <2>1, <2>4
<1>8. CASE Snapshot
  <2>1. PICK w, c : w = ss[n] /\ c = cs[n]
    OBVIOUS
  <2>2. saved' = [writes |-> w, provisional |-> c] /\ ts = ss /\ ds = cs
    BY <1>1, <1>2, <1>3, <1>8, <2>1 DEF Snapshot, Tip
  <2>3. GoodTip(ss, cs, w, c) /\ w \in WriteSetRecord /\ c \in 0 .. MaxHandles
    BY <1>3, <2>1, Chain DEF GoodTip, SetOK
  <2>4. PICK sv : sv = saved'
    OBVIOUS
  <2>5. GoodSave(ss, cs, sv)
    BY <2>2, <2>3, <2>4 DEF GoodSave
  <2> QED BY <1>2, <1>3, <2>2, <2>4, <2>5 DEF ChainInv
<1>9. CASE Keep
  BY <1>2, <1>3, <1>4, <1>9 DEF Keep
<1>10. CASE Rollback
  <2>1. PICK w, c : w = saved.writes /\ c = saved.provisional
    OBVIOUS
  <2>2. GoodTip(ss, cs, w, c)
    BY <1>3, <1>10, <2>1 DEF Rollback, ChainInv, GoodSave
  <2>3. saved' = Absent /\ ts = [ss EXCEPT ![Len(ss)] = w] /\ ds = [cs EXCEPT ![Len(ss)] = c]
    BY <1>1, <1>2, <1>3, <1>10, <2>1 DEF Rollback
  <2>4. GoodChain(ts, ds)
    BY <1>3, <2>2, <2>3, TipReplaced
  <2> QED BY <1>4, <2>3, <2>4
<1>11. CASE UNCHANGED wvars
  BY <1>11 DEF wvars, ChainInv
<1> QED BY <1>5, <1>6, <1>7, <1>8, <1>9, <1>10, <1>11, InsertKeeps, UpdateKeeps, DeleteKeeps DEF WSNext

(* absorb and branch_of: the transaction that commits holds no tombstone   *)
(* under an insert handle, whatever its branches inserted, updated,        *)
(* deleted, dropped or rolled back, and to any depth of branching.         *)
THEOREM NoTombstoneCommits == WSSpec => []TopHoldsNoTombstone
<1>1. ASSUME ChainInv PROVE TopHoldsNoTombstone
  <2>1. sets[1].base = Absent /\ SetOK(sets[1], counts[1])
    <3>1. 1 \in 1 .. Len(sets)
      BY <1>1, Chain DEF ChainInv
    <3> QED BY <1>1, <3>1 DEF ChainInv, GoodChain
  <2> QED BY <2>1 DEF TopHoldsNoTombstone, SetOK
<1> QED BY <1>1, ChainInit, ChainStep, PTL DEF WSSpec

-----------------------------------------------------------------------------
(* The refinement of deep copies.                                          *)

FlatMaps(ss) == [i \in 1 .. Len(ss) |-> FlatMap(ss[i])]

LEMMA FlatMapType ==
    ASSUME NEW ws \in WriteSetRecord
    PROVE  /\ FlatMap(ws) \in Map
           /\ \A id \in Id : FlatMap(ws)[id] = IF id \in Slot /\ HasKind(Logical(ws, id), "Delete") THEN Absent
                                               ELSE Logical(ws, id)
BY Layers DEF FlatMap, Map

LEMMA SameFlatMap ==
    ASSUME NEW v \in WriteSetRecord, NEW ws \in WriteSetRecord,
           \A id \in Id : FlatMap(v)[id] = FlatMap(ws)[id]
    PROVE  FlatMap(v) = FlatMap(ws)
BY FlatMapType DEF Map

LEMMA FlatMapsType ==
    ASSUME NEW ss \in Seq(WriteSetRecord)
    PROVE  /\ FlatMaps(ss) \in Seq(Map) /\ Len(FlatMaps(ss)) = Len(ss)
           /\ \A i \in 1 .. Len(ss) : FlatMaps(ss)[i] = FlatMap(ss[i])
<1>1. PICK n \in Nat : n = Len(ss)
  BY LenProperties
<1>2. \A i \in 1 .. n : FlatMap(ss[i]) \in Map
  BY <1>1, ElementOfSeq, FlatMapType
<1>3. PICK f : f = FlatMaps(ss)
  OBVIOUS
<1>4. f \in [1 .. n -> Map] /\ \A i \in 1 .. n : f[i] = FlatMap(ss[i])
  BY <1>1, <1>2, <1>3 DEF FlatMaps
<1>5. f \in Seq(Map) /\ Len(f) = n
  BY <1>4
<1> QED BY <1>1, <1>3, <1>4, <1>5

LEMMA FlatOfTip ==
    ASSUME NEW ss \in Seq(WriteSetRecord), NEW n \in 1 .. Len(ss), NEW ws \in WriteSetRecord
    PROVE  FlatMaps([ss EXCEPT ![n] = ws]) = [FlatMaps(ss) EXCEPT ![n] = FlatMap(ws)]
<1>1. PICK ts : ts = [ss EXCEPT ![n] = ws]
  OBVIOUS
<1>2. /\ ts \in Seq(WriteSetRecord) /\ Len(ts) = Len(ss)
      /\ \A j \in 1 .. Len(ss) : ts[j] = IF j = n THEN ws ELSE ss[j]
  BY <1>1, ExceptSeq
<1>3. PICK f, g, h : f = FlatMaps(ss) /\ g = FlatMaps(ts) /\ h = [f EXCEPT ![n] = FlatMap(ws)]
  OBVIOUS
<1>4. f \in Seq(Map) /\ Len(f) = Len(ss) /\ \A i \in 1 .. Len(ss) : f[i] = FlatMap(ss[i])
  BY <1>3, FlatMapsType
<1>5. g \in Seq(Map) /\ Len(g) = Len(ss) /\ \A i \in 1 .. Len(ss) : g[i] = FlatMap(ts[i])
  BY <1>2, <1>3, FlatMapsType
<1>6. FlatMap(ws) \in Map /\ n \in 1 .. Len(f)
  BY <1>4, FlatMapType
<1>7. h \in Seq(Map) /\ Len(h) = Len(f) /\ \A i \in 1 .. Len(f) : h[i] = IF i = n THEN FlatMap(ws) ELSE f[i]
  BY <1>3, <1>4, <1>6, ExceptSeq
<1>8. \A i \in 1 .. Len(ss) : g[i] = h[i]
  BY <1>2, <1>4, <1>5, <1>7
<1>9. g = h
  BY <1>4, <1>5, <1>7, <1>8, SeqEqual
<1> QED BY <1>1, <1>3, <1>9

LEMMA FlatOfAppend ==
    ASSUME NEW ss \in Seq(WriteSetRecord), NEW ws \in WriteSetRecord
    PROVE  FlatMaps(Append(ss, ws)) = Append(FlatMaps(ss), FlatMap(ws))
<1>1. PICK ts : ts = Append(ss, ws)
  OBVIOUS
<1>2. PICK n \in Nat : n = Len(ss)
  BY LenProperties
<1>3. /\ ts \in Seq(WriteSetRecord) /\ Len(ts) = n + 1 /\ ts[n + 1] = ws
      /\ \A j \in 1 .. n : ts[j] = ss[j]
  BY <1>1, <1>2, AppendProperties
<1>4. PICK f, g, h : f = FlatMaps(ss) /\ g = FlatMaps(ts) /\ h = Append(f, FlatMap(ws))
  OBVIOUS
<1>5. f \in Seq(Map) /\ Len(f) = n /\ \A i \in 1 .. n : f[i] = FlatMap(ss[i])
  BY <1>2, <1>4, FlatMapsType
<1>6. g \in Seq(Map) /\ Len(g) = n + 1 /\ \A i \in 1 .. n + 1 : g[i] = FlatMap(ts[i])
  BY <1>3, <1>4, FlatMapsType
<1>7. PICK m \in Map : m = FlatMap(ws)
  BY FlatMapType
<1>8. h \in Seq(Map) /\ Len(h) = n + 1 /\ h[n + 1] = m /\ \A i \in 1 .. n : h[i] = f[i]
  BY <1>4, <1>5, <1>7, AppendProperties
<1>9. \A i \in 1 .. n + 1 : i \in 1 .. n \/ i = n + 1
  BY <1>2
<1>10. \A i \in 1 .. n + 1 : g[i] = h[i]
  BY <1>3, <1>5, <1>6, <1>7, <1>8, <1>9
<1>11. g = h
  BY <1>6, <1>8, <1>10, SeqEqual
<1> QED BY <1>1, <1>4, <1>11

LEMMA FlatOfPrefix ==
    ASSUME NEW ss \in Seq(WriteSetRecord), NEW k \in 0 .. Len(ss)
    PROVE  FlatMaps(SubSeq(ss, 1, k)) = SubSeq(FlatMaps(ss), 1, k)
<1>1. PICK ts : ts = SubSeq(ss, 1, k)
  OBVIOUS
<1>2. ts \in Seq(WriteSetRecord) /\ Len(ts) = k /\ \A j \in 1 .. k : ts[j] = ss[j]
  BY <1>1, Prefixes
<1>3. PICK f, g, h : f = FlatMaps(ss) /\ g = FlatMaps(ts) /\ h = SubSeq(f, 1, k)
  OBVIOUS
<1>4. f \in Seq(Map) /\ Len(f) = Len(ss) /\ \A i \in 1 .. Len(ss) : f[i] = FlatMap(ss[i])
  BY <1>3, FlatMapsType
<1>5. g \in Seq(Map) /\ Len(g) = k /\ \A i \in 1 .. k : g[i] = FlatMap(ts[i])
  BY <1>2, <1>3, FlatMapsType
<1>6. h \in Seq(Map) /\ Len(h) = k /\ \A i \in 1 .. k : h[i] = f[i]
  BY <1>3, <1>4, Prefixes
<1>7. \A i \in 1 .. k : i \in 1 .. Len(ss)
  BY LenProperties
<1>8. \A i \in 1 .. k : g[i] = h[i]
  BY <1>2, <1>4, <1>5, <1>6, <1>7
<1>9. g = h
  BY <1>5, <1>6, <1>8, SeqEqual
<1> QED BY <1>1, <1>3, <1>9

(* The same of the handles written. *)
WrittenSets(ss) == [i \in 1 .. Len(ss) |-> Written(ss[i])]

LEMMA WrittenType == \A ws : Written(ws) \in SUBSET Slot
BY DEF Written

LEMMA WrittenSetsType ==
    ASSUME NEW ss \in Seq(WriteSetRecord)
    PROVE  /\ WrittenSets(ss) \in Seq(SUBSET Slot) /\ Len(WrittenSets(ss)) = Len(ss)
           /\ \A i \in 1 .. Len(ss) : WrittenSets(ss)[i] = Written(ss[i])
<1>1. PICK n \in Nat : n = Len(ss)
  BY LenProperties
<1>2. \A i \in 1 .. n : Written(ss[i]) \in SUBSET Slot
  BY <1>1, ElementOfSeq, WrittenType
<1>3. PICK f : f = WrittenSets(ss)
  OBVIOUS
<1>4. f \in [1 .. n -> SUBSET Slot] /\ \A i \in 1 .. n : f[i] = Written(ss[i])
  BY <1>1, <1>2, <1>3 DEF WrittenSets
<1>5. f \in Seq(SUBSET Slot) /\ Len(f) = n
  BY <1>1, <1>4
<1> QED BY <1>1, <1>3, <1>4, <1>5

LEMMA WrittenOfTip ==
    ASSUME NEW ss \in Seq(WriteSetRecord), NEW n \in 1 .. Len(ss), NEW ws \in WriteSetRecord
    PROVE  WrittenSets([ss EXCEPT ![n] = ws]) = [WrittenSets(ss) EXCEPT ![n] = Written(ws)]
<1>1. PICK ts : ts = [ss EXCEPT ![n] = ws]
  OBVIOUS
<1>2. /\ ts \in Seq(WriteSetRecord) /\ Len(ts) = Len(ss)
      /\ \A j \in 1 .. Len(ss) : ts[j] = IF j = n THEN ws ELSE ss[j]
  BY <1>1, ExceptSeq
<1>3. PICK f, g, h : f = WrittenSets(ss) /\ g = WrittenSets(ts) /\ h = [f EXCEPT ![n] = Written(ws)]
  OBVIOUS
<1>4. f \in Seq(SUBSET Slot) /\ Len(f) = Len(ss) /\ \A i \in 1 .. Len(ss) : f[i] = Written(ss[i])
  BY <1>3, WrittenSetsType
<1>5. g \in Seq(SUBSET Slot) /\ Len(g) = Len(ss) /\ \A i \in 1 .. Len(ss) : g[i] = Written(ts[i])
  BY <1>2, <1>3, WrittenSetsType
<1>6. Written(ws) \in SUBSET Slot /\ n \in 1 .. Len(f)
  BY <1>4, WrittenType
<1>7. h \in Seq(SUBSET Slot) /\ Len(h) = Len(f) /\ \A i \in 1 .. Len(f) : h[i] = IF i = n THEN Written(ws) ELSE f[i]
  BY <1>3, <1>4, <1>6, ExceptSeq
<1>8. \A i \in 1 .. Len(ss) : g[i] = h[i]
  BY <1>2, <1>4, <1>5, <1>7
<1>9. g = h
  BY <1>4, <1>5, <1>7, <1>8, SeqEqual
<1> QED BY <1>1, <1>3, <1>9

LEMMA WrittenOfAppend ==
    ASSUME NEW ss \in Seq(WriteSetRecord), NEW ws \in WriteSetRecord
    PROVE  WrittenSets(Append(ss, ws)) = Append(WrittenSets(ss), Written(ws))
<1>1. PICK ts : ts = Append(ss, ws)
  OBVIOUS
<1>2. PICK n \in Nat : n = Len(ss)
  BY LenProperties
<1>3. /\ ts \in Seq(WriteSetRecord) /\ Len(ts) = n + 1 /\ ts[n + 1] = ws
      /\ \A j \in 1 .. n : ts[j] = ss[j]
  BY <1>1, <1>2, AppendProperties
<1>4. PICK f, g, h : f = WrittenSets(ss) /\ g = WrittenSets(ts) /\ h = Append(f, Written(ws))
  OBVIOUS
<1>5. f \in Seq(SUBSET Slot) /\ Len(f) = n /\ \A i \in 1 .. n : f[i] = Written(ss[i])
  BY <1>2, <1>4, WrittenSetsType
<1>6. g \in Seq(SUBSET Slot) /\ Len(g) = n + 1 /\ \A i \in 1 .. n + 1 : g[i] = Written(ts[i])
  BY <1>3, <1>4, WrittenSetsType
<1>7. PICK m \in SUBSET Slot : m = Written(ws)
  BY WrittenType
<1>8. h \in Seq(SUBSET Slot) /\ Len(h) = n + 1 /\ h[n + 1] = m /\ \A i \in 1 .. n : h[i] = f[i]
  BY <1>4, <1>5, <1>7, AppendProperties
<1>9. \A i \in 1 .. n + 1 : i \in 1 .. n \/ i = n + 1
  BY <1>2
<1>10. \A i \in 1 .. n + 1 : g[i] = h[i]
  BY <1>3, <1>5, <1>6, <1>7, <1>8, <1>9
<1>11. g = h
  BY <1>6, <1>8, <1>10, SeqEqual
<1> QED BY <1>1, <1>4, <1>11

LEMMA WrittenOfPrefix ==
    ASSUME NEW ss \in Seq(WriteSetRecord), NEW k \in 0 .. Len(ss)
    PROVE  WrittenSets(SubSeq(ss, 1, k)) = SubSeq(WrittenSets(ss), 1, k)
<1>1. PICK ts : ts = SubSeq(ss, 1, k)
  OBVIOUS
<1>2. ts \in Seq(WriteSetRecord) /\ Len(ts) = k /\ \A j \in 1 .. k : ts[j] = ss[j]
  BY <1>1, Prefixes
<1>3. PICK f, g, h : f = WrittenSets(ss) /\ g = WrittenSets(ts) /\ h = SubSeq(f, 1, k)
  OBVIOUS
<1>4. f \in Seq(SUBSET Slot) /\ Len(f) = Len(ss) /\ \A i \in 1 .. Len(ss) : f[i] = Written(ss[i])
  BY <1>3, WrittenSetsType
<1>5. g \in Seq(SUBSET Slot) /\ Len(g) = k /\ \A i \in 1 .. k : g[i] = Written(ts[i])
  BY <1>2, <1>3, WrittenSetsType
<1>6. h \in Seq(SUBSET Slot) /\ Len(h) = k /\ \A i \in 1 .. k : h[i] = f[i]
  BY <1>3, <1>4, Prefixes
<1>7. \A i \in 1 .. k : i \in 1 .. Len(ss)
  BY LenProperties
<1>8. \A i \in 1 .. k : g[i] = h[i]
  BY <1>2, <1>4, <1>5, <1>6, <1>7
<1>9. g = h
  BY <1>5, <1>6, <1>8, SeqEqual
<1> QED BY <1>1, <1>3, <1>9

(* A write to one id is one to the deep copy. *)
LEMMA FlatPut ==
    ASSUME NEW ws \in WriteSetRecord, NEW id \in Id, NEW e \in Entry \cup {Absent},
           NEW f, f = IF Logical(Put(ws, id, e), id) # Absent /\ id \in Slot
                         /\ HasKind(Logical(Put(ws, id, e), id), "Delete")
                      THEN Absent ELSE Logical(Put(ws, id, e), id)
    PROVE  FlatMap(Put(ws, id, e)) = [FlatMap(ws) EXCEPT ![id] = f]
<1>1. PICK new : new = Put(ws, id, e)
  OBVIOUS
<1>2. new \in WriteSetRecord /\ new.base = ws.base /\ \A x \in Id \ {id} : new.own[x] = ws.own[x]
  BY <1>1, PutLayers
<1>3. \A x \in Id \ {id} : Logical(new, x) = Logical(ws, x)
  BY <1>2 DEF Logical
<1>4. PICK a \in Map, b \in Map : a = FlatMap(ws) /\ b = FlatMap(new)
  BY <1>2, FlatMapType
<1>5. \A x \in Id \ {id} : b[x] = a[x]
  BY <1>2, <1>3, <1>4, FlatMapType
<1>6. b[id] = f
  BY <1>1, <1>2, <1>4, FlatMapType DEF HasKind
<1>7. b = [a EXCEPT ![id] = f]
  BY <1>5, <1>6 DEF Map
<1> QED BY <1>1, <1>4, <1>7

(* What a branch inherits is what its parent shows. *)
LEMMA FoldedShows ==
    ASSUME NEW p, NEW c, SetOK(p, c), NEW id \in Id
    PROVE  Folded(p)[id] = FlatMap(p)[id] /\ (id \in Slot => ~HasKind(Folded(p)[id], "Delete"))
<1>1. p \in WriteSetRecord
  BY DEF SetOK
<1>2. PICK l, k : l = Logical(p, id) /\ k = Folded(p)[id]
  OBVIOUS
<1>3. l \in Entry \cup {Absent}
  BY <1>1, <1>2, Layers
<1>4. FlatMap(p)[id] = IF id \in Slot /\ HasKind(l, "Delete") THEN Absent ELSE l
  BY <1>1, <1>2, FlatMapType
<1>5. CASE id \in RealId
  <2>1. k = l /\ id \notin Slot
    BY <1>2, <1>5, FoldedMap, Ids
  <2> QED BY <1>2, <1>4, <2>1
<1>6. CASE id \in Slot
  <2>1. /\ k = Absent \/ (HasKind(k, "Insert") /\ k = l)
        /\ k = Absent <=> l = Absent \/ HasKind(l, "Delete")
    BY <1>2, <1>6, FoldedMap
  <2>2. ~HasKind(Absent, "Delete")
    BY DEF HasKind
  <2>3. HasKind(l, "Insert") => ~HasKind(l, "Delete")
    BY <1>3, Kinds
  <2>4. CASE k = Absent
    BY <1>2, <1>4, <1>6, <2>1, <2>2, <2>4
  <2>5. CASE HasKind(k, "Insert") /\ k = l
    BY <1>2, <1>4, <2>3, <2>5
  <2> QED BY <2>1, <2>4, <2>5
<1> QED BY <1>5, <1>6, Ids

(* A new branch shows what its parent shows. *)
LEMMA FlatBranches ==
    ASSUME NEW p, NEW c, SetOK(p, c), NEW ws \in WriteSetRecord, ws.base = Folded(p),
           NEW id \in Id, ws.own[id] = Absent
    PROVE  FlatMap(ws)[id] = FlatMap(p)[id]
<1>1. Folded(p) # Absent
  BY FoldedMap
<1>2. Logical(ws, id) = Folded(p)[id]
  BY <1>1 DEF Logical
<1>3. FlatMap(ws)[id] = Logical(ws, id)
  BY <1>2, FlatMapType, FoldedShows
<1> QED BY <1>2, <1>3, FoldedShows

(* The entry under a transaction's own one. *)
Below(ws, id) == IF ws.base = Absent THEN Absent ELSE ws.base[id]

UndoneBy(p, ws) == {id \in Written(p) \cap Written(ws) : FlatMap(ws)[id] = Absent}

(* What is absorbed shows what the branch showed, but for the inserts of   *)
(* the parent that the branch deleted.                                     *)
LEMMA FlatAbsorbs ==
    ASSUME NEW p, NEW pc, NEW ws, NEW c, SetOK(p, pc), SetOK(ws, c), Under(p, pc, ws, c)
    PROVE  /\ FlatMap(AbsorbInto(p, ws)) =
                 [id \in Id |-> IF id \in UndoneBy(p, ws) THEN Below(p, id) ELSE FlatMap(ws)[id]]
           /\ Written(AbsorbInto(p, ws)) = (Written(p) \cup Written(ws)) \ UndoneBy(p, ws)
<1>1. PICK new : new = AbsorbInto(p, ws)
  OBVIOUS
<1>2. /\ new \in WriteSetRecord /\ new.base = p.base
      /\ \A id \in Id : new.own[id] = FoldEntry(p, ws.own[id], id)
      /\ p \in WriteSetRecord /\ ws \in WriteSetRecord /\ ws.base = Folded(p) /\ Folded(p) # Absent
  <2>1. p \in WriteSetRecord /\ ws \in WriteSetRecord /\ ws.base = Folded(p)
    BY DEF SetOK, Under
  <2>2. Folded(p) # Absent
    BY FoldedMap
  <2> QED BY <1>1, <2>1, <2>2, AbsorbLayers
<1>3. ASSUME NEW id \in Id
      PROVE  /\ FlatMap(new)[id] = IF id \in UndoneBy(p, ws) THEN Below(p, id) ELSE FlatMap(ws)[id]
             /\ id \in Slot => (new.own[id] # Absent <=> /\ p.own[id] # Absent \/ ws.own[id] # Absent
                                                        /\ id \notin UndoneBy(p, ws))
  <2>1. /\ ws.own[id] \in Entry \cup {Absent} /\ p.own[id] \in Entry \cup {Absent}
        /\ new.own[id] = FoldEntry(p, ws.own[id], id)
    BY <1>2, Layers
  <2>2. /\ FlatMap(new)[id] = IF id \in Slot /\ HasKind(Logical(new, id), "Delete") THEN Absent ELSE Logical(new, id)
        /\ FlatMap(ws)[id] = IF id \in Slot /\ HasKind(Logical(ws, id), "Delete") THEN Absent ELSE Logical(ws, id)
    BY <1>2, FlatMapType
  <2>3. id \in UndoneBy(p, ws) <=> /\ id \in Slot /\ p.own[id] # Absent /\ ws.own[id] # Absent
                                   /\ FlatMap(ws)[id] = Absent
    BY DEF UndoneBy, Written
  <2>4. CASE ws.own[id] = Absent
    <3>1. FlatMap(ws)[id] = FlatMap(p)[id]
      BY <1>2, <2>4, FlatBranches
    <3>2. new.own[id] = p.own[id]
      BY <2>1, <2>4 DEF FoldEntry
    <3>3. Logical(new, id) = Logical(p, id)
      BY <1>2, <3>2 DEF Logical
    <3> QED BY <1>2, <2>2, <2>3, <2>4, <3>1, <3>2, <3>3, FlatMapType
  <2>5. CASE ws.own[id] # Absent /\ HasKind(ws.own[id], "Delete") /\ HasKind(Logical(p, id), "Insert")
    <3>1. id \in Slot
      BY <2>5, FoldedMap, Ids
    <3>2. FlatMap(ws)[id] = Absent
      BY <2>2, <2>5, <3>1 DEF Logical
    <3>3. new.own[id] = IF p.own[id] # Absent THEN Absent ELSE ws.own[id]
      BY <2>1, <2>5 DEF FoldEntry
    <3>4. CASE p.own[id] = Absent
      <4>1. Logical(new, id) = ws.own[id] /\ new.own[id] = ws.own[id]
        BY <2>5, <3>3, <3>4 DEF Logical
      <4> QED BY <2>2, <2>3, <2>5, <3>1, <3>2, <3>4, <4>1
    <3>5. CASE p.own[id] # Absent
      <4>1. id \in UndoneBy(p, ws) /\ new.own[id] = Absent
        BY <2>3, <2>5, <3>1, <3>2, <3>3, <3>5
      <4>2. Logical(new, id) = Below(p, id)
        BY <1>2, <4>1 DEF Logical, Below
      <4>3. ~HasKind(Below(p, id), "Delete")
        <5>1. ~HasKind(Absent, "Delete")
          BY DEF HasKind
        <5>2. p.base # Absent => p.base[id] = Absent \/ HasKind(p.base[id], "Insert")
          BY <3>1 DEF SetOK
        <5>3. p.base # Absent => p.base[id] \in Entry \cup {Absent}
          BY <1>2, Layers
        <5> QED BY <5>1, <5>2, <5>3, Kinds DEF Below
      <4> QED BY <2>2, <4>1, <4>2, <4>3
    <3> QED BY <3>4, <3>5
  <2>6. CASE ws.own[id] # Absent /\ ~(HasKind(ws.own[id], "Delete") /\ HasKind(Logical(p, id), "Insert"))
    <3>1. new.own[id] = ws.own[id]
      BY <2>1, <2>6 DEF FoldEntry
    <3>2. Logical(new, id) = ws.own[id] /\ Logical(ws, id) = ws.own[id]
      BY <2>6, <3>1 DEF Logical
    <3>3. id \in Slot => ~HasKind(ws.own[id], "Delete")
      <4>1. ASSUME id \in Slot, HasKind(ws.own[id], "Delete") PROVE FALSE
        <5>1. HasKind(Folded(p)[id], "Insert")
          BY <1>2, <4>1 DEF SetOK
        <5>2. HasKind(Logical(p, id), "Insert")
          BY <4>1, <5>1, FoldedMap
        <5> QED BY <2>6, <4>1, <5>2
      <4> QED BY <4>1
    <3>4. id \notin UndoneBy(p, ws)
      BY <2>2, <2>3, <2>6, <3>2, <3>3
    <3> QED BY <2>2, <2>6, <3>1, <3>2, <3>4
  <2> QED BY <2>4, <2>5, <2>6
<1>4. FlatMap(new) = [id \in Id |-> IF id \in UndoneBy(p, ws) THEN Below(p, id) ELSE FlatMap(ws)[id]]
  <2>1. FlatMap(new) = [id \in Id |-> FlatMap(new)[id]]
    BY <1>2, FlatMapType DEF Map
  <2> QED BY <1>3, <2>1
<1>5. Written(new) = (Written(p) \cup Written(ws)) \ UndoneBy(p, ws)
  <2>1. \A id \in Slot : id \in Id
    BY Ids
  <2>2. \A id \in Slot : new.own[id] # Absent <=> /\ p.own[id] # Absent \/ ws.own[id] # Absent
                                                /\ id \notin UndoneBy(p, ws)
    BY <1>3, <2>1
  <2> QED BY <2>2 DEF Written
<1> QED BY <1>1, <1>4, <1>5

LEMMA FlatStart == WSInit => Flat!FlatInit
<1> SUFFICES ASSUME WSInit PROVE Flat!FlatInit
  OBVIOUS
<1>1. PICK ws : ws = [base |-> Absent, own |-> EmptyMap]
  OBVIOUS
<1>2. sets = <<ws>> /\ counts = <<0>> /\ saved = Absent
  BY <1>1 DEF WSInit
<1>3. \A id \in Id : Logical(ws, id) = Absent
  BY <1>1 DEF Logical, EmptyMap
<1>4. FlatMap(ws) = [id \in Id |-> Absent]
  BY <1>3 DEF FlatMap, HasKind
<1>5. PICK m : m = [i \in 1 .. Len(sets) |-> FlatMap(sets[i])]
  OBVIOUS
<1>6. Len(sets) = 1 /\ sets[1] = ws
  BY <1>2
<1>7. m = [i \in 1 .. 1 |-> FlatMap(sets[i])]
  BY <1>5, <1>6
<1>8. m = <<[id \in Id |-> Absent]>>
  BY <1>4, <1>6, <1>7
<1>9. Flat!Id = Id
  BY DEF Flat!Id, Flat!Slot, Id, Slot
<1>10. PICK v : v = [i \in 1 .. Len(sets) |-> Written(sets[i])]
  OBVIOUS
<1>11. v = <<{}>>
  <2>1. \A slot \in Slot : slot \in Id
    BY Ids
  <2>2. Written(ws) = {}
    BY <1>1, <2>1 DEF Written, EmptyMap
  <2>3. v = [i \in 1 .. 1 |-> Written(sets[i])]
    BY <1>6, <1>10
  <2> QED BY <1>6, <2>2, <2>3
<1> QED BY <1>2, <1>5, <1>8, <1>9, <1>10, <1>11 DEF Flat!FlatInit

LEMMA WrittenPut ==
    ASSUME NEW ws \in WriteSetRecord, NEW id \in Id, NEW e \in Entry \cup {Absent}
    PROVE  /\ id \notin Slot => Written(Put(ws, id, e)) = Written(ws)
           /\ id \in Slot /\ e # Absent => Written(Put(ws, id, e)) = Written(ws) \cup {id}
           /\ e = Absent => Written(Put(ws, id, e)) = Written(ws) \ {id}
<1>1. PICK new : new = Put(ws, id, e)
  OBVIOUS
<1>2. new.own[id] = e /\ \A x \in Id \ {id} : new.own[x] = ws.own[x]
  BY <1>1, PutLayers
<1>3. \A x \in Slot : x \in Id
  BY Ids
<1> QED BY <1>1, <1>2, <1>3 DEF Written

(* A write of the running transaction, in its deep copy. *)
LEMMA FlatWrites ==
    ASSUME ChainInv, NEW id \in Id, NEW e \in Entry \cup {Absent}, PutOwn(id, e), NEW f,
           f = IF Logical(Put(Tip, id, e), id) # Absent /\ id \in Slot
                  /\ HasKind(Logical(Put(Tip, id, e), id), "Delete")
               THEN Absent ELSE Logical(Put(Tip, id, e), id)
    PROVE  /\ FlatMaps(sets)' = [FlatMaps(sets) EXCEPT ![Deepest][id] = f]
           /\ WrittenSets(sets)' = [WrittenSets(sets) EXCEPT ![Deepest] = Written(Put(Tip, id, e))]
           /\ Len(FlatMaps(sets)) = Deepest /\ FlatMaps(sets)[Deepest] = FlatMap(Tip) /\ saved' = saved
           /\ WrittenSets(sets)[Deepest] = Written(Tip)
<1>1. PICK n, t, ws : n = Deepest /\ t = sets[n] /\ ws = Put(t, id, e)
  OBVIOUS
<1>2. sets \in Seq(WriteSetRecord) /\ n \in 1 .. Len(sets) /\ t \in WriteSetRecord /\ Len(sets) = n
  BY <1>1, Chain DEF ChainInv, Deepest
<1>3. ws \in WriteSetRecord
  BY <1>1, <1>2, PutLayers
<1>4. sets' = [sets EXCEPT ![n] = ws] /\ saved' = saved /\ Tip = t
  BY <1>1 DEF PutOwn, Put, Tip
<1>5. FlatMaps([sets EXCEPT ![n] = ws]) = [FlatMaps(sets) EXCEPT ![n] = FlatMap(ws)]
  BY <1>2, <1>3, FlatOfTip
<1>6. FlatMap(ws) = [FlatMap(t) EXCEPT ![id] = f]
  BY <1>1, <1>2, <1>4, FlatPut
<1>7. Len(FlatMaps(sets)) = n /\ FlatMaps(sets)[n] = FlatMap(t)
  BY <1>1, <1>2, FlatMapsType
<1>8. FlatMaps(sets)' = FlatMaps(sets')
  BY DEF FlatMaps
<1>9. PICK F, g : F = FlatMaps(sets) /\ g = FlatMap(t)
  OBVIOUS
<1>10. [F EXCEPT ![n][id] = f] = [F EXCEPT ![n] = [g EXCEPT ![id] = f]]
  BY <1>7, <1>9
<1>11. FlatMaps(sets)' = [F EXCEPT ![n] = [g EXCEPT ![id] = f]]
  BY <1>4, <1>5, <1>6, <1>8, <1>9
<1>12. WrittenSets(sets)' = [WrittenSets(sets) EXCEPT ![n] = Written(ws)] /\ WrittenSets(sets)[n] = Written(t)
  <2>1. WrittenSets([sets EXCEPT ![n] = ws]) = [WrittenSets(sets) EXCEPT ![n] = Written(ws)]
    BY <1>2, <1>3, WrittenOfTip
  <2>2. WrittenSets(sets)' = WrittenSets(sets')
    BY DEF WrittenSets
  <2>3. WrittenSets(sets)[n] = Written(sets[n])
    BY <1>2, WrittenSetsType
  <2> QED BY <1>1, <1>4, <2>1, <2>2, <2>3
<1> QED BY <1>1, <1>4, <1>7, <1>9, <1>10, <1>11, <1>12

(* The last copies, and what lies under the last one. *)
LEMMA FlatTips ==
    ASSUME ChainInv
    PROVE  /\ Len(FlatMaps(sets)) = Deepest /\ Deepest \in Nat \ {0}
           /\ \A id \in Id : Below(Tip, id) = IF Deepest = 1 THEN Absent ELSE FlatMaps(sets)[Deepest - 1][id]
<1>1. PICK n \in Nat \ {0} : n = Deepest /\ n = Len(sets)
  BY Chain DEF ChainInv, Deepest
<1>2. sets \in Seq(WriteSetRecord) /\ GoodChain(sets, counts)
  BY Chain DEF ChainInv
<1>3. PICK F : F = FlatMaps(sets) /\ Len(F) = n /\ \A i \in 1 .. n : F[i] = FlatMap(sets[i])
  BY <1>1, <1>2, FlatMapsType
<1>4. PICK t : t = Tip /\ t = sets[n]
  BY <1>1 DEF Tip
<1>5. CASE n = 1
  <2>1. t.base = Absent
    BY <1>2, <1>4, <1>5 DEF GoodChain
  <2> QED BY <1>1, <1>3, <1>4, <1>5, <2>1 DEF Below
<1>6. CASE n # 1
  <2>1. n \in 2 .. n /\ n - 1 \in 1 .. n
    BY <1>6
  <2>2. PICK p, pc, c : p = sets[n - 1] /\ pc = counts[n - 1] /\ c = counts[n]
    OBVIOUS
  <2>3. SetOK(p, pc) /\ Under(p, pc, t, c)
    BY <1>1, <1>2, <1>4, <2>1, <2>2 DEF GoodChain
  <2>4. t.base = Folded(p) /\ Folded(p) # Absent
    BY <2>3, FoldedMap DEF Under
  <2>5. F[n - 1] = FlatMap(p)
    BY <1>3, <2>1, <2>2
  <2>6. \A id \in Id : Below(t, id) = F[n - 1][id]
    BY <2>3, <2>4, <2>5, FoldedShows DEF Below
  <2> QED BY <1>1, <1>3, <1>4, <1>6, <2>6
<1> QED BY <1>5, <1>6

(* A write that the deep copy makes too. *)
LEMMA FlatPuts ==
    ASSUME ChainInv, NEW id \in Id, NEW e \in Entry \cup {Absent}, PutOwn(id, e), NEW f, NEW w,
           f = IF Logical(Put(Tip, id, e), id) # Absent /\ id \in Slot
                  /\ HasKind(Logical(Put(Tip, id, e), id), "Delete")
               THEN Absent ELSE Logical(Put(Tip, id, e), id),
           w = Written(Put(Tip, id, e))
    PROVE  Flat!Put(id, f, w)
<1>1. PICK m, v, n : m = FlatMaps(sets) /\ v = WrittenSets(sets) /\ n = Deepest
  OBVIOUS
<1>2. /\ FlatMaps(sets)' = [m EXCEPT ![n][id] = f] /\ WrittenSets(sets)' = [v EXCEPT ![n] = w]
      /\ Len(m) = n /\ saved' = saved
  BY <1>1, FlatWrites
<1> QED BY <1>1, <1>2 DEF Flat!Put, Flat!Deepest, FlatMaps, WrittenSets

LEMMA FlatInserts ==
    ASSUME ChainInv, NEW row \in Value, BufferInsert(row)
    PROVE  Flat!FlatInsert(row)
<1>1. PICK h, e : h = counts[Deepest] /\ e = [kind |-> "Insert", row |-> row]
  OBVIOUS
<1>2. h < MaxHandles /\ PutOwn(h, e) /\ counts' = [counts EXCEPT ![Deepest] = h + 1]
  BY <1>1 DEF BufferInsert
<1>3. h \in 0 .. MaxHandles
  BY <1>1, TipFacts
<1>4. h \in Id /\ h \in Slot
  BY <1>2, <1>3, WriteSetAssumption DEF Slot, Id
<1>5. e \in Entry /\ HasKind(e, "Insert") /\ e # Absent
  BY <1>1, NewEntries DEF HasKind
<1>6. ~HasKind(e, "Delete")
  BY <1>5, Kinds
<1>7. Logical(Put(Tip, h, e), h) = e /\ Written(Put(Tip, h, e)) = Written(Tip) \cup {h}
  BY <1>4, <1>5, PutLayers, TipFacts, WrittenPut DEF Logical
<1>8. Flat!Put(h, e, Written(Tip) \cup {h})
  BY <1>2, <1>4, <1>5, <1>6, <1>7, FlatPuts
<1>9. Flat!Deepest = Deepest /\ WrittenSets(sets)[Deepest] = Written(Tip)
  BY <1>2, <1>4, <1>5, FlatTips, FlatWrites DEF Flat!Deepest, FlatMaps
<1> QED BY <1>1, <1>2, <1>8, <1>9 DEF Flat!FlatInsert, WrittenSets

LEMMA FlatUpdates ==
    ASSUME ChainInv, NEW id \in Id, NEW row \in Value, BufferUpdate(id, row)
    PROVE  Flat!FlatUpdate(id, row)
<1>1. PICK old, i, u : /\ old = Logical(Tip, id)
                       /\ i = [kind |-> "Insert", row |-> row] /\ u = [kind |-> "Update", row |-> row]
  OBVIOUS
<1>2. /\ i \in Entry /\ u \in Entry /\ HasKind(i, "Insert") /\ HasKind(u, "Update")
      /\ ~HasKind(i, "Delete") /\ ~HasKind(u, "Delete") /\ i # Absent /\ u # Absent
  BY <1>1, NewEntries, Kinds DEF HasKind
<1>3. Tip \in WriteSetRecord /\ old \in Entry \cup {Absent}
  BY <1>1, TipFacts
<1>4. PICK m, v : m = FlatMaps(sets)[Deepest] /\ v = WrittenSets(sets)[Deepest]
  OBVIOUS
<1>5. /\ m[id] = (IF id \in Slot /\ HasKind(old, "Delete") THEN Absent ELSE old) /\ v = Written(Tip)
      /\ Flat!Deepest = Deepest
  <2>1. m = FlatMap(Tip) /\ v = Written(Tip)
    BY <1>4, Chain, FlatMapsType, WrittenSetsType DEF ChainInv, Deepest, Tip
  <2> QED BY <1>1, <1>3, <2>1, FlatMapType, FlatTips DEF Flat!Deepest, FlatMaps
<1>6. counts' = counts
  BY DEF BufferUpdate
<1>7. ASSUME NEW e \in {i, u}, PutOwn(id, e)
      PROVE  Flat!Put(id, e, IF id \in Slot THEN v \cup {id} ELSE v)
  <2>1. e \in Entry /\ e # Absent /\ ~HasKind(e, "Delete")
    BY <1>2
  <2>2. Logical(Put(Tip, id, e), id) = e
    BY <1>3, <2>1, PutLayers DEF Logical
  <2>3. Written(Put(Tip, id, e)) = IF id \in Slot THEN v \cup {id} ELSE v
    BY <1>3, <1>5, <2>1, WrittenPut
  <2> QED BY <1>7, <2>1, <2>2, <2>3, FlatPuts
<1>8. CASE (old = Absent \/ HasKind(old, "Update")) /\ id \in RealId /\ PutOwn(id, u)
  <2>1. id \notin Slot /\ m[id] = old /\ (old = Absent \/ old.kind = "Update")
    BY <1>5, <1>8, Ids DEF HasKind
  <2>2. Flat!Put(id, u, v)
    BY <1>7, <1>8, <2>1
  <2> QED BY <1>1, <1>4, <1>5, <1>6, <1>8, <2>1, <2>2 DEF Flat!FlatUpdate, FlatMaps, WrittenSets
<1>9. CASE HasKind(old, "Insert") /\ PutOwn(id, i)
  <2>1. id \in Slot
    BY <1>1, <1>9, TipFacts
  <2>2. m[id] = old /\ old # Absent /\ old.kind = "Insert"
    BY <1>3, <1>5, <1>9, Kinds DEF HasKind
  <2>3. Flat!Put(id, i, v \cup {id})
    BY <1>7, <1>9, <2>1
  <2> QED BY <1>1, <1>4, <1>5, <1>6, <2>2, <2>3 DEF Flat!FlatUpdate, FlatMaps, WrittenSets
<1>10. HasKind(old, "Update") => id \in RealId
  BY <1>1, TipFacts
<1> QED BY <1>1, <1>8, <1>9, <1>10 DEF BufferUpdate

LEMMA FlatDeletes ==
    ASSUME ChainInv, NEW id \in Id, BufferDelete(id)
    PROVE  Flat!FlatDelete(id)
<1>1. PICK old, d : old = Logical(Tip, id) /\ d = [kind |-> "Delete", row |-> Absent]
  OBVIOUS
<1>2. d \in Entry /\ HasKind(d, "Delete") /\ d # Absent /\ ~HasKind(Absent, "Delete")
  BY <1>1, Tombstones DEF HasKind
<1>3. Tip \in WriteSetRecord /\ old \in Entry \cup {Absent}
  BY <1>1, TipFacts
<1>4. PICK m, v : m = FlatMaps(sets)[Deepest] /\ v = WrittenSets(sets)[Deepest]
  OBVIOUS
<1>5. /\ m[id] = (IF id \in Slot /\ HasKind(old, "Delete") THEN Absent ELSE old) /\ v = Written(Tip)
      /\ Flat!Deepest = Deepest
  <2>1. m = FlatMap(Tip) /\ v = Written(Tip)
    BY <1>4, Chain, FlatMapsType, WrittenSetsType DEF ChainInv, Deepest, Tip
  <2> QED BY <1>1, <1>3, <2>1, FlatMapType, FlatTips DEF Flat!Deepest, FlatMaps
<1>6. counts' = counts
  BY DEF BufferDelete
<1>7. CASE (old = Absent \/ HasKind(old, "Update")) /\ id \in RealId /\ PutOwn(id, d)
  <2>1. m[id] = old /\ (old = Absent \/ old.kind = "Update") /\ id \notin Slot
    BY <1>5, <1>7, Ids DEF HasKind
  <2>2. Logical(Put(Tip, id, d), id) = d /\ Written(Put(Tip, id, d)) = v
    BY <1>2, <1>3, <1>5, <2>1, PutLayers, WrittenPut DEF Logical
  <2>3. Flat!Put(id, d, v)
    BY <1>2, <1>7, <2>1, <2>2, FlatPuts
  <2> QED BY <1>1, <1>4, <1>5, <1>6, <1>7, <2>1, <2>3 DEF Flat!FlatDelete, FlatMaps, WrittenSets
<1>8. ASSUME HasKind(old, "Insert")
      PROVE  id \in Slot /\ m[id] = old /\ old # Absent /\ old.kind = "Insert"
             /\ (Inherited(id) <=> id \notin v)
  <2>1. id \in Slot
    BY <1>1, <1>8, TipFacts
  <2>2. m[id] = old /\ old # Absent /\ old.kind = "Insert"
    BY <1>3, <1>5, <1>8, Kinds DEF HasKind
  <2> QED BY <1>1, <1>5, <2>1, <2>2 DEF Inherited, Written
<1>9. CASE HasKind(old, "Insert") /\ ~Inherited(id) /\ PutOwn(id, Absent)
  <2>1. PICK b : b = Below(Tip, id)
    OBVIOUS
  <2>2. Logical(Put(Tip, id, Absent), id) = b /\ Written(Put(Tip, id, Absent)) = v \ {id}
    BY <1>3, <1>5, <2>1, PutLayers, WrittenPut DEF Logical, Below
  <2>3. ~HasKind(b, "Delete")
    <3>1. Tip.base # Absent => Tip.base[id] \in Entry \cup {Absent}
      BY <1>3, Layers
    <3>2. Tip.base # Absent => Tip.base[id] = Absent \/ HasKind(Tip.base[id], "Insert")
      BY <1>8, <1>9, TipFacts DEF SetOK
    <3> QED BY <1>2, <2>1, <3>1, <3>2, Kinds DEF Below
  <2>4. Flat!Put(id, b, v \ {id})
    BY <1>9, <2>2, <2>3, FlatPuts
  <2>5. b = Flat!Inherited(Deepest, id)
    BY <2>1, FlatTips DEF Flat!Inherited, FlatMaps
  <2> QED BY <1>1, <1>4, <1>5, <1>6, <1>8, <1>9, <2>4, <2>5 DEF Flat!FlatDelete, FlatMaps, WrittenSets
<1>10. CASE HasKind(old, "Insert") /\ Inherited(id) /\ PutOwn(id, d)
  <2>1. Logical(Put(Tip, id, d), id) = d /\ Written(Put(Tip, id, d)) = v \cup {id}
    BY <1>2, <1>3, <1>5, <1>8, <1>10, PutLayers, WrittenPut DEF Logical
  <2>2. Flat!Put(id, Absent, v \cup {id})
    BY <1>2, <1>8, <1>10, <2>1, FlatPuts
  <2> QED BY <1>1, <1>4, <1>5, <1>6, <1>8, <1>10, <2>2 DEF Flat!FlatDelete, FlatMaps, WrittenSets
<1>11. HasKind(old, "Update") => id \in RealId
  BY <1>1, TipFacts
<1>12. \/ old = Absent /\ id \in RealId /\ PutOwn(id, d)
       \/ HasKind(old, "Insert") /\ ~Inherited(id) /\ PutOwn(id, Absent)
       \/ HasKind(old, "Insert") /\ Inherited(id) /\ PutOwn(id, d)
       \/ HasKind(old, "Update") /\ PutOwn(id, d)
  BY <1>1 DEF BufferDelete
<1> QED BY <1>7, <1>9, <1>10, <1>11, <1>12

LEMMA FlatStep ==
    ASSUME ChainInv, [WSNext]_wvars
    PROVE  [Flat!FlatNext]_(Flat!fvars)
<1>1. PICK n \in Nat \ {0} : n = Deepest /\ n = Len(sets)
  BY Chain DEF ChainInv, Deepest
<1>2. PICK ss, cs : ss = sets /\ cs = counts /\ GoodChain(ss, cs) /\ Len(ss) = n
  BY <1>1 DEF ChainInv
<1>3. PICK t, c : t = ss[n] /\ c = cs[n]
  OBVIOUS
<1>4. /\ ss \in Seq(WriteSetRecord) /\ Len(cs) = n /\ n \in 1 .. n /\ t \in WriteSetRecord /\ SetOK(t, c)
  BY <1>1, <1>2, <1>3, Chain DEF GoodTip
<1>5. PICK m, m2 : m = FlatMaps(sets) /\ m2 = FlatMaps(sets)'
  OBVIOUS
<1>6. m = FlatMaps(ss) /\ m2 = FlatMaps(sets') /\ Len(m) = n /\ m[n] = FlatMap(t)
  <2>1. m = FlatMaps(ss) /\ m2 = FlatMaps(sets')
    BY <1>2, <1>5 DEF FlatMaps
  <2> QED BY <1>2, <1>3, <1>4, <2>1, FlatMapsType
<1>20. PICK v, v2 : v = WrittenSets(sets) /\ v2 = WrittenSets(sets)'
  OBVIOUS
<1>21. v = WrittenSets(ss) /\ v2 = WrittenSets(sets') /\ Len(v) = n /\ v[n] = Written(t)
  <2>1. v = WrittenSets(ss) /\ v2 = WrittenSets(sets')
    BY <1>2, <1>20 DEF WrittenSets
  <2> QED BY <1>2, <1>3, <1>4, <2>1, WrittenSetsType
<1>7. Tip = t /\ counts[Deepest] = c
  BY <1>1, <1>2, <1>3 DEF Tip
<1>8. CASE Branch
  <2>1. PICK ws : ws = [base |-> Folded(t), own |-> EmptyMap]
    OBVIOUS
  <2>2. n < MaxDepth /\ saved = Absent /\ saved' = saved /\ sets' = Append(ss, ws) /\ counts' = Append(counts, counts[n])
    BY <1>1, <1>2, <1>7, <1>8, <2>1 DEF Branch
  <2>3. EmptyMap \in Map /\ \A id \in Id : EmptyMap[id] = Absent
    BY DEF EmptyMap, Map
  <2>4. ws \in WriteSetRecord /\ ws.base = Folded(t) /\ \A id \in Id : ws.own[id] = Absent
    BY <1>4, <2>1, <2>3, FoldedMap DEF WriteSetRecord
  <2>5. FlatMap(ws) = FlatMap(t)
    BY <1>4, <2>4, FlatBranches, SameFlatMap
  <2>6. m2 = Append(m, m[n])
    BY <1>4, <1>6, <2>2, <2>4, <2>5, FlatOfAppend
  <2>7. v2 = Append(v, {})
    <3>1. \A slot \in Slot : slot \in Id
      BY Ids
    <3>2. Written(ws) = {}
      BY <2>4, <3>1 DEF Written
    <3> QED BY <1>4, <1>21, <2>2, <2>4, <3>2, WrittenOfAppend
  <2>8. Flat!FlatBranch
    BY <1>5, <1>6, <1>20, <2>2, <2>6, <2>7 DEF Flat!FlatBranch, Flat!Deepest, FlatMaps, WrittenSets
  <2> QED BY <2>8 DEF Flat!FlatNext
<1>9. CASE Absorb
  <2>1. PICK p, pc, ws : p = ss[n - 1] /\ pc = cs[n - 1] /\ ws = AbsorbInto(p, t)
    OBVIOUS
  <2>2. n > 1 /\ saved = Absent /\ saved' = saved /\ sets' = Append(SubSeq(ss, 1, n - 2), ws)
    BY <1>1, <1>2, <1>7, <1>9, <2>1 DEF Absorb
  <2>3. n \in 2 .. n /\ n - 1 \in 1 .. n /\ n - 2 \in 0 .. n
    BY <1>1, <2>2
  <2>4. SetOK(p, pc) /\ Under(p, pc, t, c)
    BY <1>2, <1>3, <2>1, <2>3 DEF GoodChain
  <2>5. pc <= c /\ pc \in Nat /\ c \in Nat
    BY <1>4, <2>4 DEF Under, SetOK
  <2>6. counts' = Append(SubSeq(counts, 1, n - 2), counts[n])
    <3>1. (IF c > pc THEN c ELSE pc) = c
      BY <2>5
    <3> QED BY <1>1, <1>2, <1>3, <1>9, <2>1, <3>1 DEF Absorb
  <2>7. ws \in WriteSetRecord
    BY <1>4, <2>1, <2>4, AbsorbLayers
  <2>8. PICK q \in Nat : q = n - 1 /\ q \in 1 .. n
    BY <2>3
  <2>9. PICK undone : undone = {id \in v[q] \cap v[n] : m[n][id] = Absent}
    OBVIOUS
  <2>10. v[q] = Written(p) /\ undone = UndoneBy(p, t) /\ v[q] \in SUBSET Slot /\ v[n] \in SUBSET Slot
    <3>1. v[q] = Written(p)
      BY <1>2, <1>4, <1>21, <2>1, <2>8, WrittenSetsType
    <3> QED BY <1>6, <1>21, <2>9, <3>1, WrittenType DEF UndoneBy
  <2>11. \A id \in Id : Below(p, id) = IF q = 1 THEN Absent ELSE m[q - 1][id]
    <3>1. CASE q = 1
      BY <1>2, <2>1, <2>8, <3>1 DEF GoodChain, Below
    <3>2. CASE q # 1
      <4>1. q \in 2 .. n /\ q - 1 \in 1 .. n
        BY <2>8, <3>2
      <4>2. PICK g, gc : g = ss[q - 1] /\ gc = cs[q - 1]
        OBVIOUS
      <4>3. SetOK(g, gc) /\ Under(g, gc, p, pc)
        BY <1>2, <2>1, <2>8, <4>1, <4>2 DEF GoodChain
      <4>4. p.base = Folded(g) /\ Folded(g) # Absent
        BY <4>3, FoldedMap DEF Under
      <4>5. m[q - 1] = FlatMap(g)
        BY <1>2, <1>4, <1>6, <4>1, <4>2, FlatMapsType
      <4> QED BY <3>2, <4>3, <4>4, <4>5, FoldedShows DEF Below
    <3> QED BY <3>1, <3>2
  <2>12. PICK f : f = [id \in Id |-> IF id \in undone THEN (IF q = 1 THEN Absent ELSE m[q - 1][id]) ELSE m[n][id]]
    OBVIOUS
  <2>13. FlatMap(ws) = f /\ Written(ws) = (v[q] \cup v[n]) \ undone
    <3>1. /\ FlatMap(ws) = [id \in Id |-> IF id \in UndoneBy(p, t) THEN Below(p, id) ELSE FlatMap(t)[id]]
          /\ Written(ws) = (Written(p) \cup Written(t)) \ UndoneBy(p, t)
      BY <1>4, <2>1, <2>4, FlatAbsorbs
    <3> QED BY <1>6, <1>21, <2>10, <2>11, <2>12, <3>1
  <2>14. PICK k \in 0 .. n : k = n - 2
    BY <2>3
  <2>15. PICK a : a = SubSeq(ss, 1, k)
    OBVIOUS
  <2>16. a \in Seq(WriteSetRecord) /\ FlatMaps(a) = SubSeq(m, 1, k) /\ WrittenSets(a) = SubSeq(v, 1, k)
    BY <1>2, <1>4, <1>6, <1>21, <2>15, Prefixes, FlatOfPrefix, WrittenOfPrefix
  <2>17. sets' = Append(a, ws)
    BY <2>2, <2>14, <2>15
  <2>18. m2 = Append(SubSeq(m, 1, n - 2), f)
    <3>1. m2 = Append(FlatMaps(a), FlatMap(ws))
      BY <1>6, <2>7, <2>16, <2>17, FlatOfAppend
    <3> QED BY <2>13, <2>14, <2>16, <3>1
  <2>19. v2 = Append(SubSeq(v, 1, n - 2), (v[q] \cup v[n]) \ undone)
    <3>1. v2 = Append(WrittenSets(a), Written(ws))
      BY <1>21, <2>7, <2>16, <2>17, WrittenOfAppend
    <3> QED BY <2>13, <2>14, <2>16, <3>1
  <2>20. Flat!Deepest = n /\ Flat!Id = Id
    BY <1>5, <1>6 DEF Flat!Deepest, FlatMaps, Flat!Id, Flat!Slot, Id, Slot
  <2>21. Flat!Undone = undone
    BY <1>5, <1>20, <2>8, <2>9, <2>20 DEF Flat!Undone, FlatMaps, WrittenSets
  <2>22. \A id : Flat!Inherited(n - 1, id) = IF q = 1 THEN Absent ELSE m[q - 1][id]
    BY <1>5, <2>8 DEF Flat!Inherited, FlatMaps
  <2>23. f = Flat!Absorbed
    <3>1. m = [i \in 1 .. Len(sets) |-> FlatMap(sets[i])]
      BY <1>5 DEF FlatMaps
    <3>2. PICK A, I : A = Flat!Absorbed /\ I = Flat!Id
      OBVIOUS
    <3>3. A = [id \in I |-> A[id]]
      BY ONLY <3>2 DEF Flat!Absorbed
    <3>4. ASSUME NEW id \in I
          PROVE  A[id] = IF id \in Flat!Undone THEN Flat!Inherited(Flat!Deepest - 1, id) ELSE m[Flat!Deepest][id]
      BY ONLY <3>1, <3>2, id \in I DEF Flat!Absorbed
    <3>5. I = Id /\ \A id \in Id : A[id] = f[id]
      BY <2>12, <2>20, <2>21, <2>22, <3>2, <3>4
    <3>6. f = [id \in Id |-> f[id]]
      BY <2>12
    <3> QED BY ONLY <3>2, <3>3, <3>5, <3>6
  <2>24. v2 = Append(SubSeq(v, 1, n - 2), (v[n - 1] \cup v[n]) \ Flat!Undone)
    BY <2>8, <2>19, <2>21
  <2>25. m2 = Append(SubSeq(m, 1, n - 2), Flat!Absorbed)
    BY <2>18, <2>23
  <2>26. Flat!FlatAbsorb
    BY <1>5, <1>20, <2>2, <2>6, <2>20, <2>24, <2>25 DEF Flat!FlatAbsorb, FlatMaps, WrittenSets
  <2> QED BY <2>26 DEF Flat!FlatNext
<1>10. CASE Discard
  <2>1. /\ n > 1 /\ saved = Absent /\ saved' = saved /\ sets' = SubSeq(ss, 1, n - 1)
        /\ counts' = SubSeq(counts, 1, n - 1)
    BY <1>1, <1>2, <1>10 DEF Discard
  <2>2. PICK k \in 0 .. n : k = n - 1
    BY <1>1
  <2>3. m2 = SubSeq(m, 1, n - 1)
    BY <1>2, <1>4, <1>6, <2>1, <2>2, FlatOfPrefix
  <2>4. v2 = SubSeq(v, 1, n - 1)
    BY <1>2, <1>4, <1>21, <2>1, <2>2, WrittenOfPrefix
  <2>5. Flat!FlatDiscard
    BY <1>5, <1>6, <1>20, <2>1, <2>3, <2>4 DEF Flat!FlatDiscard, Flat!Deepest, FlatMaps, WrittenSets
  <2> QED BY <2>5 DEF Flat!FlatNext
<1>11. ASSUME saved # Absent
       PROVE  /\ saved.writes \in WriteSetRecord /\ <<FlatMap(saved.writes), Written(saved.writes), saved.provisional>> # Absent
              /\ saved \in [writes : WriteSetRecord, provisional : 0 .. MaxHandles]
  <2>1. saved \in [writes : WriteSetRecord, provisional : 0 .. MaxHandles]
    BY <1>11 DEF ChainInv, GoodSave
  <2>2. saved.writes \in WriteSetRecord /\ saved.provisional \in 0 .. MaxHandles
    BY <2>1
  <2>3. <<FlatMap(saved.writes), Written(saved.writes), saved.provisional>> \in Map \X (SUBSET Slot) \X (0 .. MaxHandles)
    BY <2>2, FlatMapType, WrittenType
  <2> QED BY <2>1, <2>2, <2>3, WriteSetAssumption
<1>12. CASE Snapshot
  <2>1. saved = Absent /\ saved' = [writes |-> t, provisional |-> c] /\ sets' = sets /\ counts' = counts
    BY <1>7, <1>12 DEF Snapshot
  <2>2. saved' # Absent
    <3>1. [writes |-> t, provisional |-> c] \in [writes : WriteSetRecord, provisional : 0 .. MaxHandles]
      BY <1>4 DEF SetOK
    <3> QED BY <2>1, <3>1, WriteSetAssumption
  <2>3. saved'.writes = t /\ saved'.provisional = c
    BY <2>1
  <2>4. m2 = m /\ v2 = v
    BY <1>2, <1>6, <1>21, <2>1
  <2>5. Flat!FlatSnapshot
    BY <1>1, <1>5, <1>6, <1>7, <1>20, <1>21, <2>1, <2>2, <2>3, <2>4
       DEF Flat!FlatSnapshot, Flat!Deepest, FlatMaps, WrittenSets
  <2> QED BY <2>5 DEF Flat!FlatNext
<1>13. CASE Keep
  <2>1. saved # Absent /\ saved' = Absent /\ sets' = sets /\ counts' = counts /\ m2 = m /\ v2 = v
    BY <1>2, <1>6, <1>13, <1>21 DEF Keep
  <2>2. Flat!FlatKeep
    BY <1>5, <1>11, <1>20, <2>1 DEF Flat!FlatKeep, FlatMaps, WrittenSets
  <2> QED BY <2>2 DEF Flat!FlatNext
<1>14. CASE Rollback
  <2>1. PICK w, k : w = saved.writes /\ k = saved.provisional
    OBVIOUS
  <2>2. /\ saved # Absent /\ saved' = Absent /\ sets' = [ss EXCEPT ![n] = w] /\ counts' = [counts EXCEPT ![n] = k]
        /\ w \in WriteSetRecord
    BY <1>1, <1>2, <1>11, <1>14, <2>1 DEF Rollback
  <2>3. m2 = [m EXCEPT ![n] = FlatMap(w)]
    <3>1. n \in 1 .. Len(ss)
      BY <1>2, <1>4
    <3>2. FlatMaps([ss EXCEPT ![n] = w]) = [FlatMaps(ss) EXCEPT ![n] = FlatMap(w)]
      BY <1>4, <2>2, <3>1, FlatOfTip
    <3> QED BY <1>6, <2>2, <3>2
  <2>9. v2 = [v EXCEPT ![n] = Written(w)]
    <3>1. n \in 1 .. Len(ss)
      BY <1>2, <1>4
    <3>2. WrittenSets([ss EXCEPT ![n] = w]) = [WrittenSets(ss) EXCEPT ![n] = Written(w)]
      BY <1>4, <2>2, <3>1, WrittenOfTip
    <3> QED BY <1>21, <2>2, <3>2
  <2>4. PICK q : q = <<FlatMap(w), Written(w), k>>
    OBVIOUS
  <2>5. (IF saved = Absent THEN Absent ELSE <<FlatMap(saved.writes), Written(saved.writes), saved.provisional>>) = q
    BY <2>1, <2>2, <2>4
  <2>6. q[1] = FlatMap(w) /\ q[2] = Written(w) /\ q[3] = k
    BY <2>4
  <2>7. q # Absent
    BY <1>11, <2>1, <2>2, <2>4
  <2>8. Flat!FlatRollback
    BY <1>5, <1>6, <1>20, <2>2, <2>3, <2>5, <2>6, <2>7, <2>9
       DEF Flat!FlatRollback, Flat!Deepest, FlatMaps, WrittenSets
  <2> QED BY <2>8 DEF Flat!FlatNext
<1>15. Flat!Id = Id
  BY DEF Flat!Id, Flat!Slot, Id, Slot
<1>16. CASE \E row \in Value : BufferInsert(row)
  BY <1>16, FlatInserts DEF Flat!FlatNext
<1>17. CASE \E id \in Id, row \in Value : BufferUpdate(id, row)
  BY <1>15, <1>17, FlatUpdates DEF Flat!FlatNext
<1>18. CASE \E id \in Id : BufferDelete(id)
  BY <1>15, <1>18, FlatDeletes DEF Flat!FlatNext
<1>19. CASE UNCHANGED wvars
  BY <1>19 DEF wvars, Flat!fvars
<1> QED BY <1>8, <1>9, <1>10, <1>12, <1>13, <1>14, <1>16, <1>17, <1>18, <1>19 DEF WSNext

(* branch_of, absorb, snapshot and rollback: the two shared layers behave, *)
(* step by step and to any depth, as the deep copies they replaced, but    *)
(* for the one case FlatWriteSet spells out: deleting an insert that was   *)
(* inherited and rewritten brings back what was inherited.                 *)
THEOREM LayersAreDeepCopies == WSSpec => BehavesAsDeepCopy
<1>1. ChainInv /\ [WSNext]_wvars => [Flat!FlatNext]_(Flat!fvars)
  BY FlatStep
<1> QED BY <1>1, ChainInit, ChainStep, FlatStart, PTL DEF WSSpec, BehavesAsDeepCopy, Flat!FlatSpec

=============================================================================
