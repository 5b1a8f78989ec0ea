-------------------------------- MODULE Table --------------------------------
(***************************************************************************)
(* One authoritative table of Nexum: the row map, row versions, mutation   *)
(* epoch and change buffer of StorageTable (crates/nexum-storage), and the *)
(* derived indexes that Table (crates/nexum-table) keeps beside them.      *)
(*                                                                         *)
(* A table is a record; its operations are operators from the old record   *)
(* to the new one, each with a guard that is FALSE exactly when the code   *)
(* returns Err.  A row is abstracted to its unique key k (the primary key; *)
(* unique secondary indexes are treated alike by the code) and a payload z *)
(* that is the key of one non-unique secondary index.                      *)
(***************************************************************************)
EXTENDS Integers, Sequences

CONSTANTS
    Key,               \* values of the unique (primary) key column
    Zone,              \* values of the non-unique indexed column
    None,              \* Rust's Option::None
    ProvisionalFlag    \* the high bit of a RowId (2^63 in the code)

ASSUME FlagAssumption == ProvisionalFlag \in Nat \ {0}

\* Real row ids never carry the high bit.
RowId == 0 .. ProvisionalFlag - 1

Row == [k : Key, z : Zone]
StoredRow == [row : Row, version : Nat]

\* None is not a value of any of the types it is an option of.
ASSUME NoneAssumption ==
    /\ None \notin Int
    /\ None \notin Row
    /\ None \notin StoredRow

Change ==
    [kind : {"Insert", "Update", "Delete"}, id : RowId,
     old : StoredRow \cup {None}, new : StoredRow \cup {None}]

TableRecord ==
    [rows      : [RowId -> StoredRow \cup {None}],
     next      : 0 .. ProvisionalFlag,
     epoch     : Nat,
     primary   : [Key -> RowId \cup {None}],
     secondary : [Zone -> SUBSET RowId],
     changes   : Seq(Change)]

EmptyTable ==
    [rows      |-> [id \in RowId |-> None],
     next      |-> 0,
     epoch     |-> 0,
     primary   |-> [k \in Key |-> None],
     secondary |-> [z \in Zone |-> {}],
     changes   |-> <<>>]

-----------------------------------------------------------------------------
(* Reads.                                                                  *)

Contains(tb, id) == id \in RowId /\ tb.rows[id] # None

\* Mutant: a sentinel version for an absent row.
VersionOfSentinel(tb, id) ==
    IF Contains(tb, id) THEN tb.rows[id].version ELSE -1

VersionOf(tb, id) ==
    IF Contains(tb, id) THEN tb.rows[id].version ELSE None

-----------------------------------------------------------------------------
(* Mutations.  Every check precedes every mutation, so a refused operation *)
(* is a stutter; an accepted one changes rows, epoch, change buffer and    *)
(* both indexes together.                                                  *)

CanInsert(tb, row) == tb.primary[row.k] = None

\* check_update: a row may keep, or re-take, a key it already owns.
CanUpdate(tb, id, row) ==
    /\ Contains(tb, id)
    /\ tb.primary[row.k] \in {None, id}

CanDelete(tb, id) == Contains(tb, id)

InsertRow(tb, row) ==
    LET id     == tb.next
        stored == [row |-> row, version |-> 0]
    IN  [rows      |-> [tb.rows EXCEPT ![id] = stored],
         next      |-> tb.next + 1,
         epoch     |-> tb.epoch + 1,
         primary   |-> [tb.primary EXCEPT ![row.k] = id],
         secondary |-> [tb.secondary EXCEPT ![row.z] = @ \cup {id}],
         changes   |-> Append(tb.changes,
                         [kind |-> "Insert", id |-> id,
                          old |-> None, new |-> stored])]

\* The entry moves only when its key changes, removal first.
MovePrimary(index, id, old, new) ==
    [k \in Key |-> IF old.k = new.k THEN index[k]
                   ELSE IF k = new.k THEN id
                   ELSE IF k = old.k THEN None ELSE index[k]]

\* Mutant: the entry under the old key is left behind.
MoveSecondaryLeavesOld(index, id, old, new) ==
    [z \in Zone |-> IF z = new.z THEN index[z] \cup {id} ELSE index[z]]

MoveSecondary(index, id, old, new) ==
    [z \in Zone |-> IF old.z = new.z THEN index[z]
                    ELSE IF z = new.z THEN index[z] \cup {id}
                    ELSE IF z = old.z THEN index[z] \ {id} ELSE index[z]]

\* Mutant: the version is not bumped.
UpdateRowKeepsVersion(tb, id, row) ==
    [tb EXCEPT !.rows[id].row = row,
               !.epoch = @ + 1,
               !.primary = MovePrimary(@, id, tb.rows[id].row, row),
               !.secondary = MoveSecondary(@, id, tb.rows[id].row, row)]

\* A row identical to the stored one is a no-op: no version, no epoch, no
\* change record.
UpdateRow(tb, id, row) ==
    LET old    == tb.rows[id]
        stored == [row |-> row, version |-> old.version + 1]
    IN  IF old.row = row
        THEN tb
        ELSE [rows      |-> [tb.rows EXCEPT ![id] = stored],
              next      |-> tb.next,
              epoch     |-> tb.epoch + 1,
              primary   |-> MovePrimary(tb.primary, id, old.row, row),
              secondary |-> MoveSecondary(tb.secondary, id, old.row, row),
              changes   |-> Append(tb.changes,
                              [kind |-> "Update", id |-> id,
                               old |-> old, new |-> stored])]

DeleteRow(tb, id) ==
    LET old == tb.rows[id]
    IN  [rows      |-> [tb.rows EXCEPT ![id] = None],
         next      |-> tb.next,
         epoch     |-> tb.epoch + 1,
         primary   |-> [tb.primary EXCEPT ![old.row.k] = None],
         secondary |-> [tb.secondary EXCEPT ![old.row.z] = @ \ {id}],
         changes   |-> Append(tb.changes,
                         [kind |-> "Delete", id |-> id,
                          old |-> old, new |-> None])]

DrainChanges(tb) ==
    [rows |-> tb.rows, next |-> tb.next, epoch |-> tb.epoch,
     primary |-> tb.primary, secondary |-> tb.secondary, changes |-> <<>>]

-----------------------------------------------------------------------------
(* What the indexes promise: they are derived, never authoritative.        *)

\* The primary index holds exactly the keys of the stored rows, so it can
\* hold one owner per key only because stored keys are distinct.
PrimaryAgrees(tb) ==
    \A k \in Key, id \in RowId :
        tb.primary[k] = id <=> (tb.rows[id] # None /\ tb.rows[id].row.k = k)

SecondaryAgrees(tb) ==
    \A z \in Zone, id \in RowId :
        id \in tb.secondary[z]
            <=> (tb.rows[id] # None /\ tb.rows[id].row.z = z)

\* Ids at or above the counter have never been handed out.
FreshIdsUnused(tb) == \A id \in RowId : id >= tb.next => tb.rows[id] = None

WellFormed(tb) ==
    /\ tb \in TableRecord
    /\ PrimaryAgrees(tb)
    /\ SecondaryAgrees(tb)
    /\ FreshIdsUnused(tb)
=============================================================================
