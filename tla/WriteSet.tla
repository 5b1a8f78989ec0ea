------------------------------ MODULE WriteSet ------------------------------
(***************************************************************************)
(* The copy-on-write write set of a transaction (crates/nexum-tx,          *)
(* write_set.rs): a shared layer inherited when the transaction branched,  *)
(* and a private layer that overrides it.  The transactions of one tick    *)
(* form a chain of branches of which the deepest one is running; the       *)
(* others wait for it to be absorbed or dropped.  snapshot and rollback    *)
(* are those of the deepest transaction.                                   *)
(***************************************************************************)
EXTENDS Integers, Sequences

CONSTANTS
    RealId,            \* ids of stored rows
    Value,             \* row contents
    Absent,            \* no entry, no layer
    MaxHandles,        \* bound: insert handles a transaction may issue
    MaxDepth           \* bound: transactions in a chain of branches

VARIABLES
    sets,    \* [base, own] of each transaction in the chain, top-level first
    counts,  \* the provisional counter of each
    saved    \* the snapshot of the deepest one, or Absent

wvars == <<sets, counts, saved>>

Slot == 0 .. MaxHandles - 1
Id == RealId \cup Slot

Entry == [kind : {"Insert", "Update"}, row : Value]
            \cup [kind : {"Delete"}, row : {Absent}]
Map == [Id -> Entry \cup {Absent}]
WriteSetRecord == [base : Map \cup {Absent}, own : Map]

\* Insert handles are the integers, ids of stored rows are not; Absent is
\* neither an entry nor a layer nor a snapshot.
ASSUME WriteSetAssumption ==
    /\ MaxHandles \in Nat /\ MaxDepth \in Nat \ {0}
    /\ RealId \cap Slot = {}
    /\ Absent \notin Entry /\ Absent \notin Map
    /\ Absent \notin [writes : WriteSetRecord, provisional : 0 .. MaxHandles]
    /\ Absent \notin Map \X (SUBSET Slot) \X (0 .. MaxHandles)

EmptyMap == [id \in Id |-> Absent]

Deepest == Len(sets)
Tip == sets[Deepest]

\* WriteSet::get: the own layer overrides the inherited one.
Logical(ws, id) ==
    IF ws.own[id] # Absent \/ ws.base = Absent THEN ws.own[id] ELSE ws.base[id]

HasKind(entry, kind) == entry # Absent /\ entry.kind = kind

WSInit ==
    /\ sets = <<[base |-> Absent, own |-> EmptyMap]>>
    /\ counts = <<0>>
    /\ saved = Absent

-----------------------------------------------------------------------------
(* Buffered writes of the running transaction.                             *)

PutOwn(id, entry) ==
    /\ sets' = [sets EXCEPT ![Deepest] =
                   [base |-> Tip.base, own |-> [Tip.own EXCEPT ![id] = entry]]]
    /\ UNCHANGED saved

\* The duplicate check is against the own layer only.
BufferInsert(row) ==
    LET handle == counts[Deepest]
    IN  /\ handle < MaxHandles
        /\ Tip.own[handle] = Absent
        /\ PutOwn(handle, [kind |-> "Insert", row |-> row])
        /\ counts' = [counts EXCEPT ![Deepest] = @ + 1]

Inherited(id) == Tip.own[id] = Absent /\ Logical(Tip, id) # Absent

BufferUpdate(id, row) ==
    LET old == Logical(Tip, id)
    IN  /\ \/ /\ old = Absent /\ id \in RealId
              /\ PutOwn(id, [kind |-> "Update", row |-> row])
           \/ /\ HasKind(old, "Insert")
              /\ PutOwn(id, [kind |-> "Insert", row |-> row])
           \/ /\ HasKind(old, "Update")
              /\ PutOwn(id, [kind |-> "Update", row |-> row])
        /\ UNCHANGED counts

\* An insert in the own layer is removed; an inherited one is tombstoned.
BufferDelete(id) ==
    LET old == Logical(Tip, id)
        tombstone == [kind |-> "Delete", row |-> Absent]
    IN  /\ \/ old = Absent /\ id \in RealId /\ PutOwn(id, tombstone)
           \/ HasKind(old, "Insert") /\ ~Inherited(id) /\ PutOwn(id, Absent)
           \/ HasKind(old, "Insert") /\ Inherited(id) /\ PutOwn(id, tombstone)
           \/ HasKind(old, "Update") /\ PutOwn(id, tombstone)
        /\ UNCHANGED counts

-----------------------------------------------------------------------------
(* Branching.  The tick takes a snapshot around one reducer call and drops *)
(* it with the call, so no branch begins or ends while one is held.        *)

\* A base-less parent shares its own map; a branched one is folded, where
\* an inherited insert under a tombstone disappears.
Folded(ws) ==
    IF ws.base = Absent THEN ws.own
    ELSE [id \in Id |->
            IF HasKind(ws.base[id], "Insert") /\ HasKind(ws.own[id], "Delete")
            THEN Absent ELSE Logical(ws, id)]

Branch ==
    /\ Deepest < MaxDepth /\ saved = Absent
    /\ sets' = Append(sets, [base |-> Folded(Tip), own |-> EmptyMap])
    /\ counts' = Append(counts, counts[Deepest])
    /\ UNCHANGED saved

\* Mutant: every delta, tombstones included, overwrites.
FoldEntryKeepsTombstone(parent, delta, id) ==
    IF delta = Absent THEN parent.own[id] ELSE delta

\* Each delta of the child against the parent's logical view: an insert it
\* deleted is removed from the parent's own layer, or tombstoned there.
FoldEntry(parent, delta, id) ==
    IF delta = Absent THEN parent.own[id]
    ELSE IF HasKind(delta, "Delete") /\ HasKind(Logical(parent, id), "Insert")
         THEN IF parent.own[id] # Absent THEN Absent ELSE delta
         ELSE delta

AbsorbInto(parent, child) ==
    [base |-> parent.base,
     own  |-> [id \in Id |-> FoldEntry(parent, child.own[id], id)]]

Absorb ==
    /\ Deepest > 1 /\ saved = Absent
    /\ sets' = Append(SubSeq(sets, 1, Deepest - 2),
                      AbsorbInto(sets[Deepest - 1], Tip))
    /\ counts' = LET ours == counts[Deepest - 1]
                     its  == counts[Deepest]
                 IN  Append(SubSeq(counts, 1, Deepest - 2),
                            IF its > ours THEN its ELSE ours)
    /\ UNCHANGED saved

\* A failed child is dropped and nothing of it merges.
Discard ==
    /\ Deepest > 1 /\ saved = Absent
    /\ sets' = SubSeq(sets, 1, Deepest - 1)
    /\ counts' = SubSeq(counts, 1, Deepest - 1)
    /\ UNCHANGED saved

Snapshot ==
    /\ saved = Absent
    /\ saved' = [writes |-> Tip, provisional |-> counts[Deepest]]
    /\ UNCHANGED <<sets, counts>>

\* The call succeeded: its writes are already in the transaction.
Keep ==
    /\ saved # Absent
    /\ saved' = Absent
    /\ UNCHANGED <<sets, counts>>

\* Mutant: the handle counter keeps running.
RollbackKeepsCount ==
    /\ saved # Absent
    /\ sets' = [sets EXCEPT ![Deepest] = saved.writes]
    /\ saved' = Absent
    /\ UNCHANGED counts

Rollback ==
    /\ saved # Absent
    /\ sets' = [sets EXCEPT ![Deepest] = saved.writes]
    /\ counts' = [counts EXCEPT ![Deepest] = saved.provisional]
    /\ saved' = Absent

WSNext ==
    \/ \E row \in Value : BufferInsert(row)
    \/ \E id \in Id, row \in Value : BufferUpdate(id, row)
    \/ \E id \in Id : BufferDelete(id)
    \/ Branch \/ Absorb \/ Discard
    \/ Snapshot \/ Keep \/ Rollback

WSSpec == WSInit /\ [][WSNext]_wvars

-----------------------------------------------------------------------------

WSTypeOK ==
    /\ sets \in Seq(WriteSetRecord) /\ Len(sets) \in 1 .. MaxDepth
    /\ counts \in Seq(0 .. MaxHandles) /\ Len(counts) = Len(sets)
    /\ saved \in {Absent} \cup [writes : WriteSetRecord,
                              provisional : 0 .. MaxHandles]

\* The only transaction that commits holds no tombstone of an insert that
\* some branch of it deleted: commit would look for the row of an insert
\* handle in the table, and abort the whole tick.
TopHoldsNoTombstone ==
    /\ sets[1].base = Absent
    /\ \A slot \in Slot : ~HasKind(sets[1].own[slot], "Delete")

\* write_set.rs delete: "insert -> delete: the row is never created (net
\* no-op)" -- once a delete is accepted the row is gone from the view.
DeleteHidesRow ==
    [][\A id \in Id :
          BufferDelete(id) => Logical(Tip', id) = Absent
                          \/ HasKind(Logical(Tip', id), "Delete")]_wvars

\* The tombstone of an insert handle stands for the absence of the insert.
FlatMap(ws) ==
    [id \in Id |->
        IF id \in Slot /\ HasKind(Logical(ws, id), "Delete") THEN Absent
        ELSE Logical(ws, id)]

\* The insert handles a transaction has an entry of its own for.
Written(ws) == {slot \in Slot : ws.own[slot] # Absent}

Flat ==
    INSTANCE FlatWriteSet WITH
        maps    <- [i \in 1 .. Len(sets) |-> FlatMap(sets[i])],
        written <- [i \in 1 .. Len(sets) |-> Written(sets[i])],
        saved   <- IF saved = Absent THEN Absent
                   ELSE <<FlatMap(saved.writes), Written(saved.writes), saved.provisional>>

\* Two shared layers behave as the deep copies they replaced: branch_of gives
\* "a copy of the parent's buffered writes" and absorbing it is "exact, not
\* approximate" (transaction.rs).  The exception, part of FlatWriteSet, is an
\* insert that was inherited, rewritten and then deleted: what was inherited
\* comes back (see DeleteHidesRow).
BehavesAsDeepCopy == Flat!FlatSpec
=============================================================================
