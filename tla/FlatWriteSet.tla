----------------------------- MODULE FlatWriteSet -----------------------------
(***************************************************************************)
(* What branching a transaction comes to (crates/nexum-tx, branch_of and   *)
(* absorb): a child starts as a copy of the parent's buffered writes,      *)
(* works on the copy alone, and absorbing it makes the copy the parent's.  *)
(* Rolling back restores the copy taken by snapshot.  In one point the     *)
(* write set is not such a copy: deleting an insert that a transaction     *)
(* inherited and has since rewritten takes back the rewrite only, and what *)
(* was inherited is there again.  So a transaction's copy comes with the   *)
(* insert handles it has written itself.                                   *)
(***************************************************************************)
EXTENDS Integers, Sequences

CONSTANTS
    RealId,       \* ids of stored rows
    Value,        \* row contents
    Absent,       \* no entry
    MaxHandles,   \* bound: insert handles a transaction may issue
    MaxDepth      \* bound: transactions in a chain of branches

\* Insert handles are the integers; real ids are not.
Slot == 0 .. MaxHandles - 1
Id == RealId \cup Slot

Entry == [kind : {"Insert", "Update"}, row : Value]
            \cup [kind : {"Delete"}, row : {Absent}]
Map == [Id -> Entry \cup {Absent}]

VARIABLES
    maps,     \* one write set per transaction of the chain, the top-level first
    written,  \* the insert handles it has inserted, updated or deleted itself
    counts,   \* and the insert handles it knows to be issued
    saved     \* the snapshot of the last transaction, or Absent

fvars == <<maps, written, counts, saved>>

Deepest == Len(maps)

FlatInit ==
    /\ maps = <<[id \in Id |-> Absent]>>
    /\ written = <<{}>>
    /\ counts = <<0>>
    /\ saved = Absent

\* What the transaction at this depth found when it began.
Inherited(depth, id) == IF depth = 1 THEN Absent ELSE maps[depth - 1][id]

Put(id, entry, touched) ==
    /\ maps' = [maps EXCEPT ![Deepest][id] = entry]
    /\ written' = [written EXCEPT ![Deepest] = touched]
    /\ UNCHANGED saved

FlatInsert(row) ==
    LET handle == counts[Deepest]
    IN  /\ handle < MaxHandles
        /\ Put(handle, [kind |-> "Insert", row |-> row], written[Deepest] \cup {handle})
        /\ counts' = [counts EXCEPT ![Deepest] = @ + 1]

FlatUpdate(id, row) ==
    LET old == maps[Deepest][id]
    IN  /\ \/ /\ id \in RealId /\ (old = Absent \/ old.kind = "Update")
              /\ Put(id, [kind |-> "Update", row |-> row], written[Deepest])
           \/ /\ old # Absent /\ old.kind = "Insert"
              /\ Put(id, [kind |-> "Insert", row |-> row], written[Deepest] \cup {id})
        /\ UNCHANGED counts

FlatDelete(id) ==
    LET old == maps[Deepest][id]
    IN  /\ \/ /\ id \in RealId /\ (old = Absent \/ old.kind = "Update")
              /\ Put(id, [kind |-> "Delete", row |-> Absent], written[Deepest])
           \/ /\ old # Absent /\ old.kind = "Insert" /\ id \notin written[Deepest]
              /\ Put(id, Absent, written[Deepest] \cup {id})
           \/ /\ old # Absent /\ old.kind = "Insert" /\ id \in written[Deepest]
              /\ Put(id, Inherited(Deepest, id), written[Deepest] \ {id})
        /\ UNCHANGED counts

FlatBranch ==
    /\ Deepest < MaxDepth /\ saved = Absent
    /\ maps' = Append(maps, maps[Deepest])
    /\ written' = Append(written, {})
    /\ counts' = Append(counts, counts[Deepest])
    /\ UNCHANGED saved

\* Inserts the parent wrote and the child deleted.
Undone == {id \in written[Deepest - 1] \cap written[Deepest] : maps[Deepest][id] = Absent}

Absorbed ==
    [id \in Id |-> IF id \in Undone THEN Inherited(Deepest - 1, id) ELSE maps[Deepest][id]]

FlatAbsorb ==
    /\ Deepest > 1 /\ saved = Absent
    /\ maps' = Append(SubSeq(maps, 1, Deepest - 2), Absorbed)
    /\ written' = Append(SubSeq(written, 1, Deepest - 2),
                         (written[Deepest - 1] \cup written[Deepest]) \ Undone)
    /\ counts' = Append(SubSeq(counts, 1, Deepest - 2), counts[Deepest])
    /\ UNCHANGED saved

FlatDiscard ==
    /\ Deepest > 1 /\ saved = Absent
    /\ maps' = SubSeq(maps, 1, Deepest - 1)
    /\ written' = SubSeq(written, 1, Deepest - 1)
    /\ counts' = SubSeq(counts, 1, Deepest - 1)
    /\ UNCHANGED saved

FlatSnapshot ==
    /\ saved = Absent
    /\ saved' = <<maps[Deepest], written[Deepest], counts[Deepest]>>
    /\ UNCHANGED <<maps, written, counts>>

FlatKeep == saved # Absent /\ saved' = Absent /\ UNCHANGED <<maps, written, counts>>

FlatRollback ==
    /\ saved # Absent
    /\ maps' = [maps EXCEPT ![Deepest] = saved[1]]
    /\ written' = [written EXCEPT ![Deepest] = saved[2]]
    /\ counts' = [counts EXCEPT ![Deepest] = saved[3]]
    /\ saved' = Absent

FlatNext ==
    \/ \E row \in Value : FlatInsert(row)
    \/ \E id \in Id, row \in Value : FlatUpdate(id, row)
    \/ \E id \in Id : FlatDelete(id)
    \/ FlatBranch \/ FlatAbsorb \/ FlatDiscard
    \/ FlatSnapshot \/ FlatKeep \/ FlatRollback

FlatSpec == FlatInit /\ [][FlatNext]_fvars
=============================================================================
