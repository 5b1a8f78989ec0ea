-------------------------- MODULE TransactionHistory --------------------------
(***************************************************************************)
(* Transaction with history variables: what each transaction was shown,    *)
(* and the table as it was when the running commit was validated.  The     *)
(* isolation and atomicity claims of the transaction engine are stated     *)
(* over them.                                                              *)
(***************************************************************************)
EXTENDS Transaction, FiniteSets

VARIABLES
    first,      \* contents get first returned for a row
    last,       \* contents behind the observation recorded last
    firstSet,   \* committed rows shown by the first set observation
    lastSet,    \* committed rows behind the epoch recorded last
    before      \* the table when the running commit was validated

seen == <<first, last, firstSet, lastSet>>
hvars == <<vars, seen, before>>

\* The committed row, without its version.
Contents(tb) ==
    [id \in RowId |-> IF tb.rows[id] = None THEN None ELSE tb.rows[id].row]

HInit ==
    /\ Init
    /\ first = [t \in Tx |-> [id \in RowId |-> Unread]]
    /\ last = [t \in Tx |-> [id \in RowId |-> Unread]]
    /\ firstSet = [t \in Tx |-> Unread]
    /\ lastSet = [t \in Tx |-> Unread]
    /\ before = None

Forget(t) ==
    /\ first' = [first EXCEPT ![t] = [id \in RowId |-> Unread]]
    /\ last' = [last EXCEPT ![t] = [id \in RowId |-> Unread]]
    /\ firstSet' = [firstSet EXCEPT ![t] = Unread]
    /\ lastSet' = [lastSet EXCEPT ![t] = Unread]

Shown(t, id) ==
    /\ first' = [first EXCEPT ![t][id] =
                    IF @ = Unread THEN Contents(table)[id] ELSE @]
    /\ last' = [last EXCEPT ![t][id] = Contents(table)[id]]
    /\ UNCHANGED <<firstSet, lastSet>>

Captured(t, h) ==
    /\ last' = IF h \in RowId /\ writes[t][h] = None
               THEN [last EXCEPT ![t][h] = Contents(table)[h]]
               ELSE last
    /\ UNCHANGED <<first, firstSet, lastSet>>

ShownSet(t) ==
    /\ firstSet' = [firstSet EXCEPT ![t] =
                       IF @ = Unread THEN Contents(table) ELSE @]
    /\ lastSet' = [lastSet EXCEPT ![t] = Contents(table)]
    /\ UNCHANGED <<first, last>>

Finishing(t) ==
    \/ Abort(t)
    \/ CommitRejected(t)
    \/ CommitDone(t)

\* The histories of a finished transaction are dropped with it.
HNext ==
    \E t \in Tx :
        \/ /\ \/ Begin(t)
              \/ \E row \in Row : Insert(t, row)
              \/ \E h \in Handle : ApplyWrite(t, h)
           /\ UNCHANGED <<seen, before>>
        \/ \E id \in RowId :
              Get(t, id) /\ Shown(t, id) /\ UNCHANGED before
        \/ ObserveSet(t) /\ ShownSet(t) /\ UNCHANGED before
        \/ \E h \in Handle :
              /\ Delete(t, h) \/ \E row \in Row : Update(t, h, row)
              /\ Captured(t, h) /\ UNCHANGED before
        \/ CommitValidated(t) /\ before' = table /\ UNCHANGED seen
        \/ Finishing(t) /\ Forget(t) /\ before' = None

HSpec == HInit /\ [][HNext]_hvars

-----------------------------------------------------------------------------
(* Isolation.                                                              *)

\* A commit that validation accepts was shown, at its last look at each row
\* and at each set, exactly the contents the table has when it applies: an
\* equal version or epoch number means equal contents (commit.rs validate).
LastReadsAreCurrent ==
    committing # None =>
        /\ \A id \in RowId :
              last[committing][id] \in {Unread, Contents(before)[id]}
        /\ lastSet[committing] \in {Unread, Contents(before)}

\* 04-transaction-engine.md: "every committed schedule is serializable".  A
\* transaction that commits could have run where it commits: whatever it was
\* shown first of a row, and of a set, is still so then.
FirstReadsAreCurrent ==
    committing # None =>
        /\ \A id \in RowId :
              first[committing][id] \in {Unread, Contents(before)[id]}
        /\ firstSet[committing] \in {Unread, Contents(before)}

-----------------------------------------------------------------------------
(* Atomicity.                                                              *)

Applied == committing # None /\ todo = {}

\* The id an insert handle receives: the counter, after the inserts whose
\* handles are smaller.
AssignedId(t, h) ==
    before.next + Cardinality({g \in Inserts(t) : g < h})

RowAfter(t, id) ==
    LET old == before.rows[id]
        inserted == {h \in Inserts(t) : AssignedId(t, h) = id}
    IN  CASE id \in Deletes(t) -> None
          [] id \in Updates(t) ->
                IF writes[t][id].row = old.row THEN old
                ELSE [row |-> writes[t][id].row, version |-> old.version + 1]
          [] inserted # {} ->
                [row |-> writes[t][CHOOSE h \in inserted : TRUE].row,
                 version |-> 0]
          [] OTHER -> old

\* The table a commit leaves is the one it validated against with the whole
\* write set applied at once: nothing is lost, doubled or left over by the
\* order in which the loop works, and ids follow submission order.
CommitIsAtomic ==
    Applied => table.rows = [id \in RowId |-> RowAfter(committing, id)]

\* What commit returns names every row it changed once, with its exact old
\* and new contents and versions, and nothing else -- whatever the buffer
\* held before -- and the epoch moved once per record.
ChangesDescribeCommit ==
    Applied =>
        /\ \A id \in RowId :
              LET about == {i \in DOMAIN CollectedChanges :
                               CollectedChanges[i].id = id}
              IN  IF before.rows[id] = table.rows[id] THEN about = {}
                  ELSE \E i \in about :
                          /\ about = {i}
                          /\ CollectedChanges[i].old = before.rows[id]
                          /\ CollectedChanges[i].new = table.rows[id]
        /\ table.epoch = before.epoch + Len(CollectedChanges)
=============================================================================
