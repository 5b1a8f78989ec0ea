---------------------------- MODULE MCTransaction ----------------------------
(* Small instances of Transaction and of its history.                      *)
EXTENDS TransactionHistory, TLC

CONSTANTS k1, k2, k3, z1, z2, MaxPending, MaxReads

\* Rows the host put there itself: their change records were never
\* drained, so the first commit finds a buffer that is not its own.
OneRow == InsertRow(EmptyTable, [k |-> k1, z |-> z1])
TwoRows == InsertRow(OneRow, [k |-> k2, z |-> z1])

OneRowTables == {OneRow}
TwoRowTables == {TwoRows}

\* Bounds: the rows a transaction writes, the rows it reads, and no step
\* out of a state in which no commit may start any more.
SmallTransactions ==
    /\ committing # None \/ table.epoch < MaxEpoch
    /\ \A t \in Tx :
        /\ Cardinality(Pending(t)) <= MaxPending
        /\ Cardinality({id \in RowId : reads[t][id] # Unread}) <= MaxReads

\* The sets of a finished transaction are dropped by Begin before anything
\* reads them, and base is rewritten before it is read: states that differ
\* only there have the same future.
Live(t, x) == IF state[t] = "Active" THEN x ELSE None

Visible ==
    <<table, state, committing, todo, IF committing = None THEN 0 ELSE base,
      [t \in Tx |-> Live(t, <<reads[t], epochs[t], writes[t], provisional[t]>>)],
      seen, before>>

Symmetry == Permutations(Tx)
=============================================================================
