----------------------------- MODULE ClientView -----------------------------
(***************************************************************************)
(* The views of the client SDK (crates/nexum-sdk, view.rs and client.rs)   *)
(* behind the subscription engine.  What is drained from a subscription    *)
(* reaches its client in order and without loss: the connection between    *)
(* them is not modelled here.                                              *)
(***************************************************************************)
EXTENDS Subscription

VARIABLES client   \* View and stale mark of each subscription's handle

cvars == <<svars, client>>

NewView == [rows |-> NoRows, seq |-> 0, stale |-> FALSE, gap |-> FALSE]

ApplySnapshot(view, u) ==
    [view EXCEPT !.rows = u.rows, !.seq = u.seq, !.stale = FALSE]

\* Mutant: the delta is dropped, and nobody is told.
ApplyDeltaSilently(view, u) ==
    IF u.seq < view.seq \/ u.seq > view.seq + 1
    THEN view
    ELSE [view EXCEPT
             !.rows[u.id] = IF u.kind = "Delete" THEN None ELSE u.row,
             !.seq = u.seq]

\* Legal is cursor <= seq <= cursor + 1; anything else is a ViewGap.
ApplyDelta(view, u) ==
    IF u.seq < view.seq \/ u.seq > view.seq + 1
    THEN [view EXCEPT !.stale = TRUE, !.gap = TRUE]
    ELSE [view EXCEPT
             !.rows[u.id] = IF u.kind = "Delete" THEN None ELSE u.row,
             !.seq = u.seq]

\* Deltas of a stale handle are ignored.
Receive(view, u) ==
    CASE u.kind \in {"Initial", "Resync"} -> ApplySnapshot(view, u)
      [] u.kind = "Stale" -> [view EXCEPT !.stale = TRUE]
      [] OTHER -> IF view.stale THEN view ELSE ApplyDelta(view, u)

ReceiveFirst(view, updates, n) ==
    LET after[i \in 0 .. n] ==
            IF i = 0 THEN view ELSE Receive(after[i - 1], updates[i])
    IN  after[n]

Received(m) == ReceiveFirst(client[m], subs[m].buffer, Len(subs[m].buffer))

CInit ==
    /\ SInit
    /\ client = [m \in SubId |-> NewView]

ClientDrain(m) ==
    /\ Drain(m)
    /\ client' = [client EXCEPT ![m] = Received(m)]

ClientDrainAll ==
    /\ DrainAllPending
    /\ client' = [m \in SubId |->
                     IF m \in pending /\ subs[m] # None THEN Received(m)
                     ELSE client[m]]

ClientUnsubscribe(m) ==
    /\ Unsubscribe(m)
    /\ client' = [client EXCEPT ![m] = NewView]

CNext ==
    \/ /\ \/ \E q \in Queries : Subscribe(q)
          \/ \E newRows \in Successors : Commit(newRows)
          \/ CommitElsewhere
          \/ \E m \in SubId : Resync(m)
       /\ UNCHANGED client
    \/ \E m \in SubId : ClientDrain(m) \/ ClientUnsubscribe(m)
    \/ ClientDrainAll

CSpec == CInit /\ [][CNext]_cvars

\* A client's view, once it has received what is under way, is exactly the
\* visible rows of its query, or its handle is marked stale: however the
\* sequence numbers fall, no update is skipped in silence (view.rs: "The
\* client detects silent loss via strict delta-sequence continuity").  Only
\* the members of a window of one whose view another one's resync corrected
\* may hold something else.
ClientIsExactOrStale ==
    \A m \in SubId : subs[m] # None =>
        \/ Received(m).stale
        \/ Received(m).rows = Shown(views[subs[m].query])
        \/ m \in misled /\ subs[m].query.cap = 1

\* view.rs: a delta beyond the next sequence "means commits were missed" --
\* so where nothing is lost, no client reports a gap and drops a delta.
NoFalseGap == \A m \in SubId : ~client[m].gap
=============================================================================
