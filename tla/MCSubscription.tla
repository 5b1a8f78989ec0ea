--------------------------- MODULE MCSubscription ---------------------------
(* Small instances of the subscription engine and its clients.             *)
EXTENDS ClientView

\* A board of the best two, and a window of one from the other end.
Board == [order |-> "desc", floor |-> 1, cap |-> 2]
TopOne == [order |-> "asc", floor |-> 1, cap |-> 1]
JustBoard == {Board}
JustOne == {TopOne}
Both == {Board, TopOne}

\* Of a buffer only its length and what it makes of the replica and of the
\* client matter, and of a stale client nothing but that: states that agree
\* on these, and on all the rest, have the same future.
Kept(view) == IF view.stale THEN None ELSE <<view.rows, view.seq>>

Visible ==
    <<store, nextSeq, views, nextId, misled, {m \in pending : subs[m] # None}, resyncs,
      [m \in SubId |->
          IF subs[m] = None THEN None
          ELSE <<subs[m].query, subs[m].state, Len(subs[m].buffer),
                 Delivered(m), Kept(Received(m))>>]>>
=============================================================================
