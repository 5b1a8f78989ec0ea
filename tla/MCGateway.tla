------------------------------ MODULE MCGateway ------------------------------
(* Instances of module Gateway: what the clients may send.                 *)
EXTENDS Gateway

Op(op) == [op |-> op]

Call(id) == [op |-> "call", id |-> id]

Attach == [op |-> "attach", world |-> 1]

\* One attached client subscribes, resyncs and leaves while its world changes.
Viewer ==
    [boot |-> {1}, budget |-> <<3, 0>>, versions |-> 2, control |-> 0,
     policy |-> "Stale",
     menu |-> << {Op("detach"), Op("subscribe"), Call(1), Attach,
                  [op |-> "unsubscribe", sub |-> 0]} \cup [op : {"resync"}, sub : SubId],
                 {} >>]

\* A client calls again after a detach, while its world stops and restarts.
Caller ==
    [boot |-> {1}, budget |-> <<4, 0>>, versions |-> 0, control |-> 2,
     policy |-> "Stale",
     menu |-> <<{Call(1), Op("detach"), Attach}, {}>>]

\* Two clients call under the same id; one of them subscribes.  A slow client
\* is disconnected.
Neighbours ==
    [boot |-> {1, 2}, budget |-> <<1, 1>>, versions |-> 1, control |-> 1,
     policy |-> "Disconnect",
     menu |-> <<{Call(1), Op("subscribe")}, {Call(1)}>>]

\* A client registers, logs in, attaches, or violates the protocol.
Newcomer ==
    [boot |-> {}, budget |-> <<3, 0>>, versions |-> 0, control |-> 0,
     policy |-> "Stale",
     menu |-> <<{Op("auth"), Attach, Op("violate"), Op("input"), Op("ping"), Op("detach")}, {}>>]

MCScenes == {Viewer, Caller, Neighbours, Newcomer}
=============================================================================
