----------------------------- MODULE MCTransport ----------------------------
(* Messages of every kind, each optional part once present and once absent, *)
(* and of either side one that the other finds too large.                  *)
EXTENDS Transport

V(n) == <<"U64", n>>
T(s) == <<"String", s>>
Row2 == <<V(1), T("x")>>

Queries ==
    {[table |-> "t", predicates |-> <<>>, order |-> <<>>, limit |-> <<>>, project |-> <<>>],
     [table |-> "t", predicates |-> <<[column |-> "a", op |-> "Gte", value |-> V(3)]>>,
      order |-> <<[column |-> "b", direction |-> "Descending"]>>, limit |-> <<5>>,
      project |-> <<<<"a", "b">>>>]}
Deltas ==
    {[seq |-> 4, kind |-> "Insert", row_id |-> 7, row |-> <<Row2>>],
     [seq |-> 5, kind |-> "Delete", row_id |-> 8, row |-> <<>>]}
Changes ==
    {[table |-> 1, kind |-> "Insert", row_id |-> 7, old_row |-> <<>>, new_row |-> <<Row2>>,
      old_version |-> <<>>, new_version |-> <<1>>],
     [table |-> 1, kind |-> "Update", row_id |-> 7, old_row |-> <<Row2>>, new_row |-> <<<<V(2)>>>>,
      old_version |-> <<1>>, new_version |-> <<2>>],
     [table |-> 1, kind |-> "Delete", row_id |-> 7, old_row |-> <<Row2>>, new_row |-> <<>>,
      old_version |-> <<1>>, new_version |-> <<>>]}

MCClient ==
    {[k |-> "Handshake", version |-> 2, name |-> "c"], [k |-> "Authenticate", credentials |-> "s"],
     [k |-> "AttachWorld", world |-> 1], [k |-> "Unsubscribe", subscription |-> 1],
     [k |-> "Resync", subscription |-> 1], [k |-> "Ping", nonce |-> 9], [k |-> "DetachWorld"],
     [k |-> "CallReducer", request_id |-> 3, reducer |-> "r", args |-> <<<<"a", V(1)>>, <<"b", T("y")>>>>],
     [k |-> "InputFrame", tick |-> 1, commands |->
         <<[source |-> 0, kind |-> "go", payload |-> <<V(1)>>],
           [source |-> 0, kind |-> "stop", payload |-> <<>>]>>]}
    \cup {[k |-> "Subscribe", request_id |-> 2, query |-> q] : q \in Queries}
    \cup {[k |-> "CallReducer", request_id |-> 4, reducer |-> "r",   \* too large for the gateway
           args |-> [i \in 1..6 |-> <<"a", V(i)>>]]}

MCServer ==
    {[k |-> "HandshakeResponse", version |-> 2, name |-> "s"],
     [k |-> "AuthResult", ok |-> TRUE, id |-> 1, name |-> "p"],
     [k |-> "AttachResult", ok |-> TRUE, world |-> 1], [k |-> "DetachResult", ok |-> TRUE],
     [k |-> "ReducerResult", request_id |-> 3, ok |-> TRUE, value |-> V(1)],
     [k |-> "ReducerResult", request_id |-> 3, ok |-> FALSE, error |-> "e"],
     [k |-> "SubscriptionSnapshot", request_id |-> 2, subscription |-> 1, seq |-> 4,
      rows |-> <<[row_id |-> 7, row |-> Row2], [row_id |-> 8, row |-> <<>>]>>],
     [k |-> "StaleNotification", subscription |-> 1, seq |-> 4],
     [k |-> "Error", code |-> 22, message |-> "m", request_id |-> 0],
     [k |-> "Pong", nonce |-> 9], [k |-> "Disconnect", reason |-> "bye"]}
    \cup {[k |-> "SubscriptionDelta", subscription |-> 1, delta |-> d] : d \in Deltas}
    \cup {[k |-> "SubscriptionDeltaBatch", subscription |-> 1, request_id |-> 0,
           deltas |-> SetToSeq(Deltas)]}
    \cup {[k |-> k, ok |-> FALSE, error |-> "e"] : k \in {"AuthResult", "AttachResult", "DetachResult"}}
    \cup {[k |-> "TickUpdate", world |-> 1, tick |-> 2, tx_id |-> 3, changes |-> <<c>>,
           events |-> e] : c \in Changes, e \in {<<>>, <<<<"boom", V(1)>>>>}}

MCMessages == MCClient \cup MCServer
MCLater == {[k |-> "Ping", nonce |-> 1], [k |-> "DetachWorld"], [k |-> "Pong", nonce |-> 1]}
=============================================================================
