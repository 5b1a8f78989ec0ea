------------------------------- MODULE Client -------------------------------
(***************************************************************************)
(* The client SDK (crates/nexum-sdk): connection states, the session       *)
(* mirror, pending reducer calls, subscription handles and the pump, in    *)
(* front of a gateway reduced to what it sends one connection: it never    *)
(* waits for room, but drops what does not fit and marks the session       *)
(* stale, or drops the connection.                                         *)
(*                                                                         *)
(* A request is its number.  A subscription is what the server calls it,   *)
(* a number that each world counts for itself, and the world it belongs    *)
(* to; the SDK sees the number only.  A handle's view is the set of        *)
(* subscriptions whose updates were applied to it (what an update does to  *)
(* the rows, and the sequence check, are in ClientView).                   *)
(***************************************************************************)
EXTENDS Naturals, Sequences, FiniteSets

CONSTANTS
    World,        \* the worlds a session may attach to
    Media,        \* the transports the host supplies: "memory", "socket"
    MaxPending,   \* max_pending_calls
    MaxRequests,  \* bound: how many request ids are used
    MaxLocals,    \* bound: how many handles are created
    MaxConnects,  \* bound: how many transports the host supplies
    MaxAttach,    \* bound: how many attachments are asked for per connection
    QueueCap      \* capacity of the queue in each direction

ASSUME ClientAssumption ==
    /\ Media \subseteq {"memory", "socket"}
    /\ 0 \notin World /\ MaxPending > 0 /\ QueueCap > 1 /\ MaxRequests \in Nat

VARIABLES
    cl,          \* the Client
    up, down,    \* messages under way on the current transport
    sv,          \* the gateway's entry of the current connection
    nextSub,     \* the next subscription id of each world
    used,        \* transports supplied, and attachments asked for on the current one
    issued,      \* the requests for which call_reducer returned an id
    lost         \* history: calls of which the client will never be told

clientVars == <<cl, up, down, sv, nextSub, used, issued, lost>>

Request == 1..MaxRequests
Local == 0..(MaxLocals - 1)
None == 0
NoSession == [auth |-> FALSE, world |-> None]
NewHandle == [server |-> None, of |-> None, stale |-> FALSE, fed |-> {}]

NewClient == [state |-> "Disconnected", tclosed |-> TRUE, broken |-> FALSE, session |-> NoSession,
              nextReq |-> 1, nextLocal |-> 0, calls |-> {}, results |-> [r \in Request |-> 0],
              pendSubs |-> {}, handles |-> <<>>]
NewEntry(medium) == [open |-> TRUE, medium |-> medium, auth |-> FALSE, world |-> None,
                     stale |-> FALSE, subs |-> {}, calls |-> {}]

ClientInit ==
    /\ cl = NewClient
    /\ up = <<>> /\ down = <<>>
    /\ sv = [NewEntry("memory") EXCEPT !.open = FALSE]
    /\ nextSub = [w \in World |-> 1]
    /\ used = [connects |-> 0, attaches |-> 0]
    /\ issued = {} /\ lost = {}
-----------------------------------------------------------------------------
(* Client state *)

(* Handles are keyed by their local id: a function on the live ones. *)
Live(c) == DOMAIN c.handles
WithHandle(hs, l, h) == [k \in DOMAIN hs \cup {l} |-> IF k = l THEN h ELSE hs[k]]
WithoutHandle(hs, l) == [k \in DOMAIN hs \ {l} |-> hs[k]]

(* Mutant: the results of failed calls are not queued. *)
CallsDropped(c) == [c EXCEPT !.calls = {}]

(* A call that fails gets its result like any other; results counts them   *)
(* per request.                                                            *)
FailPendingCalls(c) ==
    [c EXCEPT !.calls = {},
              !.results = [r \in Request |-> IF r \in c.calls THEN @[r] + 1 ELSE @[r]]]

(* The session, the calls and the handles end with the connection. *)
Ended(c) ==
    [FailPendingCalls(c) EXCEPT !.session = NoSession, !.pendSubs = {}, !.handles = <<>>]

TransitionToClosed(c) == [Ended(c) EXCEPT !.tclosed = TRUE, !.state = "Closed"]

(* local_of_server: the first handle with that server id. *)
LocalOfServer(c, s) ==
    LET found == {l \in Live(c) : c.handles[l].server = s}
    IN IF found = {} THEN {} ELSE {CHOOSE l \in found : \A k \in found : l <= k}
-----------------------------------------------------------------------------
(* dispatch, one message *)

ApplySnapshot(c, m) ==
    LET asked == {p \in c.pendSubs : p[1] = m.req}
        known == LocalOfServer(c, m.sub)
        Shown(h) == [h EXCEPT !.stale = FALSE, !.fed = {<<m.world, m.sub>>}]
    IN IF asked # {}
       THEN LET l == (CHOOSE p \in asked : TRUE)[2]
            IN [c EXCEPT !.pendSubs = @ \ asked,
                         !.handles = IF l \notin Live(c) THEN @
                                     ELSE WithHandle(@, l, [Shown(c.handles[l]) EXCEPT
                                              !.server = m.sub, !.of = m.world])]
       ELSE IF known # {}
       THEN LET l == CHOOSE k \in known : TRUE
            IN [c EXCEPT !.handles[l] = Shown(@)]
       ELSE c

(* A delta of an unknown or a stale subscription is ignored. *)
ApplyDelta(c, m) ==
    [c EXCEPT !.handles = [l \in DOMAIN @ |->
        IF l \in LocalOfServer(c, m.sub) /\ ~c.handles[l].stale
        THEN [@[l] EXCEPT !.fed = @ \cup {<<m.world, m.sub>>}] ELSE @[l]]]

MarkStale(c, m) ==
    [c EXCEPT !.handles = [l \in DOMAIN @ |->
        IF l \in LocalOfServer(c, m.sub) THEN [@[l] EXCEPT !.stale = TRUE] ELSE @[l]]]

(* A correlated error rejects a subscribe; any other is only an event. *)
Rejected(c, m) ==
    LET asked == {p \in c.pendSubs : p[1] = m.req}
    IN [c EXCEPT !.pendSubs = @ \ asked,
                 !.handles = [l \in DOMAIN @ \ {p[2] : p \in asked} |-> @[l]]]

TakeResult(c, m) ==
    IF m.req \in c.calls
    THEN [c EXCEPT !.calls = @ \ {m.req}, !.results[m.req] = @ + 1]
    ELSE c


(* DetachResult: the handles stay, the calls fail. *)
Detached(c) == FailPendingCalls([c EXCEPT !.session.world = None])

(* Once the transport is closed the loop of the pump reads nothing more. *)
Dispatch(c, m) ==
    IF c.tclosed THEN c ELSE
    CASE m.k = "HandshakeResponse" /\ m.ok -> [c EXCEPT !.state = "Connected"]
      [] m.k = "HandshakeResponse" /\ ~m.ok -> [c EXCEPT !.state = "Closed", !.tclosed = TRUE]
      [] m.k = "AuthResult" -> IF m.ok THEN [c EXCEPT !.session = [auth |-> TRUE, world |-> None]]
                               ELSE c
      [] m.k = "AttachResult" -> IF m.ok /\ c.session.auth
                                 THEN [c EXCEPT !.session.world = m.world] ELSE c
      [] m.k = "DetachResult" -> Detached(c)
      [] m.k = "Snapshot" -> ApplySnapshot(c, m)
      [] m.k = "Delta" -> ApplyDelta(c, m)
      [] m.k = "Stale" -> MarkStale(c, m)
      [] m.k = "Error" -> Rejected(c, m)
      [] m.k = "ReducerResult" -> TakeResult(c, m)
      [] m.k = "Disconnect" -> TransitionToClosed(c)
      [] m.k = "TickUpdate" -> c

(* The first n messages, one after the other. *)
Dispatched(c, ms, n) ==
    LET seen[i \in 0..n] == IF i = 0 THEN c ELSE Dispatch(seen[i - 1], ms[i])
    IN seen[n]
-----------------------------------------------------------------------------
(* Operations of the host program *)

Msg(k) == [k |-> k, ok |-> TRUE, req |-> 0, sub |-> None, world |-> None]

OnSocket == sv.medium = "socket"

(* send_frame: refused when the transport is known to be closed, when the  *)
(* peer closed the in-process link (which this call then finds out), and   *)
(* when the queue is full.  A socket whose peer is gone may take it, or    *)
(* breaks; of a broken one the next call finds out that it is closed.      *)
Accepts == /\ ~cl.tclosed /\ ~cl.broken /\ Len(up) < QueueCap
           /\ sv.open \/ OnSocket
MayRefuse == ~Accepts \/ ~sv.open
AfterRefusal(c) ==
    [c EXCEPT !.tclosed = @ \/ c.broken \/ (~OnSocket /\ ~sv.open),
              !.broken = @ \/ (OnSocket /\ ~sv.open /\ Len(up) < QueueCap)]

Sent(m, c) == Accepts /\ up' = Append(up, m) /\ cl' = c
Refused(c) == MayRefuse /\ up' = up /\ cl' = AfterRefusal(c)

(* A request that changes the client by `sent` when its message goes out   *)
(* and by `kept` in any case.                                              *)
Send(m, sent, kept) == Sent(m, sent) \/ Refused(kept)

Fresh(c) == /\ used.connects < MaxConnects
            /\ used' = [connects |-> used.connects + 1, attaches |-> 0]
            /\ \E medium \in Media : sv' = NewEntry(medium)
            /\ down' = <<>>
            /\ up' = <<Msg("Handshake")>>
            /\ cl' = [c EXCEPT !.tclosed = FALSE, !.broken = FALSE]
            /\ UNCHANGED <<nextSub, issued, lost>>

Connect == /\ cl.state \in {"Disconnected", "Closed"}
           /\ Fresh([cl EXCEPT !.state = "Connecting"])

Reconnect == /\ cl.state # "Connected"
             /\ Fresh([Ended(cl) EXCEPT !.state = "Reconnecting"])

Disconnect == /\ cl.state # "Closed"
              /\ cl' = TransitionToClosed(cl)
              /\ sv' = [sv EXCEPT !.open = FALSE]
              /\ UNCHANGED <<up, down, nextSub, used, issued, lost>>

IsConnected == cl.state = "Connected"
IsAttached == IsConnected /\ cl.session.auth /\ cl.session.world # None

Authenticate == /\ IsConnected /\ ~cl.session.auth
                /\ Send(Msg("Authenticate"), cl, cl)
                /\ UNCHANGED <<down, sv, nextSub, used, issued, lost>>

Attach(w) == /\ IsConnected /\ cl.session.auth /\ cl.session.world = None
             /\ used.attaches < MaxAttach
             /\ used' = [used EXCEPT !.attaches = @ + 1]
             /\ Send([Msg("AttachWorld") EXCEPT !.world = w], cl, cl)
             /\ UNCHANGED <<down, sv, nextSub, issued, lost>>

Detach == /\ IsConnected /\ cl.session.world # None
          /\ Send(Msg("DetachWorld"), cl, cl)
          /\ UNCHANGED <<down, sv, nextSub, used, issued, lost>>

(* The ids are taken before the send, which may fail. *)
Subscribe ==
    /\ IsAttached /\ cl.nextReq \in Request /\ cl.nextLocal \in Local
    /\ LET kept == [cl EXCEPT !.nextReq = @ + 1, !.nextLocal = @ + 1]
       IN Send([Msg("Subscribe") EXCEPT !.req = cl.nextReq],
               [kept EXCEPT !.pendSubs = @ \cup {<<cl.nextReq, cl.nextLocal>>},
                            !.handles = WithHandle(@, cl.nextLocal, NewHandle)],
               kept)
    /\ UNCHANGED <<down, sv, nextSub, used, issued, lost>>

Bound(l) == IsConnected /\ l \in Live(cl) /\ cl.handles[l].server # None

Unsubscribe(l) ==
    /\ Bound(l)
    /\ Send([Msg("Unsubscribe") EXCEPT !.sub = cl.handles[l].server],
            [cl EXCEPT !.handles = WithoutHandle(@, l),
                       !.pendSubs = {p \in @ : p[2] # l}],
            cl)
    /\ UNCHANGED <<down, sv, nextSub, used, issued, lost>>

Resync(l) ==
    /\ Bound(l)
    /\ Send([Msg("Resync") EXCEPT !.sub = cl.handles[l].server], cl, cl)
    /\ UNCHANGED <<down, sv, nextSub, used, issued, lost>>

CallReducer ==
    /\ IsAttached /\ Cardinality(cl.calls) < MaxPending /\ cl.nextReq \in Request
    /\ LET kept == [cl EXCEPT !.nextReq = @ + 1]
       IN \/ /\ Sent([Msg("CallReducer") EXCEPT !.req = cl.nextReq],
                     [kept EXCEPT !.calls = @ \cup {cl.nextReq}])
             /\ issued' = issued \cup {cl.nextReq}
          \/ Refused(kept) /\ UNCHANGED issued
    /\ UNCHANGED <<down, sv, nextSub, used, lost>>

(* pump: dispatches what has arrived.  On a socket it then finds the end   *)
(* of the stream, with which messages that arrived together may be lost,   *)
(* or an error, and the end when it is called again.  The in-process link  *)
(* has no end of stream.                                                   *)
AtEnd == OnSocket /\ ~sv.open
CanPump == ~cl.tclosed /\ (down # <<>> \/ AtEnd)
Pump ==
    /\ CanPump
    /\ \E n \in IF cl.broken THEN {0} ELSE IF AtEnd THEN 0..Len(down) ELSE {Len(down)} :
         LET seen == Dispatched(cl, down, n)
         IN \/ (AtEnd => seen.tclosed) /\ cl' = seen
            \/ AtEnd /\ ~seen.tclosed /\ cl' = TransitionToClosed(seen)
            \/ AtEnd /\ ~seen.tclosed /\ ~cl.broken /\ cl' = [seen EXCEPT !.broken = TRUE]
    /\ down' = <<>>
    /\ sv' = [sv EXCEPT !.open = @ /\ ~cl'.tclosed]
    /\ UNCHANGED <<up, nextSub, used, issued, lost>>
-----------------------------------------------------------------------------
(* The gateway, as far as one connection sees it *)

Reply(k, m) == [Msg(k) EXCEPT !.req = m.req]
Refuse(k, m) == [Reply(k, m) EXCEPT !.ok = FALSE]

(* What still goes to a stale session, and what goes by send_direct, which *)
(* the sockets do not have.                                                *)
Signal(m) == m.k \in {"Stale", "Disconnect", "Error"}
Direct(m) == m.k \in {"Snapshot", "Delta"}

(* drop_connection *)
Dropped(s) == [s EXCEPT !.open = FALSE]

(* send and send_direct to entry s with queue d: the entry and queue they  *)
(* may leave.  What does not fit is gone, and the overflow policy marks    *)
(* the session stale or disconnects it.                                    *)
Sends(s, d, m) ==
    IF ~s.open \/ (s.stale /\ ~Signal(m)) \/ (Direct(m) /\ s.medium = "socket") THEN {<<s, d>>}
    ELSE IF Len(d) < QueueCap THEN {<<s, Append(d, m)>>}
    ELSE {<<[s EXCEPT !.stale = TRUE], d>>}
             \cup (IF Direct(m) THEN {} ELSE {<<Dropped(s), d>>})

(* What process_inbound makes of one message: the entry and the answer, if *)
(* there is one.  A rate limit is an Error, with an id for Subscribe only. *)
(* A HandshakeResponse that does not suit the client is of another server. *)
Handled(m) ==
    CASE m.k = "Handshake" -> {<<sv, <<[Msg("HandshakeResponse") EXCEPT !.ok = b]>>>> : b \in BOOLEAN}
      [] m.k = "Authenticate" ->
           {<<sv, <<Msg("Error")>>>>} \cup
           (IF sv.auth THEN {} ELSE {<<[sv EXCEPT !.auth = TRUE], <<Msg("AuthResult")>>>>,
                                     <<sv, <<Refuse("AuthResult", m)>>>>})
      [] m.k = "AttachWorld" ->
           IF ~sv.auth \/ sv.world \notin {None, m.world} THEN {<<sv, <<Msg("Error")>>>>}
           ELSE {<<[sv EXCEPT !.world = m.world], <<[Msg("AttachResult") EXCEPT !.world = m.world]>>>>,
                 <<sv, <<Refuse("AttachResult", m)>>>>}
      [] m.k = "DetachWorld" ->
           IF sv.world = None THEN {<<sv, <<Msg("Error")>>>>}
           ELSE {<<[sv EXCEPT !.world = None, !.subs = {}, !.calls = {}], <<Msg("DetachResult")>>>>}
      [] m.k = "Subscribe" ->
           {<<sv, <<Reply("Error", m)>>>>} \cup
           (IF sv.world = None THEN {}
            ELSE {<<[sv EXCEPT !.subs = @ \cup {nextSub[sv.world]}],
                    <<[Reply("Snapshot", m) EXCEPT !.sub = nextSub[sv.world], !.world = sv.world]>>>>})
      [] m.k = "Unsubscribe" ->
           IF m.sub \in sv.subs THEN {<<[sv EXCEPT !.subs = @ \ {m.sub}], <<>>>>}
           ELSE {<<sv, <<Msg("Error")>>>>}
      [] m.k = "Resync" ->
           {<<sv, <<Msg("Error")>>>>} \cup
           (IF m.sub \notin sv.subs THEN {}
            ELSE {<<[sv EXCEPT !.stale = FALSE],
                    <<[Msg("Snapshot") EXCEPT !.sub = m.sub, !.world = sv.world]>>>>})
      [] m.k = "CallReducer" ->
           {<<sv, <<Msg("Error")>>>>, <<sv, <<Refuse("ReducerResult", m)>>>>} \cup
           (IF sv.world = None THEN {} ELSE {<<[sv EXCEPT !.calls = @ \cup {m.req}], <<>>>>})

(* The client learns that call r is over from its result, from the end of  *)
(* the attachment, or from the end of the connection.                      *)
Tells(m, r) == m.k \in {"DetachResult", "Disconnect"} \/ (m.k = "ReducerResult" /\ m.req = r)

(* Of the given calls, those the gateway has now forgotten without a word. *)
Forgotten(calls) ==
    {r \in calls : /\ sv'.open /\ r \notin sv'.calls
                   /\ \A i \in DOMAIN down' : ~Tells(down'[i], r)}

CanServe == sv.open /\ up # <<>>
Serve ==
    /\ CanServe
    /\ LET m == Head(up)
       IN /\ \E r \in Handled(m) :
               \E o \in IF r[2] = <<>> THEN {<<r[1], down>>} ELSE Sends(r[1], down, r[2][1]) :
                    sv' = o[1] /\ down' = o[2]
          /\ lost' = lost \cup Forgotten(sv.calls \cup
                                         (IF m.k = "CallReducer" THEN {m.req} ELSE {}))
    /\ nextSub' = IF sv'.subs \subseteq sv.subs THEN nextSub
                  ELSE [nextSub EXCEPT ![sv.world] = @ + 1]
    /\ up' = Tail(up)
    /\ UNCHANGED <<cl, used, issued>>

(* The result of a call that a tick ran, or that its world will not run. *)
CanAnswer == sv.open /\ sv.calls # {}
Answer == /\ CanAnswer
          /\ \E r \in sv.calls, b \in BOOLEAN :
               \E o \in Sends([sv EXCEPT !.calls = @ \ {r}], down,
                             [Msg("ReducerResult") EXCEPT !.req = r, !.ok = b]) :
                    sv' = o[1] /\ down' = o[2]
          /\ lost' = lost \cup Forgotten(sv.calls)
          /\ UNCHANGED <<cl, up, nextSub, used, issued>>

(* Updates of a subscription; a notice that it is stale waits for room. *)
Update == /\ sv.open
          /\ \E s \in sv.subs, k \in {"Delta", "Stale"} :
               /\ k = "Stale" => Len(down) < QueueCap
               /\ \E o \in Sends(sv, down, [Msg(k) EXCEPT !.sub = s, !.world = sv.world]) :
                    sv' = o[1] /\ down' = o[2]
          /\ UNCHANGED <<cl, up, nextSub, used, issued, lost>>

(* The broadcast of a tick takes its place in the queue. *)
Broadcast == /\ sv.open /\ sv.world # None
             /\ \E o \in Sends(sv, down, Msg("TickUpdate")) : sv' = o[1] /\ down' = o[2]
             /\ UNCHANGED <<cl, up, nextSub, used, issued, lost>>

(* The gateway disconnects a client, or drops it without a word. *)
Drop == /\ sv.open
        /\ sv' = Dropped(sv)
        /\ \/ UNCHANGED down
           \/ Len(down) < QueueCap /\ down' = Append(down, Msg("Disconnect"))
        /\ UNCHANGED <<cl, up, nextSub, used, issued, lost>>

ClientNext ==
    \/ Connect \/ Reconnect \/ Disconnect \/ Authenticate \/ Detach \/ Subscribe \/ CallReducer
    \/ \E w \in World : Attach(w)
    \/ \E l \in Local : Unsubscribe(l) \/ Resync(l)
    \/ Pump \/ Serve \/ Answer \/ Update \/ Broadcast \/ Drop
    \/ cl.state = "Closed" /\ UNCHANGED clientVars

(* The host pumps in its loop; the gateway dispatches what arrived in each *)
(* round, and answers every call it took (Gateway, CallsAreSettled).  None *)
(* of the three ever waits for another.                                    *)
ClientSpec ==
    /\ ClientInit /\ [][ClientNext]_clientVars
    /\ []<>~CanPump \/ []<><<Pump>>_clientVars
    /\ []<>~CanServe \/ []<><<Serve>>_clientVars
    /\ []<>~CanAnswer \/ []<><<Answer>>_clientVars
-----------------------------------------------------------------------------
(* Properties *)

(* Every call for which the program holds an id is either pending or has   *)
(* exactly one result, whatever ends the attachment or the connection and  *)
(* whatever arrives late.                                                  *)
CallsResolveOnce ==
    \A r \in Request :
        (IF r \in cl.calls THEN 1 ELSE 0) + cl.results[r] = IF r \in issued THEN 1 ELSE 0

(* A client without a connection holds no session, no handle and nothing   *)
(* pending; so a new connection starts with nothing of the old one.        *)
EndedHoldsNothing ==
    cl.state \in {"Disconnected", "Closed", "Connecting", "Reconnecting"} =>
        /\ cl.session = NoSession
        /\ cl.calls = {} /\ cl.pendSubs = {} /\ cl.handles = <<>>

(* A view is made of the updates of its own subscription only: an update   *)
(* finds its handle by the server's number, which other worlds use too     *)
(* (session.rs says of detach "ending its subscriptions").                 *)
ViewsAreOwn ==
    \A l \in Live(cl) :
        cl.handles[l].fed \subseteq {<<cl.handles[l].of, cl.handles[l].server>>}


(* "so callers never hang" (client.rs): every pending call is answered or  *)
(* failed.                                                                 *)
CallersNeverHang == \A r \in Request : r \in cl.calls ~> r \notin cl.calls
=============================================================================
