------------------------------ MODULE Gateway ------------------------------
(***************************************************************************)
(* The network gateway (crates/nexum-network/src/gateway.rs) between       *)
(* clients and the runtime: sessions, subscriptions, reducer calls and     *)
(* their correlation, the bounded outbound queues and the stale policy.    *)
(*                                                                         *)
(* The server thread dispatches inbound frames one by one, steps the       *)
(* worlds and fans the results out; clients receive at any time.  How long *)
(* a frame waits before it is dispatched makes no difference: nothing its  *)
(* sender does meanwhile is visible to the handler, so a frame is sent     *)
(* when it is dispatched.  (The inbound queue is in module Link.)  A       *)
(* query's rows are the number of commits that changed its world: a        *)
(* snapshot carries it, a delta moves it on by one.                        *)
(*                                                                         *)
(* The runtime is what module Runtime makes of it: worlds that run, stop   *)
(* or fail, a queue of calls, and the subscriptions of a world, whose      *)
(* updates the gateway drains in the step that makes them.                 *)
(***************************************************************************)
EXTENDS Integers, FiniteSets, SequencesExt

CONSTANTS
    World,              \* world ids 1 .. n
    Client,             \* connection ids 1 .. n, in the order they register
    Scenes,             \* instances: who starts attached, what each client may
                        \* send and how often, and the bounds below
    Limited,            \* messages that may hit a rate limit
    MaxSubs,            \* bound: subscriptions of a world
    MaxConnections, SessionSubs, PendingCap,    \* NetworkConfig
    OutCap,             \* capacity of a connection's outbound queues
    Direct,             \* the transport passes messages undecoded (memory)
    SkipEmpty,          \* skip_empty_broadcast
    MayFail,            \* a tick may fail, and its world with it
    None

ASSUME GatewayAssumption ==
    /\ IsFiniteSet(World) /\ World = 1 .. Cardinality(World) /\ World # {}
    /\ IsFiniteSet(Client) /\ Client = 1 .. Cardinality(Client)
    /\ {MaxConnections, SessionSubs, PendingCap, OutCap} \subseteq Nat \ {0}
    /\ MaxSubs \in Nat
    /\ \A x \in Scenes :
          /\ x.boot \subseteq Client /\ x.boot = 1 .. Cardinality(x.boot)
          /\ x.budget \in [Client -> Nat]
          /\ x.policy \in {"Stale", "Disconnect"}   \* OutboundOverflowPolicy
          /\ x.versions \in Nat     \* bound: commits that change a world
          /\ x.control \in Nat      \* bound: control-plane operations
          /\ \A c \in Client : \A m \in x.menu[c] :
                /\ m.op = "attach" => m.world \in World
                /\ m.op = "call" => m.id \in Nat
    /\ None \notin Nat
    /\ Limited \subseteq {"auth", "input", "subscribe", "resync", "call"}

VARIABLES
    scene,      \* the instance
    gw,         \* the gateway, with the outbound queues and runtime tables it feeds
    worlds,     \* the runtime's worlds: state and number of changing commits
    registered, \* connection ids given out
    sent,       \* messages each client has sent
    clients,    \* what each client knows
    issued,     \* history: every call handed to the runtime
    outcome,    \* history: what became of each issued call in the runtime
    robbed,     \* history: stale notices dropped by another subscription's resync
    ops,        \* control-plane operations so far
    beat        \* the parity of the server loop's iterations

gvars == <<scene, gw, worlds, registered, sent, clients, issued, outcome, robbed, ops, beat>>

SubId == 0 .. MaxSubs - 1

MaxCalls == 4     \* no scene makes more

FirstWorld == 1

\* A session (struct ConnectionEntry).
Connection == [auth : BOOLEAN, world : World \cup {None}, subs : SUBSET SubId,
               stale : BOOLEAN, notices : Seq(SubId)]

ASSUME ConnectionAssumption == None \notin Connection

\* The numbers of a finite set in ascending order.
Ascending(S) ==
    [i \in 1 .. Cardinality(S) |-> CHOOSE x \in S : Cardinality({y \in S : y < x}) = i - 1]

\* Vec::retain: the elements of s at the given places.
Retain(s, places) == [i \in 1 .. Cardinality(places) |-> s[Ascending(places)[i]]]

-----------------------------------------------------------------------------
(* Messages to the client.                                                 *)

Ok == [kind |-> "ok"]
Tick == [kind |-> "tick"]
Bye == [kind |-> "bye"]
Error == [kind |-> "error"]
Result(id, gid, ok) == [kind |-> "result", id |-> id, gid |-> gid, ok |-> ok]
Snapshot(s, v) == [kind |-> "snapshot", sub |-> s, v |-> v]
Delta(s, v) == [kind |-> "delta", sub |-> s, v |-> v]
Stale(s) == [kind |-> "stale", sub |-> s]

\* A call's result; refusals are results too, of no call.
IsResult(m) == m.kind = "result" /\ m.gid # 0

\* is_stale_signal: what still goes to a stale session.
Signal(m) == m.kind \in {"stale", "bye", "error"}

-----------------------------------------------------------------------------
(* Outbound: operators from a gateway to a gateway.                        *)

NewConnection == [auth |-> FALSE, world |-> None, subs |-> {}, stale |-> FALSE,
                  notices |-> <<>>]

Open(g, c) == g.conns[c] # None

Room(g, c) ==
    IF g.out[c].closed THEN 0
    ELSE OutCap - Len(g.out[c].frames) - Len(g.out[c].msgs)

PushFrame(g, c, m) == [g EXCEPT !.out[c].frames = Append(@, m)]

PushMessage(g, c, m) == [g EXCEPT !.out[c].msgs = Append(@, m)]

Without(g, c, subs) ==
    [g EXCEPT !.subscribers = [w \in World |->
                  Retain(@[w], {i \in DOMAIN @[w] : ~(@[w][i][1] = c /\ @[w][i][2] \in subs)})],
              !.live = IF g.conns[c].world = None THEN @
                       ELSE @ \ {<<g.conns[c].world, s>> : s \in subs}]

\* Pending calls die with the attachment, unanswered.
WithoutCalls(g, c) ==
    [g EXCEPT !.pending = [gid \in {i \in DOMAIN @ : @[i].conn # c} |-> @[gid]],
              !.pendingBy[c] = {}]

\* Mutant: the world's attached set keeps the connection.
LeftAttached(g, c) == g

LeftWorld(g, c) == [g EXCEPT !.attached = [w \in World |-> @[w] \ {c}]]

\* drop_connection: idempotent, and the transport is closed.
DropConnection(g, c) ==
    IF ~Open(g, c) THEN g
    ELSE LET left == LeftWorld(WithoutCalls(Without(g, c, g.conns[c].subs), c), c)
         IN  [left EXCEPT !.conns[c] = None, !.out[c].closed = TRUE]

\* disconnect: the reason is sent if there is room.
Disconnect(g, c) ==
    DropConnection(IF Open(g, c) /\ Room(g, c) > 0 THEN PushFrame(g, c, Bye) ELSE g, c)

\* The session fell behind: one notice for each of its subscriptions.
MarkStale(g, c) ==
    IF g.conns[c].stale THEN g
    ELSE [g EXCEPT !.conns[c].stale = TRUE,
                   !.conns[c].notices = @ \o Ascending(g.conns[c].subs)]

\* Mutant: a stale session is sent nothing at all.
FlushUnlessStale(g, c) == g

\* Notices go out first, as frames, as far as there is room.
FlushNotices(g, c) ==
    LET n == Len(g.conns[c].notices)
        k == IF Room(g, c) < n THEN Room(g, c) ELSE n
    IN  [g EXCEPT !.out[c].frames = @ \o [i \in 1 .. k |-> Stale(g.conns[c].notices[i])],
                  !.conns[c].notices = SubSeq(@, k + 1, n)]

SendEncoded(g, c, m) ==
    IF ~Open(g, c) THEN g
    ELSE LET f == FlushNotices(g, c)
         IN  IF f.conns[c].stale /\ ~Signal(m) THEN f
             ELSE IF Room(f, c) > 0 THEN PushFrame(f, c, m)
             ELSE IF f.out[c].closed THEN DropConnection(f, c)
             ELSE IF scene.policy = "Disconnect" THEN Disconnect(f, c)
             ELSE MarkStale(f, c)

Send(g, c, m) ==
    IF ~Open(g, c) THEN g
    ELSE LET f == FlushNotices(g, c)
         IN  IF f.conns[c].stale /\ ~Signal(m) THEN f
             ELSE IF Direct /\ Room(f, c) > 0 THEN PushMessage(f, c, m)
             ELSE SendEncoded(f, c, m)

\* Mutant: a stale session is sent deltas again once there is room.
SendDirectAnyway(g, c, m) ==
    IF ~Open(g, c) \/ ~Direct \/ g.out[c].closed THEN g
    ELSE IF Room(g, c) = 0 THEN MarkStale(g, c) ELSE PushMessage(g, c, m)

\* send_direct, the path of subscription updates: no flush, no policy, and an
\* error of the transport other than a full queue is forgotten.
SendDirect(g, c, m) ==
    IF ~Open(g, c) \/ ~Direct \/ g.out[c].closed \/ g.conns[c].stale THEN g
    ELSE IF Room(g, c) = 0 THEN MarkStale(g, c) ELSE PushMessage(g, c, m)

-----------------------------------------------------------------------------
(* The system's start, clients and connections.                            *)

GInit ==
    /\ scene \in Scenes
    /\ gw = [conns |-> [c \in Client |->
                 IF c \in scene.boot THEN [NewConnection EXCEPT !.auth = TRUE, !.world = FirstWorld]
                 ELSE None],
             out |-> [c \in Client |-> [frames |-> <<>>, msgs |-> <<>>, closed |-> FALSE]],
             pending |-> <<>>, pendingBy |-> [c \in Client |-> {}],
             attached |-> [w \in World |-> IF w = FirstWorld THEN scene.boot ELSE {}],
             subscribers |-> [w \in World |-> <<>>],
             live |-> {}, nextSub |-> [w \in World |-> 0],
             queue |-> [w \in World |-> <<>>]]
    /\ worlds = [w \in World |-> [state |-> "Running", v |-> 0]]
    /\ registered = Cardinality(scene.boot)
    /\ sent = [c \in Client |-> 0]
    /\ clients = [c \in Client |-> [marked |-> {},
                                    view |-> [s \in SubId |-> None],
                                    got |-> <<>>]]
    /\ issued = <<>> /\ outcome = <<>> /\ robbed = {} /\ ops = 0 /\ beat = FALSE

\* register_connection: ids are never used again.
RegisterConnection ==
    /\ registered < Cardinality(Client) /\ scene.budget[registered + 1] > 0
    /\ Cardinality({c \in Client : Open(gw, c)}) < MaxConnections
    /\ registered' = registered + 1
    /\ gw' = [gw EXCEPT !.conns[registered + 1] = NewConnection]
    /\ UNCHANGED <<worlds, sent, clients, issued, outcome, robbed, ops>>

ClientClose(c) ==
    /\ c <= registered /\ ~gw.out[c].closed
    /\ gw' = [gw EXCEPT !.out[c].closed = TRUE]
    /\ UNCHANGED <<worlds, registered, sent, clients, issued, outcome, robbed, ops>>

\* The client replays what it is sent; -1 is a view that missed a delta.
Replayed(k, m) ==
    CASE m.kind = "snapshot" -> [k EXCEPT !.view[m.sub] = m.v, !.marked = @ \ {m.sub}]
      [] m.kind = "delta" ->
            [k EXCEPT !.view[m.sub] = IF @ = None THEN None ELSE IF @ = m.v - 1 THEN m.v ELSE -1]
      [] m.kind = "stale" -> [k EXCEPT !.marked = @ \cup {m.sub}]
      [] IsResult(m) -> [k EXCEPT !.got = Append(@, m)]
      [] OTHER -> k

\* try_recv_any_combined: direct messages before frames.
ClientReceive(c) ==
    /\ LET out == gw.out[c]
       IN  \/ /\ out.msgs # <<>>
              /\ clients' = [clients EXCEPT ![c] = Replayed(@, Head(out.msgs))]
              /\ gw' = [gw EXCEPT !.out[c].msgs = Tail(@)]
           \/ /\ out.msgs = <<>> /\ out.frames # <<>>
              /\ clients' = [clients EXCEPT ![c] = Replayed(@, Head(out.frames))]
              /\ gw' = [gw EXCEPT !.out[c].frames = Tail(@)]
    /\ UNCHANGED <<worlds, registered, sent, issued, outcome, robbed, ops>>

-----------------------------------------------------------------------------
(* Dispatch.  A frame of a connection that was dropped after the frame was *)
(* collected is still dispatched, and finds no session: nothing happens.   *)

Arrives(c, m, op) ==
    /\ m.op = op /\ Open(gw, c) /\ sent[c] < scene.budget[c]
    /\ sent' = [sent EXCEPT ![c] = @ + 1]

Session(c) == Open(gw, c) /\ gw.conns[c].auth
Attached(c) == Session(c) /\ gw.conns[c].world # None
WorldOf(c) == gw.conns[c].world

Answer(c, m) == gw' = Send(gw, c, m)

\* A frame that does not decode, or a handshake with another version.
Violate(c, m) ==
    /\ Arrives(c, m, "violate")
    /\ \/ gw' = DropConnection(Send(gw, c, Error), c)
       \/ gw' = Disconnect(Send(gw, c, Error), c)
    /\ UNCHANGED <<worlds, registered, clients, issued, outcome, robbed, ops>>

\* Handshake and Ping.
Ping(c, m) ==
    /\ Arrives(c, m, "ping") /\ Answer(c, Ok)
    /\ UNCHANGED <<worlds, registered, clients, issued, outcome, robbed, ops>>

\* The rate window is exhausted: an Error without the request's id.
RateLimited(c, m) ==
    /\ m.op \in Limited /\ Arrives(c, m, m.op) /\ Answer(c, Error)
    /\ UNCHANGED <<worlds, registered, clients, issued, outcome, robbed, ops>>

Authenticate(c, m) ==
    /\ Arrives(c, m, "auth")
    /\ \/ Session(c) /\ Answer(c, Error)
       \/ /\ ~Session(c)
          /\ gw' = Send([gw EXCEPT !.conns[c].auth = TRUE], c, Ok)
       \/ ~Session(c) /\ Answer(c, Ok)       \* a failed AuthResult
    /\ UNCHANGED <<worlds, registered, clients, issued, outcome, robbed, ops>>

AttachWorld(c, m) ==
    /\ Arrives(c, m, "attach")
    /\ \/ ~Session(c) /\ Answer(c, Error)
       \/ Attached(c) /\ Answer(c, IF WorldOf(c) = m.world THEN Ok ELSE Error)
       \/ /\ Session(c) /\ ~Attached(c) /\ worlds[m.world].state # "Gone"
          /\ gw' = Send([gw EXCEPT !.conns[c].world = m.world,
                                   !.attached[m.world] = @ \cup {c}], c, Ok)
       \/ Session(c) /\ ~Attached(c) /\ Answer(c, Ok)   \* unknown world or not authorized
    /\ UNCHANGED <<worlds, registered, clients, issued, outcome, robbed, ops>>

\* Accepted input is silent; a rejected frame is an Error.
Input(c, m) ==
    /\ Arrives(c, m, "input")
    /\ \/ Attached(c) /\ worlds[WorldOf(c)].state = "Running" /\ UNCHANGED gw
       \/ Answer(c, Error)
    /\ UNCHANGED <<worlds, registered, clients, issued, outcome, robbed, ops>>

\* The Initial snapshot goes out at once.  A connection that is stale already
\* gets none.
Subscribe(c, m) ==
    /\ Arrives(c, m, "subscribe")
    /\ IF Attached(c) /\ Cardinality(gw.conns[c].subs) < SessionSubs
          /\ worlds[WorldOf(c)].state # "Gone"
       THEN /\ gw.nextSub[WorldOf(c)] < MaxSubs
            /\ LET s     == gw.nextSub[WorldOf(c)]
                   added == [gw EXCEPT !.conns[c].subs = @ \cup {s},
                                       !.subscribers[WorldOf(c)] = Append(@, <<c, s>>),
                                       !.live = @ \cup {<<WorldOf(c), s>>},
                                       !.nextSub[WorldOf(c)] = s + 1]
               IN  gw' = SendDirect(added, c, Snapshot(s, worlds[WorldOf(c)].v))
       ELSE Answer(c, Error)
    /\ UNCHANGED <<worlds, registered, clients, issued, outcome, robbed, ops>>

Unsubscribe(c, m) ==
    /\ Arrives(c, m, "unsubscribe")
    /\ IF m.sub \in gw.conns[c].subs
       THEN gw' = [Without(gw, c, {m.sub}) EXCEPT !.conns[c].subs = @ \ {m.sub}]
       ELSE Answer(c, Error)
    /\ UNCHANGED <<worlds, registered, clients, issued, outcome, robbed, ops>>

\* Resync of one subscription clears the mark and the notices of all.
ClearStale(k) == [k EXCEPT !.stale = FALSE, !.notices = <<>>]

Resync(c, m) ==
    /\ Arrives(c, m, "resync") /\ clients[c].view[m.sub] # None
    /\ IF m.sub \in gw.conns[c].subs
       THEN LET cleared == [gw EXCEPT !.conns[c] = ClearStale(@)]
            IN  /\ gw' = IF worlds[WorldOf(c)].state = "Gone" THEN Send(cleared, c, Error)
                         ELSE SendDirect(cleared, c, Snapshot(m.sub, worlds[WorldOf(c)].v))
                /\ robbed' = robbed \cup
                      {<<c, s>> : s \in ToSet(gw.conns[c].notices) \ {m.sub}}
       ELSE Answer(c, Error) /\ UNCHANGED robbed
    /\ UNCHANGED <<worlds, registered, clients, issued, outcome, ops>>

DetachWorld(c, m) ==
    /\ Arrives(c, m, "detach")
    /\ IF Attached(c)
       THEN LET k    == gw.conns[c]
                left == LeftWorld(WithoutCalls(Without(gw, c, k.subs), c), c)
            IN  gw' = Send([left EXCEPT !.conns[c].subs = {}, !.conns[c].world = None],
                           c, Ok)
       ELSE Answer(c, Error)
    /\ UNCHANGED <<worlds, registered, clients, issued, outcome, robbed, ops>>

\* Mutant: the pending call is found by the client's own id.
KeyByClientId(id, gid) == id

\* pending_calls is keyed by the id the gateway allocated.
CallKey(id, gid) == gid

\* The call is pending and in the queue of the session's world.
Enqueued(g, c, id, key, gid) ==
    LET call == [conn |-> c, id |-> id, world |-> g.conns[c].world, gid |-> gid]
    IN  [g EXCEPT !.pending = [k \in DOMAIN @ \cup {key} |-> IF k = key THEN call ELSE @[k]],
                  !.pendingBy[c] = @ \cup {id},
                  !.queue[g.conns[c].world] = Append(@, [key |-> key, gid |-> gid])]

\* handle_call_reducer.  The runtime takes the call while the world runs.
CallReducer(c, m) ==
    /\ Arrives(c, m, "call")
    /\ LET gid == Len(issued) + 1
       IN  \/ /\ Attached(c) /\ worlds[WorldOf(c)].state = "Running"
              /\ Cardinality(gw.pendingBy[c]) < PendingCap
              /\ m.id \notin gw.pendingBy[c]
              /\ gw' = Enqueued(gw, c, m.id, CallKey(m.id, gid), gid)
              /\ issued' = Append(issued, [conn |-> c, id |-> m.id, world |-> WorldOf(c)])
              /\ outcome' = Append(outcome, "queued")
           \/ Answer(c, Result(m.id, 0, FALSE)) /\ UNCHANGED <<issued, outcome>>
    /\ UNCHANGED <<worlds, registered, clients, robbed, ops>>

-----------------------------------------------------------------------------
(* Stepping the worlds, and the fan-out of the results.                    *)

Broadcast(g, w) ==
    LET told[c \in 0 .. Cardinality(Client)] ==
            IF c = 0 THEN g
            ELSE IF c \in g.attached[w] THEN SendEncoded(told[c - 1], c, Tick)
            ELSE told[c - 1]
    IN  told[Cardinality(Client)]

\* drain_all_pending, handed out along the world's subscriber list.
Deltas(g, w, v) ==
    LET told[i \in 0 .. Len(g.subscribers[w])] ==
            IF i = 0 THEN g
            ELSE SendDirect(told[i - 1], g.subscribers[w][i][1], Delta(g.subscribers[w][i][2], v))
    IN  told[Len(g.subscribers[w])]

\* A pending call is answered; one nobody waits for is ignored.
Settle(g, key, gid, ok) ==
    IF key \notin DOMAIN g.pending THEN g
    ELSE LET p    == g.pending[key]
             rest == [g EXCEPT !.pending = [k \in DOMAIN @ \ {key} |-> @[k]],
                               !.pendingBy[p.conn] = @ \ {p.id}]
         IN  Send(rest, p.conn, Result(p.id, gid, ok))

\* The runtime's results in call order.
Results(g, w) ==
    LET done[i \in 0 .. Len(g.queue[w])] ==
            IF i = 0 THEN g
            ELSE Settle(done[i - 1], g.queue[w][i].key, g.queue[w][i].gid, TRUE)
    IN  [done[Len(g.queue[w])] EXCEPT !.queue[w] = <<>>]

FanOut(g, w, changed, eventful) ==
    LET told == IF eventful \/ ~SkipEmpty THEN Broadcast(g, w) ELSE g
        done == IF changed THEN Deltas(told, w, worlds[w].v + 1) ELSE told
    IN  Results(done, w)

\* Mutant: only the calls of failed worlds are answered.
DeadFailed(state) == state \in {"Failed", "Gone"}

\* The health sweep: these worlds will not produce a result.
Dead(state) == state # "Running"

\* Mutant: the calls of a dead world are forgotten.
SweptQuietly(g, key, after) ==
    IF key \in DOMAIN g.pending /\ Dead(after[g.pending[key].world].state)
    THEN WithoutCalls(g, g.pending[key].conn) ELSE g

Swept(g, key, after) ==
    IF key \in DOMAIN g.pending /\ Dead(after[g.pending[key].world].state)
    THEN Settle(g, key, g.pending[key].gid, FALSE) ELSE g

Sweep(g, after) ==
    LET swept[key \in 0 .. Len(issued)] ==
            IF key = 0 THEN g ELSE Swept(swept[key - 1], key, after)
    IN  swept[Len(issued)]

RunningWorlds == {w \in World : worlds[w].state = "Running"}

\* fan_out_results, world after world.
FannedOut(done, changed, eventful) ==
    LET after[w \in 0 .. Cardinality(World)] ==
            IF w = 0 THEN gw
            ELSE IF w \in done THEN FanOut(after[w - 1], w, w \in changed, eventful)
            ELSE after[w - 1]
    IN  after[Cardinality(World)]

\* step_worlds.  tick[w]: the tick of a running world changes rows, changes
\* nothing, or fails; eventful: it emits events.  A failed tick keeps its calls
\* queued and takes the world out of service.
StepWorlds(tick, eventful) ==
    /\ \A w \in RunningWorlds :
          /\ tick[w] = "changed" => worlds[w].v < scene.versions
          /\ tick[w] = "failed" => MayFail
    /\ \A w \in World \ RunningWorlds : tick[w] = "quiet"
    /\ worlds' = [w \in World |->
          IF w \notin RunningWorlds THEN worlds[w]
          ELSE CASE tick[w] = "changed" -> [worlds[w] EXCEPT !.v = @ + 1]
                 [] tick[w] = "failed" -> [worlds[w] EXCEPT !.state = "Failed"]
                 [] OTHER -> worlds[w]]
    /\ LET done == {w \in RunningWorlds : tick[w] # "failed"}
       IN  /\ gw' = Sweep(FannedOut(done, {w \in done : tick[w] = "changed"}, eventful), worlds')
           /\ outcome' = [gid \in DOMAIN outcome |->
                 IF \E w \in done : \E i \in DOMAIN gw.queue[w] : gw.queue[w][i].gid = gid
                 THEN "ran" ELSE outcome[gid]]
    /\ UNCHANGED <<registered, sent, clients, issued, robbed, ops>>

\* The control plane stops, restarts and destroys worlds; a stopped world keeps
\* its queue.
Stop(w) ==
    /\ ops < scene.control /\ worlds[w].state = "Running"
    /\ worlds' = [worlds EXCEPT ![w].state = "Stopped"] /\ ops' = ops + 1
    /\ UNCHANGED <<gw, registered, sent, clients, issued, outcome, robbed>>

Start(w) ==
    /\ ops < scene.control /\ worlds[w].state = "Stopped"
    /\ worlds' = [worlds EXCEPT ![w].state = "Running"] /\ ops' = ops + 1
    /\ UNCHANGED <<gw, registered, sent, clients, issued, outcome, robbed>>

Destroy(w) ==
    /\ ops < scene.control /\ worlds[w].state # "Gone"
    /\ worlds' = [worlds EXCEPT ![w].state = "Gone"] /\ ops' = ops + 1
    /\ gw' = [gw EXCEPT !.queue[w] = <<>>, !.live = {p \in @ : p[1] # w}]
    /\ UNCHANGED <<registered, sent, clients, issued, outcome, robbed>>

Dispatch(c, m) ==
    \/ Violate(c, m) \/ Ping(c, m) \/ RateLimited(c, m) \/ Authenticate(c, m)
    \/ AttachWorld(c, m) \/ Input(c, m) \/ Subscribe(c, m) \/ Unsubscribe(c, m)
    \/ Resync(c, m) \/ DetachWorld(c, m) \/ CallReducer(c, m)

AnyStep ==
    \E tick \in [World -> {"changed", "quiet", "failed"}], eventful \in BOOLEAN :
        StepWorlds(tick, eventful) /\ beat' = ~beat

GNext ==
    /\ \/ AnyStep
       \/ /\ \/ RegisterConnection
             \/ \E c \in Client : ClientClose(c) \/ ClientReceive(c)
                                  \/ \E m \in scene.menu[c] : Dispatch(c, m)
             \/ \E w \in World : Stop(w) \/ Start(w) \/ Destroy(w)
          /\ UNCHANGED beat
    /\ UNCHANGED scene

\* The server loop goes round for ever (a step of the worlds is always possible,
\* and only it flips the parity), and a client keeps reading.
GFairness ==
    /\ WF_beat(beat' = ~beat)
    /\ \A c \in Client : WF_gvars(ClientReceive(c) /\ UNCHANGED <<scene, beat>>)

GSpec == GInit /\ [][GNext]_gvars /\ GFairness

-----------------------------------------------------------------------------
(* Properties.                                                             *)

GatewayTypeOK ==
    /\ \A c \in Client :
          /\ Len(gw.out[c].frames) + Len(gw.out[c].msgs) <= OutCap
          /\ Open(gw, c) => /\ gw.conns[c].world \in World \cup {None}
                            /\ Cardinality(gw.conns[c].subs) <= SessionSubs
          /\ Cardinality(gw.pendingBy[c]) <= PendingCap
    /\ Cardinality({c \in Client : Open(gw, c)}) <= MaxConnections

\* The gateway's indexes tell one story in every order of attach, detach,
\* subscribe, call, overflow, disconnect and world failure: the attached sets
\* are the sessions' worlds, the subscriber lists and the runtime's live
\* subscriptions are the sessions' subscriptions (none leaks when a connection
\* is dropped), and pending_by_connection is pending_calls (gateway.rs, "kept in
\* lockstep").
IndexesAgree ==
    /\ \A w \in World : gw.attached[w] = {c \in Client : Open(gw, c) /\ gw.conns[c].world = w}
    /\ \A w \in World :
          LET held == {p \in Client \X SubId :
                          /\ Open(gw, p[1]) /\ gw.conns[p[1]].world = w
                          /\ p[2] \in gw.conns[p[1]].subs}
          IN  /\ ToSet(gw.subscribers[w]) = held
              /\ Len(gw.subscribers[w]) = Cardinality(held)
              /\ worlds[w].state # "Gone" =>
                    {p[2] : p \in {q \in gw.live : q[1] = w}} = {p[2] : p \in held}
    /\ \A c \in Client :
          gw.pendingBy[c] = {gw.pending[k].id : k \in {j \in DOMAIN gw.pending :
                                                         gw.pending[j].conn = c}}

\* All the results a client has received, and what it will receive.
Inbox(c) == clients[c].got \o gw.out[c].msgs \o gw.out[c].frames

\* A result goes to the connection that made the call, under that call's id, and
\* no call has two: not after a detach and a call with the same id, not when a
\* stopped world is restarted and runs a call that was already answered
\* (pending_calls, fan_out_results).
AnswersAreOwn ==
    \A c \in Client : \A i \in DOMAIN Inbox(c) :
        LET m == Inbox(c)[i]
        IN  IsResult(m) =>
                /\ issued[m.gid].conn = c /\ issued[m.gid].id = m.id
                /\ \A j \in DOMAIN Inbox(c) :
                      IsResult(Inbox(c)[j]) /\ Inbox(c)[j].gid = m.gid => i = j

\* When nothing is on its way to a client, each view it holds is what the world
\* holds, or the client was told that it is stale: an overflow, a burst of
\* deltas to a full queue or a late notice never leaves a view silently behind.
\* (Exempt: a view whose notice another subscription's resync cleared.)
LossIsAnnounced ==
    \A c \in Client :
        Open(gw, c) /\ gw.conns[c].world # None /\ ~gw.out[c].closed
        /\ worlds[gw.conns[c].world].state # "Gone" /\ gw.out[c].frames = <<>> /\ gw.out[c].msgs = <<>> =>
            \A s \in gw.conns[c].subs :
                \/ clients[c].view[s] \in {None, worlds[gw.conns[c].world].v}
                \/ s \in clients[c].marked
                \/ s \in ToSet(gw.conns[c].notices)
                \/ <<c, s>> \in robbed

\* Every call the runtime accepted stops being pending, answered or not, also
\* when its world stops, fails or is destroyed with the call queued: step_worlds
\* sweeps what fan_out_results will never reach.
CallsAreSettled ==
    \A k \in 1 .. MaxCalls :
        (k \in DOMAIN gw.pending) ~> (k \notin DOMAIN gw.pending)

HasResult(c, gid) ==
    \E i \in DOMAIN Inbox(c) : IsResult(Inbox(c)[i]) /\ Inbox(c)[i].gid = gid

\* A call ends with its result on the way to its caller, whether its world ran
\* it or died, and however many other results, deltas and broadcasts of the same
\* step compete for the queue.  Only a caller that is gone, has left the world
\* or has fallen behind gets none: the result of a stale session, or the one
\* that finds its queue full, is dropped (fan_out_results, send).
EndedCallsAreAnswered ==
    [][\A c \in Client, k \in DOMAIN gw.pending \ DOMAIN gw'.pending :
          gw.pending[k].conn = c =>
              \/ ~Open(gw', c)
              \/ gw'.conns[c].world # gw.pending[k].world
              \/ gw'.conns[c].stale
              \/ \E gid \in DOMAIN issued : gid = gw.pending[k].gid /\ HasResult(c, gid)']_gvars

\* While the world runs, a queued stale notice reaches the outbound queue.
NoticesGoOut ==
    \A c \in Client :
        (Open(gw, c) /\ gw.conns[c].notices # <<>>) ~>
            \/ ~Open(gw, c) \/ gw.out[c].closed
            \/ gw.conns[c].notices = <<>>
            \/ gw.conns[c].world = None
            \/ worlds[gw.conns[c].world].state # "Running"

\* "every reducer call receives exactly one ReducerResult": at least when its
\* connection stays open and attached.
CallsAreAnswered ==
    \A gid \in DOMAIN issued :
        LET c == issued[gid].conn
        IN  \/ ~Open(gw, c) \/ gw.conns[c].world # issued[gid].world
            \/ \E k \in DOMAIN gw.pending : gw.pending[k].gid = gid
            \/ HasResult(c, gid)

\* A call answered with "could not commit" has not committed.
RefusedCallsDoNotRun ==
    \A c \in Client : \A i \in DOMAIN Inbox(c) :
        IsResult(Inbox(c)[i]) /\ ~Inbox(c)[i].ok => outcome[Inbox(c)[i].gid] # "ran"
=============================================================================
