--------------------------- MODULE GatewayProofs ---------------------------
(***************************************************************************)
(* Proofs about the gateway, for any number of worlds, connections,        *)
(* subscriptions, calls and control operations, every transport and both   *)
(* overflow policies: its indexes agree with its sessions (IndexesAgree),  *)
(* and a result goes to the connection that made the call, once            *)
(* (AnswersAreOwn).                                                        *)
(*                                                                         *)
(* The argument: a gateway is Sound when its indexes tell one story,       *)
(* every pending call is the one the runtime was given under its key and   *)
(* has no result yet, and every result in an outbound queue or a client's  *)
(* hands belongs to a call of that client that is not pending.  Every      *)
(* operator that the handlers are built from maps a sound gateway to a     *)
(* sound one; so does every round of every loop, whatever the rounds       *)
(* before it dropped or disconnected.                                      *)
(***************************************************************************)
EXTENDS Gateway, Induction, SequenceTheorems, FiniteSetTheorems

-----------------------------------------------------------------------------
(* Types. *)

Message ==
    {Ok, Tick, Bye, Error}
    \cup [kind : {"result"}, id : Nat, gid : Nat, ok : BOOLEAN]
    \cup [kind : {"snapshot", "delta"}, sub : SubId, v : Nat]
    \cup [kind : {"stale"}, sub : SubId]

(* Both queues of a connection share the capacity. *)
Outbox == {o \in [frames : Seq(Message), msgs : Seq(Message), closed : BOOLEAN] :
              Len(o.frames) + Len(o.msgs) <= OutCap}
PendingCall == [conn : Client, id : Nat, world : World, gid : Nat]
QueuedCall == [key : Nat, gid : Nat]

Gateways ==
    [conns       : [Client -> Connection \cup {None}],
     out         : [Client -> Outbox],
     pending     : UNION {[keys -> PendingCall] : keys \in SUBSET Nat},
     pendingBy   : [Client -> SUBSET Nat],
     attached    : [World -> SUBSET Client],
     subscribers : [World -> Seq(Client \X SubId)],
     live        : SUBSET (World \X SubId),
     nextSub     : [World -> 0 .. MaxSubs],
     queue       : [World -> Seq(QueuedCall)]]

Issued == [conn : Client, id : Nat, world : World]
Clients == [Client -> [marked : SUBSET SubId, view : [SubId -> Int \cup {None}],
                       got : Seq(Message)]]
Worlds == [World -> [state : {"Running", "Stopped", "Failed", "Gone"}, v : Nat]]

-----------------------------------------------------------------------------
(* The inductive invariant. *)

(* The session of connection c holds subscription s of world w. *)
Holds(g, c, w, s) == Open(g, c) /\ g.conns[c].world = w /\ s \in g.conns[c].subs

AttachedIs(g) ==
    \A w \in World, c \in Client :
        c \in g.attached[w] <=> Open(g, c) /\ g.conns[c].world = w

Listed(g, w, c, s) == \E i \in DOMAIN g.subscribers[w] : g.subscribers[w][i] = <<c, s>>

SubscribersAre(g) ==
    \A w \in World :
        /\ \A c \in Client, s \in SubId : Listed(g, w, c, s) <=> Holds(g, c, w, s)
        /\ \A i, j \in DOMAIN g.subscribers[w] :
              g.subscribers[w][i] = g.subscribers[w][j] => i = j

(* A subscription has one holder, and the runtime gave its id out. *)
SubsAreOwn(g) ==
    /\ \A c \in Client : Open(g, c) /\ g.conns[c].world = None => g.conns[c].subs = {}
    /\ \A w \in World, c \in Client, s \in SubId : Holds(g, c, w, s) => s < g.nextSub[w]
    /\ \A w \in World, c, d \in Client, s \in SubId :
          Holds(g, c, w, s) /\ Holds(g, d, w, s) => c = d

LiveIs(g, gone) ==
    \A w \in World \ gone, s \in SubId :
        <<w, s>> \in g.live <=> \E c \in Client : Holds(g, c, w, s)

PendingIs(g) ==
    /\ \A k \in DOMAIN g.pending : g.pending[k].id \in g.pendingBy[g.pending[k].conn]
    /\ \A c \in Client : \A id \in g.pendingBy[c] :
          \E k \in DOMAIN g.pending : g.pending[k].conn = c /\ g.pending[k].id = id
    /\ \A j, k \in DOMAIN g.pending :
          g.pending[j].conn = g.pending[k].conn /\ g.pending[j].id = g.pending[k].id => j = k

(* Connection ids above reg were not given out. *)
Unopened(g, reg) == \A c \in Client : c > reg => ~Open(g, c)

Indexed(g, gone, reg) ==
    AttachedIs(g) /\ SubscribersAre(g) /\ SubsAreOwn(g) /\ LiveIs(g, gone) /\ PendingIs(g)
    /\ Unopened(g, reg)

Boxes == {"got", "msgs", "frames"}

Box(g, cl, c, b) ==
    IF b = "got" THEN cl[c].got ELSE IF b = "msgs" THEN g.out[c].msgs ELSE g.out[c].frames

(* Pending and queued calls are calls the runtime was given, by key. *)
CallsAre(g, iss) ==
    /\ \A k \in DOMAIN g.pending :
          /\ k \in 1 .. Len(iss) /\ g.pending[k].gid = k
          /\ iss[k].conn = g.pending[k].conn /\ iss[k].id = g.pending[k].id
    /\ \A w \in World : \A i \in DOMAIN g.queue[w] :
          /\ g.queue[w][i].key = g.queue[w][i].gid
          /\ g.queue[w][i].gid \in 1 .. Len(iss)

(* The result m is one of a call of c that is not pending. *)
Answers(g, iss, c, m) ==
    /\ m.gid \in 1 .. Len(iss) /\ m.gid \notin DOMAIN g.pending
    /\ iss[m.gid].conn = c /\ iss[m.gid].id = m.id

AnswersAre(g, cl, iss) ==
    \A c \in Client, b \in Boxes : \A i \in DOMAIN Box(g, cl, c, b) :
        IsResult(Box(g, cl, c, b)[i]) => Answers(g, iss, c, Box(g, cl, c, b)[i])

AnsweredOnce(g, cl) ==
    \A c \in Client, a, b \in Boxes :
        \A i \in DOMAIN Box(g, cl, c, a), j \in DOMAIN Box(g, cl, c, b) :
            /\ IsResult(Box(g, cl, c, a)[i]) /\ IsResult(Box(g, cl, c, b)[j])
            /\ Box(g, cl, c, a)[i].gid = Box(g, cl, c, b)[j].gid
            => a = b /\ i = j

Answered(g, cl, iss) == CallsAre(g, iss) /\ AnswersAre(g, cl, iss) /\ AnsweredOnce(g, cl)

Sound(gone, reg, cl, iss) ==
    {g \in Gateways : Indexed(g, gone, reg) /\ Answered(g, cl, iss)}

Gone == {w \in World : worlds[w].state = "Gone"}

GatewayInv ==
    /\ scene \in Scenes
    /\ worlds \in Worlds /\ clients \in Clients /\ issued \in Seq(Issued)
    /\ registered \in 0 .. Cardinality(Client)
    /\ gw \in Sound(Gone, registered, clients, issued)

-----------------------------------------------------------------------------
(* Lists. *)

(* Ascending(S) enumerates S. *)
LEMMA AscendingIs ==
    ASSUME NEW S, S \subseteq Nat, IsFiniteSet(S)
    PROVE  /\ Cardinality(S) \in Nat
           /\ Ascending(S) \in [1 .. Cardinality(S) -> S]
           /\ \A i, j \in 1 .. Cardinality(S) : Ascending(S)[i] = Ascending(S)[j] => i = j
           /\ \A x \in S : \E i \in 1 .. Cardinality(S) : Ascending(S)[i] = x
<1> DEFINE n == Cardinality(S)
           Below(x) == {y \in S : y < x}
           rank == [x \in S |-> Cardinality(Below(x))]
<1>1. n \in Nat
  BY FS_CardinalityType
<1>2. ASSUME NEW x \in S
      PROVE  /\ IsFiniteSet(Below(x)) /\ Cardinality(Below(x)) \in 0 .. n - 1
  <2>1. Below(x) \subseteq S /\ x \notin Below(x)
    OBVIOUS
  <2>2. IsFiniteSet(Below(x)) /\ Cardinality(Below(x)) <= n /\ (n = Cardinality(Below(x)) => S = Below(x))
    <3> HIDE DEF Below
    <3> QED BY <2>1, FS_Subset
  <2>3. Cardinality(Below(x)) \in Nat
    BY <2>2, FS_CardinalityType
  <2> HIDE DEF Below
  <2> QED BY <1>1, <2>1, <2>2, <2>3
<1>3. ASSUME NEW x \in S, NEW y \in S, x < y PROVE rank[x] < rank[y]
  <2>0. x \in Nat /\ y \in Nat /\ \A z \in S : z \in Nat
    OBVIOUS
  <2>1. Below(x) \subseteq Below(y) /\ x \in Below(y) /\ x \notin Below(x)
    <3>1. ASSUME NEW z \in S, z < x PROVE z < y
      BY <1>3, <2>0, <3>1
    <3>2. ~(x < x)
      BY <2>0
    <3> QED BY <1>3, <3>1, <3>2
  <2>2. Cardinality(Below(x)) <= Cardinality(Below(y))
        /\ (Cardinality(Below(y)) = Cardinality(Below(x)) => Below(y) = Below(x))
    <3> HIDE DEF Below
    <3> QED BY <1>2, <2>1, FS_Subset
  <2>3. Cardinality(Below(x)) \in Int /\ Cardinality(Below(y)) \in Int
    <3> HIDE DEF Below
    <3> QED BY <1>1, <1>2
  <2> HIDE DEF Below
  <2> QED BY <2>1, <2>2, <2>3
<1>4. rank \in [S -> 0 .. n - 1]
  <2> HIDE DEF Below, n
  <2> QED BY <1>2
<1>5. ASSUME NEW x \in S, NEW y \in S, rank[x] = rank[y] PROVE x = y
  <2>1. rank[x] \in Int /\ rank[y] \in Int
    <3> HIDE DEF rank
    <3> QED BY <1>1, <1>4
  <2>2. x \in Nat /\ y \in Nat
    OBVIOUS
  <2> HIDE DEF rank
  <2> QED BY <1>3, <1>5, <2>1, <2>2
<1>6. rank \in Surjection(S, 0 .. n - 1)
  <2>1. rank \in Injection(S, 0 .. n - 1)
    <3> HIDE DEF rank, n
    <3> QED BY <1>4, <1>5 DEF Injection, IsInjective
  <2>2. IsFiniteSet(0 .. n - 1) /\ Cardinality(0 .. n - 1) = n
    <3> HIDE DEF n
    <3>1. 0 \in Int /\ n - 1 \in Int
      BY <1>1
    <3>2. /\ IsFiniteSet(0 .. n - 1)
          /\ Cardinality(0 .. n - 1) = IF 0 > n - 1 THEN 0 ELSE (n - 1) - 0 + 1
      BY <3>1, FS_Interval
    <3> QED BY <1>1, <3>2
  <2> HIDE DEF rank
  <2> QED BY <2>1, <2>2, FS_Injection
<1>7. ASSUME NEW i \in 1 .. n PROVE Ascending(S)[i] \in S /\ rank[Ascending(S)[i]] = i - 1
  <2>1. i - 1 \in 0 .. n - 1
    BY <1>1
  <2>2. \E x \in S : rank[x] = i - 1
    <3> HIDE DEF rank, n
    <3> QED BY <1>6, <2>1 DEF Surjection
  <2>3. \E x \in S : Cardinality({y \in S : y < x}) = i - 1
    BY <2>2
  <2>4. Ascending(S)[i] = CHOOSE x \in S : Cardinality({y \in S : y < x}) = i - 1
    BY DEF Ascending
  <2> QED BY <2>3, <2>4
<1>8. Ascending(S) \in [1 .. n -> S]
  <2> DEFINE at(i) == CHOOSE x \in S : Cardinality({y \in S : y < x}) = i - 1
  <2>1. Ascending(S) = [i \in 1 .. n |-> at(i)]
    BY DEF Ascending
  <2> HIDE DEF n, at
  <2>2. \A i \in 1 .. n : at(i) = Ascending(S)[i]
    BY <2>1
  <2>3. \A i \in 1 .. n : at(i) \in S
    BY <1>7, <2>2
  <2> QED BY <2>1, <2>3
<1>9. ASSUME NEW i \in 1 .. n, NEW j \in 1 .. n, Ascending(S)[i] = Ascending(S)[j] PROVE i = j
  <2> HIDE DEF rank, n
  <2> QED BY <1>1, <1>7, <1>9
<1>10. ASSUME NEW x \in S PROVE \E i \in 1 .. n : Ascending(S)[i] = x
  <2>1. rank[x] \in 0 .. n - 1
    <3> HIDE DEF rank, n
    <3> QED BY <1>4
  <2>2. rank[x] + 1 \in 1 .. n /\ (rank[x] + 1) - 1 = rank[x]
    <3> HIDE DEF rank, n
    <3> QED BY <1>1, <2>1
  <2>3. rank[Ascending(S)[rank[x] + 1]] = rank[x] /\ Ascending(S)[rank[x] + 1] \in S
    <3> HIDE DEF rank, n
    <3> QED BY <1>7, <2>2
  <2>4. Ascending(S)[rank[x] + 1] = x
    <3> HIDE DEF rank, n
    <3> QED BY <1>5, <2>3
  <2> HIDE DEF rank, n
  <2> QED BY <2>2, <2>4
<1> QED BY <1>1, <1>8, <1>9, <1>10

(* What remains of a list without repetitions. *)
LEMMA RetainIs ==
    ASSUME NEW T, NEW s \in Seq(T), NEW places, places \subseteq DOMAIN s,
           \A i, j \in DOMAIN s : s[i] = s[j] => i = j
    PROVE  /\ Retain(s, places) \in Seq(T)
           /\ \A i \in DOMAIN Retain(s, places) : \E j \in places : Retain(s, places)[i] = s[j]
           /\ \A j \in places : \E i \in DOMAIN Retain(s, places) : Retain(s, places)[i] = s[j]
           /\ \A i, j \in DOMAIN Retain(s, places) :
                 Retain(s, places)[i] = Retain(s, places)[j] => i = j
<1> DEFINE n == Cardinality(places)
           r == Retain(s, places)
<1>1. DOMAIN s = 1 .. Len(s) /\ Len(s) \in Nat /\ \A i \in DOMAIN s : s[i] \in T
  OBVIOUS
<1>2. IsFiniteSet(places) /\ places \subseteq Nat
  <2>1. IsFiniteSet(1 .. Len(s))
    BY <1>1, FS_Interval
  <2> QED BY <1>1, <2>1, FS_Subset
<1>3. /\ n \in Nat
      /\ Ascending(places) \in [1 .. n -> places]
      /\ \A i, j \in 1 .. n : Ascending(places)[i] = Ascending(places)[j] => i = j
      /\ \A x \in places : \E i \in 1 .. n : Ascending(places)[i] = x
  BY <1>2, AscendingIs
<1>4. r = [i \in 1 .. n |-> s[Ascending(places)[i]]]
  BY DEF Retain
<1> HIDE DEF n, r
<1>5. \A i \in 1 .. n : r[i] = s[Ascending(places)[i]] /\ Ascending(places)[i] \in places
  BY <1>3, <1>4
<1>6. DOMAIN r = 1 .. n
  BY <1>4
<1>7. r \in Seq(T)
  <2>1. r \in [1 .. n -> T]
    BY <1>1, <1>3, <1>4
  <2> QED BY <1>3, <2>1
<1>8. \A i \in DOMAIN r : \E j \in places : r[i] = s[j]
  BY <1>5, <1>6
<1>9. \A j \in places : \E i \in DOMAIN r : r[i] = s[j]
  BY <1>3, <1>5, <1>6
<1>10. \A i, j \in DOMAIN r : r[i] = r[j] => i = j
  BY <1>3, <1>5, <1>6
<1> QED BY <1>7, <1>8, <1>9, <1>10 DEF r

(* A list without repetitions is as long as its set. *)
LEMMA LengthOfList ==
    ASSUME NEW T, NEW s \in Seq(T), \A i, j \in DOMAIN s : s[i] = s[j] => i = j
    PROVE  Len(s) = Cardinality(ToSet(s))
<1>1. Len(s) \in Nat /\ DOMAIN s = 1 .. Len(s) /\ s \in [1 .. Len(s) -> T]
  BY LenProperties
<1>2. ToSet(s) = {s[i] : i \in 1 .. Len(s)}
  BY <1>1 DEF ToSet
<1>3. s \in [1 .. Len(s) -> ToSet(s)]
  BY <1>1, <1>2
<1>4. s \in Bijection(1 .. Len(s), ToSet(s))
  BY <1>1, <1>2, <1>3 DEF Bijection, Injection, IsInjective, Surjection
<1>5. IsFiniteSet(1 .. Len(s)) /\ Cardinality(1 .. Len(s)) = Len(s)
  <2>1. 1 \in Int /\ Len(s) \in Int
    BY <1>1
  <2>2. Cardinality(1 .. Len(s)) = IF 1 > Len(s) THEN 0 ELSE Len(s) - 1 + 1
    BY <2>1, FS_Interval
  <2> QED BY <1>1, <2>1, <2>2, FS_Interval
<1> QED BY <1>4, <1>5, FS_Bijection DEF ExistsBijection

-----------------------------------------------------------------------------
(* A gateway and what is sent. *)

LEMMA Constants ==
    /\ Cardinality(Client) \in Nat /\ Client = 1 .. Cardinality(Client) /\ Client \subseteq Nat
    /\ Cardinality(World) \in Nat /\ World = 1 .. Cardinality(World) /\ World \subseteq Nat
    /\ FirstWorld \in World /\ None \notin World /\ None \notin Nat
    /\ SubId \subseteq Nat /\ IsFiniteSet(SubId) /\ MaxSubs \in Nat /\ OutCap \in Nat
    /\ None \notin Connection
<1>1. Cardinality(Client) \in Nat /\ Cardinality(World) \in Nat
  BY GatewayAssumption, FS_CardinalityType
<1>2. Client = 1 .. Cardinality(Client) /\ World = 1 .. Cardinality(World) /\ World # {}
  BY GatewayAssumption
<1>3. Client \subseteq Nat /\ World \subseteq Nat /\ 1 \in World
  BY <1>1, <1>2
<1>4. MaxSubs \in Nat /\ OutCap \in Nat /\ None \notin Nat
  BY GatewayAssumption
<1>5. SubId \subseteq Nat /\ IsFiniteSet(SubId)
  BY <1>4, FS_Interval DEF SubId
<1> QED BY <1>1, <1>2, <1>3, <1>4, <1>5, ConnectionAssumption DEF FirstWorld

LEMMA FieldTypes ==
    ASSUME NEW g \in Gateways
    PROVE  /\ g.conns \in [Client -> Connection \cup {None}]
           /\ g.out \in [Client -> Outbox]
           /\ g.pendingBy \in [Client -> SUBSET Nat]
           /\ g.attached \in [World -> SUBSET Client]
           /\ g.subscribers \in [World -> Seq(Client \X SubId)]
           /\ g.live \in SUBSET (World \X SubId)
           /\ g.nextSub \in [World -> 0 .. MaxSubs]
           /\ g.queue \in [World -> Seq(QueuedCall)]
           /\ DOMAIN g.pending \subseteq Nat
           /\ \A k \in DOMAIN g.pending : g.pending[k] \in PendingCall
           /\ g.pending \in UNION {[keys -> PendingCall] : keys \in SUBSET Nat}
<1> DEFINE Maps == UNION {[keys -> PendingCall] : keys \in SUBSET Nat}
<1>1. /\ g.conns \in [Client -> Connection \cup {None}]
      /\ g.out \in [Client -> Outbox]
      /\ g.pendingBy \in [Client -> SUBSET Nat]
      /\ g.attached \in [World -> SUBSET Client]
      /\ g.subscribers \in [World -> Seq(Client \X SubId)]
      /\ g.live \in SUBSET (World \X SubId)
      /\ g.nextSub \in [World -> 0 .. MaxSubs]
      /\ g.queue \in [World -> Seq(QueuedCall)]
      /\ g.pending \in Maps
  <2> HIDE DEF Maps
  <2>1. g \in [conns : [Client -> Connection \cup {None}], out : [Client -> Outbox],
              pending : Maps, pendingBy : [Client -> SUBSET Nat],
              attached : [World -> SUBSET Client],
              subscribers : [World -> Seq(Client \X SubId)],
              live : SUBSET (World \X SubId), nextSub : [World -> 0 .. MaxSubs],
              queue : [World -> Seq(QueuedCall)]]
    BY DEF Gateways, Maps
  <2> QED BY <2>1
<1>2. PICK keys \in SUBSET Nat : g.pending \in [keys -> PendingCall]
  BY <1>1
<1>3. DOMAIN g.pending \subseteq Nat /\ \A k \in DOMAIN g.pending : g.pending[k] \in PendingCall
  BY <1>2
<1> QED BY <1>1, <1>3

LEMMA ConnFields ==
    ASSUME NEW g \in Gateways, NEW c \in Client, Open(g, c)
    PROVE  /\ g.conns[c] \in Connection /\ g.conns[c].world \in World \cup {None}
           /\ g.conns[c].subs \subseteq SubId /\ g.conns[c].notices \in Seq(SubId)
           /\ g.conns[c].stale \in BOOLEAN
<1>1. g.conns[c] \in Connection
  BY FieldTypes DEF Open
<1> QED BY <1>1 DEF Connection

LEMMA OutFields ==
    ASSUME NEW g \in Gateways, NEW c \in Client
    PROVE  /\ g.out[c] \in Outbox /\ g.out[c].frames \in Seq(Message)
           /\ g.out[c].msgs \in Seq(Message) /\ g.out[c].closed \in BOOLEAN
           /\ Room(g, c) \in Nat
           /\ Len(g.out[c].frames) \in Nat /\ Len(g.out[c].msgs) \in Nat
           /\ Room(g, c) > 0 => Len(g.out[c].frames) + Len(g.out[c].msgs) + Room(g, c) = OutCap
<1>1. g.out[c] \in Outbox
  BY FieldTypes
<1>2. g.out[c].frames \in Seq(Message) /\ g.out[c].msgs \in Seq(Message) /\ g.out[c].closed \in BOOLEAN
  BY <1>1 DEF Outbox
<1>3. Len(g.out[c].frames) \in Nat /\ Len(g.out[c].msgs) \in Nat
  BY <1>2, LenProperties
<1> DEFINE a == Len(g.out[c].frames)
           b == Len(g.out[c].msgs)
<1>4. Room(g, c) = IF g.out[c].closed THEN 0 ELSE OutCap - a - b
  BY DEF Room
<1>5. a + b <= OutCap
  BY <1>1 DEF Outbox
<1>6. a \in Nat /\ b \in Nat
  BY <1>3
<1> HIDE DEF a, b
<1>7. Room(g, c) \in Nat /\ (Room(g, c) > 0 => a + b + Room(g, c) = OutCap)
  BY <1>4, <1>5, <1>6, Constants
<1> QED BY <1>1, <1>2, <1>3, <1>7 DEF a, b

(* Everything that is sent is a message; of these, only the result of a    *)
(* call is one.                                                            *)
LEMMA Sayable ==
    /\ {Ok, Tick, Bye, Error} \subseteq Message
    /\ ~IsResult(Ok) /\ ~IsResult(Tick) /\ ~IsResult(Bye) /\ ~IsResult(Error)
    /\ \A s \in SubId, v \in Nat : /\ Snapshot(s, v) \in Message /\ ~IsResult(Snapshot(s, v))
                                   /\ Delta(s, v) \in Message /\ ~IsResult(Delta(s, v))
    /\ \A s \in SubId : Stale(s) \in Message /\ ~IsResult(Stale(s))
    /\ \A id \in Nat, gid \in Nat, ok \in BOOLEAN :
          Result(id, gid, ok) \in Message /\ Result(id, gid, ok).gid = gid
          /\ Result(id, gid, ok).id = id
<1>1. ~IsResult(Ok) /\ ~IsResult(Tick) /\ ~IsResult(Bye) /\ ~IsResult(Error)
  BY DEF IsResult, Ok, Tick, Bye, Error
<1>2. ASSUME NEW s \in SubId, NEW v \in Nat
      PROVE /\ Snapshot(s, v) \in Message /\ ~IsResult(Snapshot(s, v))
            /\ Delta(s, v) \in Message /\ ~IsResult(Delta(s, v))
            /\ Stale(s) \in Message /\ ~IsResult(Stale(s))
  BY DEF Snapshot, Delta, Stale, Message, IsResult
<1>3. ASSUME NEW s \in SubId PROVE Stale(s) \in Message /\ ~IsResult(Stale(s))
  BY DEF Stale, Message, IsResult
<1>4. ASSUME NEW id \in Nat, NEW gid \in Nat, NEW ok \in BOOLEAN
      PROVE /\ Result(id, gid, ok) \in Message /\ Result(id, gid, ok).gid = gid
            /\ Result(id, gid, ok).id = id
  BY DEF Result, Message
<1>5. {Ok, Tick, Bye, Error} \subseteq Message
  BY DEF Message
<1> QED BY <1>1, <1>2, <1>3, <1>4, <1>5

-----------------------------------------------------------------------------
(* Steps that leave the indexes alone. *)

(* h differs from g at most in what is sent, and who is stale or logged in. *)
Talk(g, h) ==
    /\ h \in Gateways
    /\ h.pending = g.pending /\ h.pendingBy = g.pendingBy /\ h.attached = g.attached
    /\ h.subscribers = g.subscribers /\ h.live = g.live /\ h.nextSub = g.nextSub
    /\ h.queue = g.queue
    /\ \A c \in Client :
          /\ Open(h, c) <=> Open(g, c)
          /\ Open(g, c) => /\ h.conns[c].world = g.conns[c].world
                           /\ h.conns[c].subs = g.conns[c].subs

LEMMA TalkHolds ==
    ASSUME NEW g \in Gateways, NEW h, Talk(g, h), NEW c \in Client, NEW w, NEW s
    PROVE  Holds(h, c, w, s) <=> Holds(g, c, w, s)
  BY DEF Talk, Holds

LEMMA TalkIndexed ==
    ASSUME NEW g \in Gateways, NEW h, NEW gone, NEW reg, Talk(g, h), Indexed(g, gone, reg)
    PROVE  Indexed(h, gone, reg)
<1>1. AttachedIs(h)
  BY DEF Talk, Indexed, AttachedIs
<1>2. SubscribersAre(h)
  <2>1. \A w \in World, c \in Client, s \in SubId : Listed(h, w, c, s) <=> Listed(g, w, c, s)
    BY DEF Talk, Listed
  <2>2. h.subscribers = g.subscribers
    BY DEF Talk
  <2> QED BY <2>1, <2>2, TalkHolds DEF Indexed, SubscribersAre
<1>3. SubsAreOwn(h)
  BY TalkHolds DEF Talk, Indexed, SubsAreOwn
<1>4. LiveIs(h, gone)
  BY TalkHolds DEF Talk, Indexed, LiveIs
<1>5. PendingIs(h)
  BY DEF Talk, Indexed, PendingIs
<1>6. Unopened(h, reg)
  BY DEF Talk, Indexed, Unopened
<1> QED BY <1>1, <1>2, <1>3, <1>4, <1>5, <1>6 DEF Indexed

(* h has no result and no call that g has not. *)
Quieter(g, h, cl) ==
    /\ \A c \in Client, b \in Boxes : \A i \in DOMAIN Box(h, cl, c, b) :
          IsResult(Box(h, cl, c, b)[i]) =>
              i \in DOMAIN Box(g, cl, c, b) /\ Box(h, cl, c, b)[i] = Box(g, cl, c, b)[i]
    /\ \A k \in DOMAIN h.pending : k \in DOMAIN g.pending /\ h.pending[k] = g.pending[k]
    /\ \A w \in World : \A i \in DOMAIN h.queue[w] :
          i \in DOMAIN g.queue[w] /\ h.queue[w][i] = g.queue[w][i]

(* The result m may be sent to c. *)
Sendable(g, cl, iss, c, m) ==
    IsResult(m) =>
        /\ Answers(g, iss, c, m)
        /\ \A b \in Boxes : \A i \in DOMAIN Box(g, cl, c, b) :
              IsResult(Box(g, cl, c, b)[i]) => Box(g, cl, c, b)[i].gid # m.gid

LEMMA QuieterAnswered ==
    ASSUME NEW g, NEW h, NEW cl, NEW iss, Quieter(g, h, cl), Answered(g, cl, iss)
    PROVE  Answered(h, cl, iss)
<1>1. CallsAre(h, iss)
  BY DEF Quieter, Answered, CallsAre
<1>2. AnswersAre(h, cl, iss)
  <2> SUFFICES ASSUME NEW c \in Client, NEW b \in Boxes, NEW i \in DOMAIN Box(h, cl, c, b),
                      IsResult(Box(h, cl, c, b)[i])
               PROVE  Answers(h, iss, c, Box(h, cl, c, b)[i])
    BY DEF AnswersAre
  <2>1. i \in DOMAIN Box(g, cl, c, b) /\ Box(h, cl, c, b)[i] = Box(g, cl, c, b)[i]
    BY DEF Quieter
  <2>2. Answers(g, iss, c, Box(h, cl, c, b)[i])
    BY <2>1 DEF Answered, AnswersAre
  <2> QED BY <2>2 DEF Answers, Quieter
<1>3. AnsweredOnce(h, cl)
  <2> SUFFICES ASSUME NEW c \in Client, NEW a \in Boxes, NEW b \in Boxes,
                      NEW i \in DOMAIN Box(h, cl, c, a), NEW j \in DOMAIN Box(h, cl, c, b),
                      IsResult(Box(h, cl, c, a)[i]), IsResult(Box(h, cl, c, b)[j]),
                      Box(h, cl, c, a)[i].gid = Box(h, cl, c, b)[j].gid
               PROVE  a = b /\ i = j
    BY DEF AnsweredOnce
  <2>1. /\ i \in DOMAIN Box(g, cl, c, a) /\ Box(h, cl, c, a)[i] = Box(g, cl, c, a)[i]
        /\ j \in DOMAIN Box(g, cl, c, b) /\ Box(h, cl, c, b)[j] = Box(g, cl, c, b)[j]
    BY DEF Quieter
  <2> QED BY <2>1 DEF Answered, AnsweredOnce
<1> QED BY <1>1, <1>2, <1>3 DEF Answered

LEMMA QuieterSendable ==
    ASSUME NEW g, NEW h, NEW cl, NEW iss, NEW c \in Client, NEW m,
           Quieter(g, h, cl), Sendable(g, cl, iss, c, m)
    PROVE  Sendable(h, cl, iss, c, m)
<1> SUFFICES ASSUME IsResult(m)
             PROVE  /\ Answers(h, iss, c, m)
                    /\ \A b \in Boxes : \A i \in DOMAIN Box(h, cl, c, b) :
                          IsResult(Box(h, cl, c, b)[i]) => Box(h, cl, c, b)[i].gid # m.gid
  BY DEF Sendable
<1>1. Answers(h, iss, c, m)
  BY DEF Sendable, Quieter, Answers
<1>2. ASSUME NEW b \in Boxes, NEW i \in DOMAIN Box(h, cl, c, b), IsResult(Box(h, cl, c, b)[i])
      PROVE  Box(h, cl, c, b)[i].gid # m.gid
  <2>1. i \in DOMAIN Box(g, cl, c, b) /\ Box(h, cl, c, b)[i] = Box(g, cl, c, b)[i]
    BY <1>2 DEF Quieter
  <2> QED BY <1>2, <2>1 DEF Sendable
<1> QED BY <1>1, <1>2

(* One more message in a queue of c. *)
LEMMA OneMoreAnswered ==
    ASSUME NEW g, NEW h, NEW cl, NEW iss, NEW c \in Client, NEW m, NEW q \in Boxes,
           NEW box \in Seq(Message), m \in Message,
           Box(g, cl, c, q) = box, Box(h, cl, c, q) = Append(box, m),
           \A d \in Client, b \in Boxes : d # c \/ b # q => Box(h, cl, d, b) = Box(g, cl, d, b),
           h.pending = g.pending, h.queue = g.queue,
           Sendable(g, cl, iss, c, m), Answered(g, cl, iss)
    PROVE  Answered(h, cl, iss)
<1> DEFINE n == Len(box) + 1
           New(d, b, i) == d = c /\ b = q /\ i = n
<1>1. n \in Nat /\ Append(box, m)[n] = m /\ DOMAIN Append(box, m) = 1 .. n
      /\ \A i \in 1 .. Len(box) : Append(box, m)[i] = box[i]
      /\ DOMAIN box = 1 .. Len(box) /\ Len(box) \in Nat
  OBVIOUS
<1>2. ASSUME NEW d \in Client, NEW b \in Boxes, NEW i \in DOMAIN Box(h, cl, d, b)
      PROVE  \/ New(d, b, i) /\ Box(h, cl, d, b)[i] = m
             \/ ~New(d, b, i) /\ i \in DOMAIN Box(g, cl, d, b)
                /\ Box(h, cl, d, b)[i] = Box(g, cl, d, b)[i]
  <2>1. CASE d = c /\ b = q
    <3>1. i \in 1 .. n
      BY <1>1, <2>1
    <3>2. CASE i = n
      BY <1>1, <2>1, <3>2
    <3>3. CASE i # n
      <4>1. i \in 1 .. Len(box)
        BY <1>1, <3>1, <3>3
      <4> QED BY <1>1, <2>1, <3>3, <4>1
    <3> QED BY <3>2, <3>3
  <2>2. CASE d # c \/ b # q
    BY <2>2
  <2> QED BY <2>1, <2>2
<1> HIDE DEF New, n
<1>3. CallsAre(h, iss)
  BY DEF Answered, CallsAre
<1>4. AnswersAre(h, cl, iss)
  <2> SUFFICES ASSUME NEW d \in Client, NEW b \in Boxes, NEW i \in DOMAIN Box(h, cl, d, b),
                      IsResult(Box(h, cl, d, b)[i])
               PROVE  Answers(g, iss, d, Box(h, cl, d, b)[i])
    BY DEF AnswersAre, Answers
  <2>1. CASE New(d, b, i)
    BY <1>2, <2>1 DEF Sendable, New
  <2>2. CASE ~New(d, b, i)
    BY <1>2, <2>2 DEF Answered, AnswersAre
  <2> QED BY <2>1, <2>2
<1>5. AnsweredOnce(h, cl)
  <2> SUFFICES ASSUME NEW d \in Client, NEW a \in Boxes, NEW b \in Boxes,
                      NEW i \in DOMAIN Box(h, cl, d, a), NEW j \in DOMAIN Box(h, cl, d, b),
                      IsResult(Box(h, cl, d, a)[i]), IsResult(Box(h, cl, d, b)[j]),
                      Box(h, cl, d, a)[i].gid = Box(h, cl, d, b)[j].gid
               PROVE  a = b /\ i = j
    BY DEF AnsweredOnce
  <2>1. CASE New(d, a, i) /\ New(d, b, j)
    BY <2>1 DEF New
  <2>2. CASE New(d, a, i) /\ ~New(d, b, j)
    BY <1>2, <2>2 DEF New, Sendable
  <2>3. CASE ~New(d, a, i) /\ New(d, b, j)
    BY <1>2, <2>3 DEF New, Sendable
  <2>4. CASE ~New(d, a, i) /\ ~New(d, b, j)
    BY <1>2, <2>4 DEF Answered, AnsweredOnce
  <2> QED BY <2>1, <2>2, <2>3, <2>4
<1> QED BY <1>3, <1>4, <1>5 DEF Answered

LEMMA OutTyped ==
    ASSUME NEW g \in Gateways, NEW c \in Client, NEW o \in Outbox
    PROVE  LET h == [g EXCEPT !.out[c] = o]
           IN  /\ Talk(g, h) /\ h.conns = g.conns
               /\ h.out[c] = o /\ \A d \in Client : d # c => h.out[d] = g.out[d]
<1> DEFINE h == [g EXCEPT !.out[c] = o]
           out == [g.out EXCEPT ![c] = o]
<1>1. g.out \in [Client -> Outbox] /\ g.conns \in [Client -> Connection \cup {None}]
  BY FieldTypes
<1>2. out \in [Client -> Outbox] /\ out[c] = o /\ \A d \in Client : d # c => out[d] = g.out[d]
  BY <1>1
<1>3. h = [g EXCEPT !.out = out]
  BY DEF Gateways
<1>4. /\ h \in Gateways /\ h.conns = g.conns /\ h.out = out
      /\ h.pending = g.pending /\ h.pendingBy = g.pendingBy
      /\ h.attached = g.attached /\ h.subscribers = g.subscribers
      /\ h.live = g.live /\ h.nextSub = g.nextSub /\ h.queue = g.queue
  <2> HIDE DEF h, out
  <2> QED BY <1>2, <1>3 DEF Gateways
<1> HIDE DEF h, out
<1>5. Talk(g, h)
  BY <1>4 DEF Talk, Open
<1> QED BY <1>2, <1>4, <1>5 DEF h

LEMMA PushFrameIs ==
    ASSUME NEW g \in Gateways, NEW c \in Client, NEW m \in Message, Room(g, c) > 0
    PROVE  LET h == PushFrame(g, c, m)
           IN  /\ Talk(g, h) /\ h.conns = g.conns
               /\ h.out[c] = [g.out[c] EXCEPT !.frames = Append(@, m)]
               /\ \A d \in Client : d # c => h.out[d] = g.out[d]
<1> DEFINE o == [g.out[c] EXCEPT !.frames = Append(@, m)]
           new == Append(g.out[c].frames, m)
<1>0. /\ g.out[c] \in Outbox /\ new \in Seq(Message) /\ Len(new) = Len(g.out[c].frames) + 1
      /\ g.out[c].frames \in Seq(Message) /\ g.out[c].msgs \in Seq(Message)
  <2>1. g.out[c] \in Outbox /\ g.out[c].frames \in Seq(Message) /\ g.out[c].msgs \in Seq(Message)
    BY OutFields
  <2> DEFINE old == g.out[c].frames
  <2>2. old \in Seq(Message)
    BY <2>1
  <2> HIDE DEF old
  <2>3. Append(old, m) \in Seq(Message) /\ Len(Append(old, m)) = Len(old) + 1
    BY <2>2
  <2> QED BY <2>1, <2>3 DEF old
<1>1. Len(new) + Len(g.out[c].msgs) <= OutCap
  <2> DEFINE a == Len(g.out[c].frames)
             b == Len(g.out[c].msgs)
  <2>1. a \in Nat /\ b \in Nat /\ Room(g, c) \in Nat /\ a + b + Room(g, c) = OutCap
    BY OutFields
  <2>2. Len(new) = a + 1
    BY <1>0
  <2> HIDE DEF a, b, new
  <2>3. Len(new) + b <= OutCap
    BY <2>1, <2>2, Constants
  <2> QED BY <2>3 DEF a, b
<1>2. o \in Outbox
  <2>1. o.frames = new /\ o.msgs = g.out[c].msgs
    BY <1>0 DEF Outbox
  <2>2. o \in [frames : Seq(Message), msgs : Seq(Message), closed : BOOLEAN]
    BY <1>0 DEF Outbox
  <2>3. Len(o.frames) + Len(o.msgs) <= OutCap
    <3>1. Len(new) \in Nat /\ Len(g.out[c].msgs) \in Nat
      BY <1>0, LenProperties
    <3> HIDE DEF new, o
    <3> QED BY <1>1, <2>1, <3>1
  <2> HIDE DEF o
  <2> QED BY <2>2, <2>3 DEF Outbox
<1>3. PushFrame(g, c, m) = [g EXCEPT !.out[c] = o]
  BY FieldTypes DEF PushFrame, Gateways
<1> HIDE DEF o
<1>4. LET h == [g EXCEPT !.out[c] = o]
      IN  /\ Talk(g, h) /\ h.conns = g.conns
          /\ h.out[c] = o /\ \A d \in Client : d # c => h.out[d] = g.out[d]
  BY <1>2, OutTyped
<1> QED BY <1>3, <1>4 DEF o

LEMMA PushMessageIs ==
    ASSUME NEW g \in Gateways, NEW c \in Client, NEW m \in Message, Room(g, c) > 0
    PROVE  LET h == PushMessage(g, c, m)
           IN  /\ Talk(g, h) /\ h.conns = g.conns
               /\ h.out[c] = [g.out[c] EXCEPT !.msgs = Append(@, m)]
               /\ \A d \in Client : d # c => h.out[d] = g.out[d]
<1> DEFINE o == [g.out[c] EXCEPT !.msgs = Append(@, m)]
           new == Append(g.out[c].msgs, m)
<1>0. /\ g.out[c] \in Outbox /\ new \in Seq(Message) /\ Len(new) = Len(g.out[c].msgs) + 1
      /\ g.out[c].frames \in Seq(Message) /\ g.out[c].msgs \in Seq(Message)
  <2>1. g.out[c] \in Outbox /\ g.out[c].frames \in Seq(Message) /\ g.out[c].msgs \in Seq(Message)
    BY OutFields
  <2> DEFINE old == g.out[c].msgs
  <2>2. old \in Seq(Message)
    BY <2>1
  <2> HIDE DEF old
  <2>3. Append(old, m) \in Seq(Message) /\ Len(Append(old, m)) = Len(old) + 1
    BY <2>2
  <2> QED BY <2>1, <2>3 DEF old
<1>1. Len(new) + Len(g.out[c].frames) <= OutCap
  <2> DEFINE a == Len(g.out[c].frames)
             b == Len(g.out[c].msgs)
  <2>1. a \in Nat /\ b \in Nat /\ Room(g, c) \in Nat /\ a + b + Room(g, c) = OutCap
    BY OutFields
  <2>2. Len(new) = b + 1
    BY <1>0
  <2> HIDE DEF a, b, new
  <2>3. Len(new) + a <= OutCap
    BY <2>1, <2>2, Constants
  <2> QED BY <2>3 DEF a, b
<1>2. o \in Outbox
  <2>1. o.frames = g.out[c].frames /\ o.msgs = new
    BY <1>0 DEF Outbox
  <2>2. o \in [frames : Seq(Message), msgs : Seq(Message), closed : BOOLEAN]
    BY <1>0 DEF Outbox
  <2>3. Len(o.frames) + Len(o.msgs) <= OutCap
    <3>1. Len(new) \in Nat /\ Len(g.out[c].frames) \in Nat
      BY <1>0, LenProperties
    <3> HIDE DEF new, o
    <3> QED BY <1>1, <2>1, <3>1
  <2> HIDE DEF o
  <2> QED BY <2>2, <2>3 DEF Outbox
<1>3. PushMessage(g, c, m) = [g EXCEPT !.out[c] = o]
  BY FieldTypes DEF PushMessage, Gateways
<1> HIDE DEF o
<1>4. LET h == [g EXCEPT !.out[c] = o]
      IN  /\ Talk(g, h) /\ h.conns = g.conns
          /\ h.out[c] = o /\ \A d \in Client : d # c => h.out[d] = g.out[d]
  BY <1>2, OutTyped
<1> QED BY <1>3, <1>4 DEF o

LEMMA BoxIs ==
    ASSUME NEW g, NEW cl, NEW c
    PROVE  /\ Box(g, cl, c, "got") = cl[c].got
           /\ Box(g, cl, c, "msgs") = g.out[c].msgs
           /\ Box(g, cl, c, "frames") = g.out[c].frames
  BY DEF Box

LEMMA SoundIs ==
    ASSUME NEW gone, NEW reg, NEW cl, NEW iss, NEW g \in Sound(gone, reg, cl, iss)
    PROVE  g \in Gateways /\ Indexed(g, gone, reg) /\ Answered(g, cl, iss)
  BY DEF Sound

LEMMA TalkSound ==
    ASSUME NEW gone, NEW reg, NEW cl, NEW iss, NEW g \in Sound(gone, reg, cl, iss),
           NEW h, Talk(g, h), Quieter(g, h, cl)
    PROVE  h \in Sound(gone, reg, cl, iss)
<1>1. g \in Gateways /\ Indexed(g, gone, reg) /\ Answered(g, cl, iss)
  BY SoundIs
<1> QED BY <1>1, TalkIndexed, QuieterAnswered DEF Sound, Talk

LEMMA PushSound ==
    ASSUME NEW gone, NEW reg, NEW cl, NEW iss, NEW g \in Sound(gone, reg, cl, iss),
           NEW c \in Client, NEW m \in Message, Sendable(g, cl, iss, c, m), Room(g, c) > 0
    PROVE  /\ PushFrame(g, c, m) \in Sound(gone, reg, cl, iss)
           /\ PushMessage(g, c, m) \in Sound(gone, reg, cl, iss)
<1>1. g \in Gateways /\ Indexed(g, gone, reg) /\ Answered(g, cl, iss)
  BY SoundIs
<1>2. g.out[c] \in Outbox /\ g.out[c].frames \in Seq(Message) /\ g.out[c].msgs \in Seq(Message)
  BY <1>1, OutFields
<1>3. PushFrame(g, c, m) \in Sound(gone, reg, cl, iss)
  <2> DEFINE h == PushFrame(g, c, m)
  <2>1. /\ Talk(g, h) /\ h.out[c] = [g.out[c] EXCEPT !.frames = Append(@, m)]
        /\ \A d \in Client : d # c => h.out[d] = g.out[d]
    BY <1>1, PushFrameIs
  <2> HIDE DEF h
  <2>2. h.out[c].frames = Append(g.out[c].frames, m) /\ h.out[c].msgs = g.out[c].msgs
    BY <1>2, <2>1 DEF Outbox
  <2>3. \A d \in Client, b \in Boxes : d # c \/ b # "frames" => Box(h, cl, d, b) = Box(g, cl, d, b)
    BY <2>1, <2>2 DEF Box, Boxes
  <2>4. /\ Box(g, cl, c, "frames") = g.out[c].frames /\ "frames" \in Boxes
        /\ Box(h, cl, c, "frames") = Append(g.out[c].frames, m)
    BY <2>2, BoxIs DEF Boxes
  <2>5. Answered(h, cl, iss)
    <3>1. h.pending = g.pending /\ h.queue = g.queue
      BY <2>1 DEF Talk
    <3> QED BY <1>1, <1>2, <2>3, <2>4, <3>1, OneMoreAnswered
  <2>6. h \in Gateways /\ Indexed(h, gone, reg)
    BY <1>1, <2>1, TalkIndexed DEF Talk
  <2> QED BY <2>5, <2>6 DEF Sound, h
<1>4. PushMessage(g, c, m) \in Sound(gone, reg, cl, iss)
  <2> DEFINE h == PushMessage(g, c, m)
  <2>1. /\ Talk(g, h) /\ h.out[c] = [g.out[c] EXCEPT !.msgs = Append(@, m)]
        /\ \A d \in Client : d # c => h.out[d] = g.out[d]
    BY <1>1, PushMessageIs
  <2> HIDE DEF h
  <2>2. h.out[c].msgs = Append(g.out[c].msgs, m) /\ h.out[c].frames = g.out[c].frames
    BY <1>2, <2>1 DEF Outbox
  <2>3. \A d \in Client, b \in Boxes : d # c \/ b # "msgs" => Box(h, cl, d, b) = Box(g, cl, d, b)
    BY <2>1, <2>2 DEF Box, Boxes
  <2>4. /\ Box(g, cl, c, "msgs") = g.out[c].msgs /\ "msgs" \in Boxes
        /\ Box(h, cl, c, "msgs") = Append(g.out[c].msgs, m)
    BY <2>2, BoxIs DEF Boxes
  <2>5. Answered(h, cl, iss)
    <3>1. h.pending = g.pending /\ h.queue = g.queue
      BY <2>1 DEF Talk
    <3> QED BY <1>1, <1>2, <2>3, <2>4, <3>1, OneMoreAnswered
  <2>6. h \in Gateways /\ Indexed(h, gone, reg)
    BY <1>1, <2>1, TalkIndexed DEF Talk
  <2> QED BY <2>5, <2>6 DEF Sound, h
<1> QED BY <1>3, <1>4

(* g with another session of c and other queues. *)
With(g, c, k, o) == [g EXCEPT !.conns[c] = k, !.out[c] = o]

(* The session of c changes, but not its world or its subscriptions. *)
LEMMA SessionTyped ==
    ASSUME NEW g \in Gateways, NEW c \in Client, Open(g, c), NEW k \in Connection,
           k.world = g.conns[c].world, k.subs = g.conns[c].subs, NEW o \in Outbox
    PROVE  LET h == With(g, c, k, o)
           IN  /\ Talk(g, h) /\ h.conns[c] = k /\ h.out[c] = o
               /\ \A d \in Client : d # c => h.conns[d] = g.conns[d] /\ h.out[d] = g.out[d]
<1> DEFINE h == With(g, c, k, o)
           conns == [g.conns EXCEPT ![c] = k]
           out == [g.out EXCEPT ![c] = o]
<1>1. g.out \in [Client -> Outbox] /\ g.conns \in [Client -> Connection \cup {None}]
  BY FieldTypes
<1>2. out \in [Client -> Outbox] /\ out[c] = o /\ \A d \in Client : d # c => out[d] = g.out[d]
  BY <1>1
<1>3. /\ conns \in [Client -> Connection \cup {None}] /\ conns[c] = k
      /\ \A d \in Client : d # c => conns[d] = g.conns[d]
  BY <1>1
<1>4. h = [g EXCEPT !.conns = conns, !.out = out]
  BY DEF Gateways, With
<1> HIDE DEF h, conns, out
<1>5. /\ h \in Gateways /\ h.conns = conns /\ h.out = out
      /\ h.pending = g.pending /\ h.pendingBy = g.pendingBy
      /\ h.attached = g.attached /\ h.subscribers = g.subscribers
      /\ h.live = g.live /\ h.nextSub = g.nextSub /\ h.queue = g.queue
  BY <1>2, <1>3, <1>4 DEF Gateways
<1>6. k # None
  BY Constants
<1>7. Talk(g, h)
  BY <1>3, <1>5, <1>6 DEF Talk, Open
<1> QED BY <1>2, <1>3, <1>5, <1>7 DEF h

LEMMA SameOut ==
    ASSUME NEW g \in Gateways, NEW c \in Client, NEW k
    PROVE  [g EXCEPT !.conns[c] = k] = With(g, c, k, g.out[c])
<1>1. g.out \in [Client -> Outbox]
  BY FieldTypes
<1>2. [g.out EXCEPT ![c] = g.out[c]] = g.out
  BY <1>1
<1> QED BY <1>2 DEF Gateways, With

LEMMA MarkStaleIs ==
    ASSUME NEW g \in Gateways, NEW c \in Client, Open(g, c), NEW cl
    PROVE  Talk(g, MarkStale(g, c)) /\ Quieter(g, MarkStale(g, c), cl)
<1> DEFINE h == MarkStale(g, c)
           k == [g.conns[c] EXCEPT !.stale = TRUE, !.notices = @ \o Ascending(g.conns[c].subs)]
<1>1. CASE g.conns[c].stale
  <2>1. h = g
    BY <1>1 DEF MarkStale
  <2> HIDE DEF h
  <2>2. Talk(g, g) /\ Quieter(g, g, cl)
    BY DEF Talk, Quieter
  <2> QED BY <2>1, <2>2 DEF h
<1>2. CASE ~g.conns[c].stale
  <2>1. g.conns[c] \in Connection /\ g.conns[c].subs \subseteq SubId /\ g.conns[c].notices \in Seq(SubId)
    BY ConnFields
  <2>2. Ascending(g.conns[c].subs) \in Seq(SubId)
    <3>1. IsFiniteSet(g.conns[c].subs) /\ g.conns[c].subs \subseteq Nat
      BY <2>1, Constants, FS_Subset
    <3>2. Cardinality(g.conns[c].subs) \in Nat
          /\ Ascending(g.conns[c].subs) \in [1 .. Cardinality(g.conns[c].subs) -> g.conns[c].subs]
      BY <3>1, AscendingIs
    <3> QED BY <2>1, <3>2
  <2>3. g.conns[c].notices \o Ascending(g.conns[c].subs) \in Seq(SubId)
    BY <2>1, <2>2, ConcatProperties
  <2>4. k \in Connection /\ k.world = g.conns[c].world /\ k.subs = g.conns[c].subs
    BY <2>1, <2>3 DEF Connection
  <2>5. h = [g EXCEPT !.conns[c] = k]
    BY <1>2, FieldTypes DEF MarkStale, Gateways
  <2>6. g.out[c] \in Outbox
    BY OutFields
  <2> HIDE DEF h, k
  <2>7. h = With(g, c, k, g.out[c])
    BY <2>5, SameOut
  <2>8. /\ Talk(g, h) /\ h.out[c] = g.out[c]
        /\ \A d \in Client : d # c => h.out[d] = g.out[d]
    BY <2>4, <2>6, <2>7, SessionTyped
  <2>9. Quieter(g, h, cl)
    BY <2>8 DEF Quieter, Talk, Box
  <2> QED BY <2>8, <2>9 DEF h
<1> QED BY <1>1, <1>2

LEMMA FlushNoticesIs ==
    ASSUME NEW g \in Gateways, NEW c \in Client, Open(g, c), NEW cl
    PROVE  Talk(g, FlushNotices(g, c)) /\ Quieter(g, FlushNotices(g, c), cl)
<1> DEFINE h == FlushNotices(g, c)
           notices == g.conns[c].notices
           n == Len(notices)
           r == IF Room(g, c) < n THEN Room(g, c) ELSE n
           said == [i \in 1 .. r |-> Stale(notices[i])]
           rest == SubSeq(notices, r + 1, n)
           k == [g.conns[c] EXCEPT !.notices = rest]
           o == [g.out[c] EXCEPT !.frames = @ \o said]
<1>1. /\ g.conns[c] \in Connection /\ notices \in Seq(SubId)
      /\ g.out[c] \in Outbox /\ g.out[c].frames \in Seq(Message) /\ Room(g, c) \in Nat
      /\ Len(g.out[c].frames) \in Nat /\ Len(g.out[c].msgs) \in Nat
      /\ Room(g, c) > 0 => Len(g.out[c].frames) + Len(g.out[c].msgs) + Room(g, c) = OutCap
  BY ConnFields, OutFields
<1>2. n \in Nat /\ \A i \in 1 .. n : notices[i] \in SubId
  BY <1>1
<1>3. h = With(g, c, k, o)
  BY FieldTypes DEF FlushNotices, Gateways, With
<1> HIDE DEF notices
<1>4. r \in Nat /\ r <= n /\ r <= Room(g, c)
  BY <1>1, <1>2
<1> HIDE DEF n, r
<1>5. said \in Seq(Message) /\ Len(said) = r /\ \A i \in 1 .. r : ~IsResult(said[i])
  <2>1. \A i \in 1 .. r : Stale(notices[i]) \in Message /\ ~IsResult(Stale(notices[i]))
    BY <1>2, <1>4, Sayable
  <2>2. said \in [1 .. r -> Message] /\ \A i \in 1 .. r : ~IsResult(said[i])
    BY <2>1
  <2> HIDE DEF said
  <2> QED BY <1>4, <2>2
<1>6. rest \in Seq(SubId)
  <2>1. \A i \in r + 1 .. n : notices[i] \in SubId
    BY <1>2, <1>4
  <2> QED BY <1>2, <1>4, <2>1, SubSeqProperties
<1> HIDE DEF said, rest
<1>7. k \in Connection /\ k.world = g.conns[c].world /\ k.subs = g.conns[c].subs
  BY <1>1, <1>6 DEF Connection
<1> DEFINE old == g.out[c].frames
           a == Len(old)
           b == Len(g.out[c].msgs)
<1>8a. old \in Seq(Message) /\ a \in Nat /\ b \in Nat /\ a + b <= OutCap
       /\ (Room(g, c) > 0 => a + b + Room(g, c) = OutCap)
  BY <1>1 DEF Outbox
<1> HIDE DEF old
<1>8b. /\ old \o said \in Seq(Message)
       /\ Len(old \o said) = a + r
       /\ \A i \in 1 .. a : (old \o said)[i] = old[i]
       /\ \A i \in a + 1 .. a + r : (old \o said)[i] = said[i - a]
  BY <1>4, <1>5, <1>8a, ConcatProperties
<1> HIDE DEF a, b
<1>8. Len(old \o said) + b <= OutCap
  BY <1>1, <1>4, <1>8a, <1>8b, Constants
<1>9. o \in Outbox /\ o.frames = old \o said /\ o.msgs = g.out[c].msgs
  <2>1. o.frames = old \o said /\ o.msgs = g.out[c].msgs
    BY <1>1 DEF Outbox, old
  <2>2. o \in [frames : Seq(Message), msgs : Seq(Message), closed : BOOLEAN]
    BY <1>1, <1>8b DEF Outbox, old
  <2>3. Len(o.frames) + Len(o.msgs) <= OutCap
    BY <1>8, <2>1 DEF b
  <2> HIDE DEF o
  <2> QED BY <2>1, <2>2, <2>3 DEF Outbox
<1> HIDE DEF h, k, o
<1>10. /\ Talk(g, h) /\ h.out[c] = o
       /\ \A d \in Client : d # c => h.out[d] = g.out[d]
  BY <1>3, <1>7, <1>9, SessionTyped
<1>11. ASSUME NEW i \in DOMAIN h.out[c].frames, IsResult(h.out[c].frames[i])
       PROVE  i \in DOMAIN g.out[c].frames /\ h.out[c].frames[i] = g.out[c].frames[i]
  <2>1. h.out[c].frames = old \o said
    BY <1>9, <1>10
  <2>2. i \in 1 .. a + r
    BY <1>8b, <2>1
  <2>3. i \in 1 .. a
    <3> SUFFICES ASSUME i \in a + 1 .. a + r PROVE FALSE
      BY <1>8a, <1>4, <2>2
    <3>1. i - a \in 1 .. r
      BY <1>8a, <1>4
    <3> QED BY <1>5, <1>8b, <1>11, <2>1, <3>1
  <2>4. DOMAIN old = 1 .. a
    BY <1>8a DEF a
  <2> QED BY <1>8b, <2>1, <2>3, <2>4 DEF old
<1>12. Quieter(g, h, cl)
  <2>1. ASSUME NEW d \in Client, NEW e \in Boxes, NEW i \in DOMAIN Box(h, cl, d, e),
               IsResult(Box(h, cl, d, e)[i])
        PROVE  i \in DOMAIN Box(g, cl, d, e) /\ Box(h, cl, d, e)[i] = Box(g, cl, d, e)[i]
    <3>1. CASE d = c /\ e = "frames"
      BY <1>11, <2>1, <3>1, BoxIs
    <3>2. CASE ~(d = c /\ e = "frames")
      <4>1. Box(h, cl, d, e) = Box(g, cl, d, e)
        BY <1>9, <1>10, <3>2 DEF Box, Boxes
      <4> QED BY <2>1, <4>1
    <3> QED BY <3>1, <3>2
  <2> QED BY <1>10, <2>1 DEF Quieter, Talk
<1> QED BY <1>10, <1>12 DEF h

-----------------------------------------------------------------------------
(* Leaving: subscriptions end, calls die, the world is left. *)

(* h is g without the subscriptions subs of c. *)
Unlisted(g, h, c, subs) ==
    /\ h \in Gateways /\ h.conns = g.conns /\ h.out = g.out
    /\ h.pending = g.pending /\ h.pendingBy = g.pendingBy
    /\ h.attached = g.attached /\ h.nextSub = g.nextSub /\ h.queue = g.queue
    /\ \A w \in World :
          /\ \A d \in Client, s \in SubId :
                Listed(h, w, d, s) <=> Listed(g, w, d, s) /\ ~(d = c /\ s \in subs)
          /\ \A i, j \in DOMAIN h.subscribers[w] :
                h.subscribers[w][i] = h.subscribers[w][j] => i = j
    /\ h.live = IF g.conns[c].world = None THEN g.live
                ELSE g.live \ {<<g.conns[c].world, s>> : s \in subs}

LEMMA WithoutIs ==
    ASSUME NEW g \in Gateways, SubscribersAre(g), NEW c \in Client, NEW subs
    PROVE  Unlisted(g, Without(g, c, subs), c, subs)
<1> DEFINE h == Without(g, c, subs)
           places(w) == {i \in DOMAIN g.subscribers[w] :
                            ~(g.subscribers[w][i][1] = c /\ g.subscribers[w][i][2] \in subs)}
           lists == [w \in World |-> Retain(g.subscribers[w], places(w))]
           live == IF g.conns[c].world = None THEN g.live
                   ELSE g.live \ {<<g.conns[c].world, s>> : s \in subs}
<1>1. h = [g EXCEPT !.subscribers = lists, !.live = live]
  BY DEF Without
<1>2. /\ g.subscribers \in [World -> Seq(Client \X SubId)] /\ g.live \in SUBSET (World \X SubId)
  BY FieldTypes
<1>3. ASSUME NEW w \in World
      PROVE  /\ lists[w] \in Seq(Client \X SubId)
             /\ \A i \in DOMAIN lists[w] : \E j \in places(w) : lists[w][i] = g.subscribers[w][j]
             /\ \A j \in places(w) : \E i \in DOMAIN lists[w] : lists[w][i] = g.subscribers[w][j]
             /\ \A i, j \in DOMAIN lists[w] : lists[w][i] = lists[w][j] => i = j
  <2>1. \A i, j \in DOMAIN g.subscribers[w] : g.subscribers[w][i] = g.subscribers[w][j] => i = j
    BY DEF SubscribersAre
  <2>2. g.subscribers[w] \in Seq(Client \X SubId) /\ places(w) \subseteq DOMAIN g.subscribers[w]
    BY <1>2
  <2>3. lists[w] = Retain(g.subscribers[w], places(w))
    OBVIOUS
  <2> HIDE DEF lists, places
  <2> QED BY <2>1, <2>2, <2>3, RetainIs
<1>4. live \in SUBSET (World \X SubId)
  BY <1>2
<1>5. lists \in [World -> Seq(Client \X SubId)]
  <2>1. lists = [w \in World |-> lists[w]]
    OBVIOUS
  <2> HIDE DEF lists
  <2> QED BY <1>3, <2>1
<1>6. /\ h \in Gateways /\ h.conns = g.conns /\ h.out = g.out
      /\ h.pending = g.pending /\ h.pendingBy = g.pendingBy
      /\ h.attached = g.attached /\ h.nextSub = g.nextSub /\ h.queue = g.queue
      /\ h.subscribers = lists /\ h.live = live
  <2> HIDE DEF h, lists, live
  <2> QED BY <1>1, <1>4, <1>5 DEF Gateways
<1>7. ASSUME NEW w \in World, NEW d \in Client, NEW s \in SubId
      PROVE  Listed(h, w, d, s) <=> Listed(g, w, d, s) /\ ~(d = c /\ s \in subs)
  <2>1. \A j \in places(w) : /\ j \in DOMAIN g.subscribers[w]
                             /\ ~(g.subscribers[w][j][1] = c /\ g.subscribers[w][j][2] \in subs)
    OBVIOUS
  <2>2. \A j \in DOMAIN g.subscribers[w] :
           ~(g.subscribers[w][j][1] = c /\ g.subscribers[w][j][2] \in subs) => j \in places(w)
    OBVIOUS
  <2>3. <<d, s>>[1] = d /\ <<d, s>>[2] = s
    OBVIOUS
  <2>4. h.subscribers = lists
    BY <1>6
  <2> HIDE DEF places, lists, h
  <2>5. ASSUME Listed(h, w, d, s) PROVE Listed(g, w, d, s) /\ ~(d = c /\ s \in subs)
    <3>1. PICK i \in DOMAIN lists[w] : lists[w][i] = <<d, s>>
      BY <2>4, <2>5 DEF Listed
    <3>2. PICK j \in places(w) : lists[w][i] = g.subscribers[w][j]
      BY <1>3
    <3> QED BY <2>1, <2>3, <3>1, <3>2 DEF Listed
  <2>6. ASSUME Listed(g, w, d, s), ~(d = c /\ s \in subs) PROVE Listed(h, w, d, s)
    <3>1. PICK j \in DOMAIN g.subscribers[w] : g.subscribers[w][j] = <<d, s>>
      BY <2>6 DEF Listed
    <3>2. j \in places(w)
      BY <2>2, <2>3, <2>6, <3>1
    <3> QED BY <1>3, <2>4, <3>1, <3>2 DEF Listed
  <2> QED BY <2>5, <2>6
<1>8. \A w \in World : \A i, j \in DOMAIN h.subscribers[w] :
         h.subscribers[w][i] = h.subscribers[w][j] => i = j
  <2> HIDE DEF h, lists
  <2> QED BY <1>3, <1>6
<1> HIDE DEF h
<1> QED BY <1>6, <1>7, <1>8 DEF h, Unlisted

LEMMA WithoutCallsIs ==
    ASSUME NEW g \in Gateways, NEW c \in Client
    PROVE  LET h == WithoutCalls(g, c)
           IN  /\ h \in Gateways /\ h.conns = g.conns /\ h.out = g.out
               /\ h.attached = g.attached /\ h.nextSub = g.nextSub /\ h.queue = g.queue
               /\ h.subscribers = g.subscribers /\ h.live = g.live
               /\ DOMAIN h.pending = {k \in DOMAIN g.pending : g.pending[k].conn # c}
               /\ \A k \in DOMAIN h.pending : h.pending[k] = g.pending[k]
               /\ h.pendingBy[c] = {}
               /\ \A d \in Client : d # c => h.pendingBy[d] = g.pendingBy[d]
<1> DEFINE h == WithoutCalls(g, c)
           pending == [k \in {i \in DOMAIN g.pending : g.pending[i].conn # c} |-> g.pending[k]]
           pendingBy == [g.pendingBy EXCEPT ![c] = {}]
<1>1. h = [g EXCEPT !.pending = pending, !.pendingBy = pendingBy]
  BY DEF WithoutCalls, Gateways
<1>2. /\ DOMAIN g.pending \subseteq Nat
      /\ \A k \in DOMAIN g.pending : g.pending[k] \in PendingCall
      /\ g.pendingBy \in [Client -> SUBSET Nat]
  BY FieldTypes
<1>3. /\ DOMAIN pending = {k \in DOMAIN g.pending : g.pending[k].conn # c}
      /\ \A k \in DOMAIN pending : pending[k] = g.pending[k]
  OBVIOUS
<1>4. pending \in UNION {[keys -> PendingCall] : keys \in SUBSET Nat}
  <2>1. DOMAIN pending \in SUBSET Nat /\ pending \in [DOMAIN pending -> PendingCall]
    BY <1>2
  <2> HIDE DEF pending
  <2> QED BY <2>1
<1>5. /\ pendingBy \in [Client -> SUBSET Nat] /\ pendingBy[c] = {}
      /\ \A d \in Client : d # c => pendingBy[d] = g.pendingBy[d]
  BY <1>2
<1>6. /\ h \in Gateways /\ h.conns = g.conns /\ h.out = g.out
      /\ h.attached = g.attached /\ h.nextSub = g.nextSub /\ h.queue = g.queue
      /\ h.subscribers = g.subscribers /\ h.live = g.live
      /\ h.pending = pending /\ h.pendingBy = pendingBy
  <2> HIDE DEF h, pending, pendingBy
  <2> QED BY <1>1, <1>4, <1>5 DEF Gateways
<1> HIDE DEF h, pending, pendingBy
<1> QED BY <1>3, <1>5, <1>6 DEF h

LEMMA LeftWorldIs ==
    ASSUME NEW g \in Gateways, NEW c \in Client
    PROVE  LET h == LeftWorld(g, c)
           IN  /\ h \in Gateways /\ h.conns = g.conns /\ h.out = g.out
               /\ h.pending = g.pending /\ h.pendingBy = g.pendingBy
               /\ h.nextSub = g.nextSub /\ h.queue = g.queue
               /\ h.subscribers = g.subscribers /\ h.live = g.live
               /\ \A w \in World : h.attached[w] = g.attached[w] \ {c}
<1> DEFINE h == LeftWorld(g, c)
           attached == [w \in World |-> g.attached[w] \ {c}]
<1>1. h = [g EXCEPT !.attached = attached]
  BY DEF LeftWorld
<1>2. attached \in [World -> SUBSET Client]
  BY FieldTypes
<1>3. /\ h \in Gateways /\ h.conns = g.conns /\ h.out = g.out
      /\ h.pending = g.pending /\ h.pendingBy = g.pendingBy
      /\ h.nextSub = g.nextSub /\ h.queue = g.queue
      /\ h.subscribers = g.subscribers /\ h.live = g.live
      /\ h.attached = attached
  <2> HIDE DEF h, attached
  <2> QED BY <1>1, <1>2 DEF Gateways
<1> HIDE DEF h
<1> QED BY <1>3 DEF h

Left(g, c) == LeftWorld(WithoutCalls(Without(g, c, g.conns[c].subs), c), c)

(* In the indexes of h, and only there, c has left. *)
Parted(g, h, c) ==
    /\ h \in Gateways /\ h.nextSub = g.nextSub /\ h.queue = g.queue
    /\ DOMAIN h.pending = {k \in DOMAIN g.pending : g.pending[k].conn # c}
    /\ \A k \in DOMAIN h.pending : h.pending[k] = g.pending[k]
    /\ h.pendingBy[c] = {}
    /\ \A d \in Client : d # c => h.pendingBy[d] = g.pendingBy[d]
    /\ \A w \in World : h.attached[w] = g.attached[w] \ {c}
    /\ \A w \in World :
          /\ \A d \in Client, s \in SubId :
                Listed(h, w, d, s) <=> Listed(g, w, d, s) /\ ~(d = c /\ s \in g.conns[c].subs)
          /\ \A i, j \in DOMAIN h.subscribers[w] :
                h.subscribers[w][i] = h.subscribers[w][j] => i = j
    /\ h.live = IF g.conns[c].world = None THEN g.live
                ELSE g.live \ {<<g.conns[c].world, s>> : s \in g.conns[c].subs}

(* And so has its session. *)
Departed(g, h, c) ==
    /\ Parted(g, h, c)
    /\ \A d \in Client : d # c => h.conns[d] = g.conns[d]
    /\ Open(h, c) => h.conns[c].world = None /\ h.conns[c].subs = {}
    /\ \A d \in Client : h.out[d].frames = g.out[d].frames /\ h.out[d].msgs = g.out[d].msgs

LEMMA LeftIs ==
    ASSUME NEW g \in Gateways, SubscribersAre(g), NEW c \in Client
    PROVE  /\ Parted(g, Left(g, c), c)
           /\ Left(g, c).conns = g.conns /\ Left(g, c).out = g.out
<1> DEFINE a == Without(g, c, g.conns[c].subs)
           b == WithoutCalls(a, c)
           h == LeftWorld(b, c)
<1>0. Unlisted(g, a, c, g.conns[c].subs)
  BY WithoutIs
<1> HIDE DEF a
<1>1. /\ a \in Gateways /\ a.conns = g.conns /\ a.out = g.out
      /\ a.pending = g.pending /\ a.pendingBy = g.pendingBy
      /\ a.attached = g.attached /\ a.nextSub = g.nextSub /\ a.queue = g.queue
      /\ \A w \in World :
            /\ \A d \in Client, s \in SubId :
                  Listed(a, w, d, s) <=> Listed(g, w, d, s) /\ ~(d = c /\ s \in g.conns[c].subs)
            /\ \A i, j \in DOMAIN a.subscribers[w] :
                  a.subscribers[w][i] = a.subscribers[w][j] => i = j
      /\ a.live = IF g.conns[c].world = None THEN g.live
                  ELSE g.live \ {<<g.conns[c].world, s>> : s \in g.conns[c].subs}
  BY <1>0 DEF Unlisted
<1>2. /\ b \in Gateways /\ b.conns = a.conns /\ b.out = a.out
      /\ b.attached = a.attached /\ b.nextSub = a.nextSub /\ b.queue = a.queue
      /\ b.subscribers = a.subscribers /\ b.live = a.live
      /\ DOMAIN b.pending = {k \in DOMAIN a.pending : a.pending[k].conn # c}
      /\ \A k \in DOMAIN b.pending : b.pending[k] = a.pending[k]
      /\ b.pendingBy[c] = {}
      /\ \A d \in Client : d # c => b.pendingBy[d] = a.pendingBy[d]
  BY <1>1, WithoutCallsIs
<1> HIDE DEF b
<1>3. /\ h \in Gateways /\ h.conns = b.conns /\ h.out = b.out
      /\ h.pending = b.pending /\ h.pendingBy = b.pendingBy
      /\ h.nextSub = b.nextSub /\ h.queue = b.queue
      /\ h.subscribers = b.subscribers /\ h.live = b.live
      /\ \A w \in World : h.attached[w] = b.attached[w] \ {c}
  BY <1>2, LeftWorldIs
<1> HIDE DEF h
<1>4. \A w \in World, d \in Client, s \in SubId : Listed(h, w, d, s) <=> Listed(a, w, d, s)
  BY <1>2, <1>3 DEF Listed
<1>5. Left(g, c) = h
  BY DEF Left, h, b, a
<1> QED BY <1>1, <1>2, <1>3, <1>4, <1>5 DEF Parted

LEMMA DepartedSound ==
    ASSUME NEW gone, NEW reg, NEW cl, NEW iss, NEW g \in Sound(gone, reg, cl, iss),
           NEW c \in Client, Open(g, c), NEW h, Departed(g, h, c)
    PROVE  h \in Sound(gone, reg, cl, iss) /\ Quieter(g, h, cl)
<1>1. g \in Gateways /\ Indexed(g, gone, reg) /\ Answered(g, cl, iss)
  BY SoundIs
<1>2. ASSUME NEW w \in World, NEW d \in Client, NEW s
      PROVE  Holds(h, d, w, s) <=> d # c /\ Holds(g, d, w, s)
  <2>1. CASE d = c
    BY <2>1, Constants DEF Departed, Parted, Holds
  <2>2. CASE d # c
    BY <2>2 DEF Departed, Parted, Holds, Open
  <2> QED BY <2>1, <2>2
<1>3. AttachedIs(h)
  <2> SUFFICES ASSUME NEW w \in World, NEW d \in Client
               PROVE  d \in h.attached[w] <=> Open(h, d) /\ h.conns[d].world = w
    BY DEF AttachedIs
  <2>1. CASE d = c
    BY <2>1, Constants DEF Departed, Parted
  <2>2. CASE d # c
    BY <1>1, <2>2 DEF Departed, Parted, Open, Indexed, AttachedIs
  <2> QED BY <2>1, <2>2
<1>4. SubscribersAre(h)
  <2>1. ASSUME NEW w \in World, NEW d \in Client, NEW s \in SubId
        PROVE  Listed(h, w, d, s) <=> Holds(h, d, w, s)
    <3>1. Listed(h, w, d, s) <=> Listed(g, w, d, s) /\ ~(d = c /\ s \in g.conns[c].subs)
      BY DEF Departed, Parted
    <3>2. Listed(g, w, d, s) <=> Holds(g, d, w, s)
      BY <1>1 DEF Indexed, SubscribersAre
    <3>3. Holds(g, c, w, s) => s \in g.conns[c].subs
      BY DEF Holds
    <3> QED BY <1>2, <3>1, <3>2, <3>3
  <2> QED BY <2>1 DEF SubscribersAre, Departed, Parted
<1>5. SubsAreOwn(h)
  <2>1. \A d \in Client : Open(h, d) /\ h.conns[d].world = None => h.conns[d].subs = {}
    BY <1>1 DEF Indexed, SubsAreOwn, Departed, Parted, Open
  <2>2. \A w \in World, d \in Client, s \in SubId : Holds(h, d, w, s) => s < h.nextSub[w]
    BY <1>1, <1>2 DEF Indexed, SubsAreOwn, Departed, Parted
  <2>3. \A w \in World, d, e \in Client, s \in SubId :
           Holds(h, d, w, s) /\ Holds(h, e, w, s) => d = e
    BY <1>1, <1>2 DEF Indexed, SubsAreOwn
  <2> QED BY <2>1, <2>2, <2>3 DEF SubsAreOwn
<1>6. LiveIs(h, gone)
  <2> SUFFICES ASSUME NEW w \in World \ gone, NEW s \in SubId
               PROVE  <<w, s>> \in h.live <=> \E d \in Client : Holds(h, d, w, s)
    BY DEF LiveIs
  <2>1. <<w, s>> \in g.live <=> \E d \in Client : Holds(g, d, w, s)
    BY <1>1 DEF Indexed, LiveIs
  <2>2. <<w, s>> \in h.live <=> <<w, s>> \in g.live /\ ~Holds(g, c, w, s)
    <3>1. CASE g.conns[c].world = None
      BY <3>1, Constants DEF Departed, Parted, Holds
    <3>2. CASE g.conns[c].world # None
      <4>1. <<w, s>> \in h.live <=>
               <<w, s>> \in g.live /\ <<w, s>> \notin {<<g.conns[c].world, x>> : x \in g.conns[c].subs}
        BY <3>2 DEF Departed, Parted
      <4>2. <<w, s>> \in {<<g.conns[c].world, x>> : x \in g.conns[c].subs}
               <=> g.conns[c].world = w /\ s \in g.conns[c].subs
        OBVIOUS
      <4> QED BY <4>1, <4>2 DEF Holds
    <3> QED BY <3>1, <3>2
  <2>3. \A d \in Client : Holds(g, d, w, s) /\ Holds(g, c, w, s) => d = c
    BY <1>1 DEF Indexed, SubsAreOwn
  <2> QED BY <1>2, <2>1, <2>2, <2>3
<1>7. PendingIs(h)
  <2>1. \A k \in DOMAIN g.pending : g.pending[k] \in PendingCall /\ g.pending[k].conn \in Client
    BY <1>1, FieldTypes DEF PendingCall
  <2>2. /\ \A k \in DOMAIN h.pending : k \in DOMAIN g.pending /\ h.pending[k] = g.pending[k]
                                        /\ h.pending[k].conn # c
        /\ \A k \in DOMAIN g.pending : g.pending[k].conn # c => k \in DOMAIN h.pending
    BY DEF Departed, Parted
  <2>3. \A k \in DOMAIN h.pending : h.pending[k].id \in h.pendingBy[h.pending[k].conn]
    BY <1>1, <2>1, <2>2 DEF Indexed, PendingIs, Departed, Parted
  <2>4. ASSUME NEW d \in Client, NEW id \in h.pendingBy[d]
        PROVE  \E k \in DOMAIN h.pending : h.pending[k].conn = d /\ h.pending[k].id = id
    <3>1. d # c /\ id \in g.pendingBy[d]
      BY DEF Departed, Parted
    <3>2. PICK k \in DOMAIN g.pending : g.pending[k].conn = d /\ g.pending[k].id = id
      BY <1>1, <3>1 DEF Indexed, PendingIs
    <3> QED BY <2>2, <3>1, <3>2
  <2>5. \A j, k \in DOMAIN h.pending :
           h.pending[j].conn = h.pending[k].conn /\ h.pending[j].id = h.pending[k].id => j = k
    BY <1>1, <2>2 DEF Indexed, PendingIs
  <2> QED BY <2>3, <2>4, <2>5 DEF PendingIs
<1>8. Unopened(h, reg)
  <2>1. \A d \in Client : Open(h, d) => Open(g, d)
    BY DEF Departed, Parted, Open
  <2> QED BY <1>1, <2>1 DEF Indexed, Unopened
<1>9. Quieter(g, h, cl)
  <2>1. \A d \in Client, b \in Boxes : Box(h, cl, d, b) = Box(g, cl, d, b)
    BY DEF Departed, Parted, Box
  <2> QED BY <2>1 DEF Quieter, Departed, Parted
<1>10. Answered(h, cl, iss)
  BY <1>1, <1>9, QuieterAnswered
<1>11. h \in Gateways
  BY DEF Departed, Parted
<1> QED BY <1>3, <1>4, <1>5, <1>6, <1>7, <1>8, <1>9, <1>10, <1>11 DEF Sound, Indexed

LEMMA DropSound ==
    ASSUME NEW gone, NEW reg, NEW cl, NEW iss, NEW g \in Sound(gone, reg, cl, iss),
           NEW c \in Client
    PROVE  DropConnection(g, c) \in Sound(gone, reg, cl, iss)
<1>1. g \in Gateways /\ Indexed(g, gone, reg) /\ Answered(g, cl, iss)
  BY SoundIs
<1>2. CASE ~Open(g, c)
  BY <1>2 DEF DropConnection
<1>3. CASE Open(g, c)
  <2> DEFINE l == Left(g, c)
             conns == [g.conns EXCEPT ![c] = None]
             o == [g.out[c] EXCEPT !.closed = TRUE]
             out == [g.out EXCEPT ![c] = o]
             h == [l EXCEPT !.conns = conns, !.out = out]
  <2>1. SubscribersAre(g)
    BY <1>1 DEF Indexed
  <2>2. l \in Gateways /\ l.conns = g.conns /\ l.out = g.out
    BY <1>1, <2>1, LeftIs DEF Parted
  <2>3. DropConnection(g, c) = [l EXCEPT !.conns[c] = None, !.out[c].closed = TRUE]
    BY <1>3 DEF DropConnection, Left
  <2> HIDE DEF l
  <2>4. DropConnection(g, c) = h
    BY <2>2, <2>3, FieldTypes DEF Gateways
  <2>5. g.conns \in [Client -> Connection \cup {None}] /\ g.out \in [Client -> Outbox]
        /\ g.out[c] \in Outbox
    BY <1>1, FieldTypes
  <2>6. o \in Outbox /\ o.frames = g.out[c].frames /\ o.msgs = g.out[c].msgs
    BY <2>5 DEF Outbox
  <2>7. /\ conns \in [Client -> Connection \cup {None}] /\ conns[c] = None
        /\ \A d \in Client : d # c => conns[d] = g.conns[d]
    BY <2>5
  <2>8. /\ out \in [Client -> Outbox] /\ out[c] = o
        /\ \A d \in Client : d # c => out[d] = g.out[d]
    <3> HIDE DEF o
    <3> QED BY <2>5, <2>6
  <2>9. /\ h \in Gateways /\ h.conns = conns /\ h.out = out
        /\ h.pending = l.pending /\ h.pendingBy = l.pendingBy
        /\ h.attached = l.attached /\ h.subscribers = l.subscribers
        /\ h.live = l.live /\ h.nextSub = l.nextSub /\ h.queue = l.queue
    <3> HIDE DEF conns, out, o
    <3> QED BY <2>2, <2>7, <2>8 DEF Gateways
  <2> HIDE DEF h, conns, out, o
  <2>10. Departed(g, h, c)
    <3>1. ~Open(h, c) /\ \A d \in Client : d # c => h.conns[d] = g.conns[d]
      BY <2>7, <2>9 DEF Open
    <3>2. \A d \in Client : h.out[d].frames = g.out[d].frames /\ h.out[d].msgs = g.out[d].msgs
      BY <2>6, <2>8, <2>9
    <3>3. \A w \in World, d \in Client, s \in SubId : Listed(h, w, d, s) <=> Listed(l, w, d, s)
      BY <2>9 DEF Listed
    <3>4. Parted(g, l, c)
      BY <1>1, <2>1, LeftIs DEF l
    <3>5. Parted(g, h, c)
      BY <2>9, <3>3, <3>4 DEF Parted
    <3> QED BY <3>1, <3>2, <3>5 DEF Departed
  <2> QED BY <1>3, <2>4, <2>10, DepartedSound
<1> QED BY <1>2, <1>3

(* What is not a result may always be sent. *)
LEMMA NoResult ==
    ASSUME NEW g, NEW cl, NEW iss, NEW c, NEW m, ~IsResult(m)
    PROVE  Sendable(g, cl, iss, c, m)
  BY DEF Sendable

LEMMA DisconnectSound ==
    ASSUME NEW gone, NEW reg, NEW cl, NEW iss, NEW g \in Sound(gone, reg, cl, iss),
           NEW c \in Client
    PROVE  Disconnect(g, c) \in Sound(gone, reg, cl, iss)
<1>1. CASE Open(g, c) /\ Room(g, c) > 0
  <2>1. Disconnect(g, c) = DropConnection(PushFrame(g, c, Bye), c)
    BY <1>1 DEF Disconnect
  <2>2. Bye \in Message /\ Sendable(g, cl, iss, c, Bye)
    BY NoResult, Sayable
  <2>3. PushFrame(g, c, Bye) \in Sound(gone, reg, cl, iss)
    BY <1>1, <2>2, PushSound
  <2> QED BY <2>1, <2>3, DropSound
<1>2. CASE ~(Open(g, c) /\ Room(g, c) > 0)
  <2>1. Disconnect(g, c) = DropConnection(g, c)
    BY <1>2 DEF Disconnect
  <2> QED BY <2>1, DropSound
<1> QED BY <1>1, <1>2

LEMMA MarkStaleSound ==
    ASSUME NEW gone, NEW reg, NEW cl, NEW iss, NEW g \in Sound(gone, reg, cl, iss),
           NEW c \in Client, Open(g, c)
    PROVE  MarkStale(g, c) \in Sound(gone, reg, cl, iss)
<1>1. g \in Gateways
  BY SoundIs
<1> QED BY <1>1, MarkStaleIs, TalkSound

LEMMA FlushSound ==
    ASSUME NEW gone, NEW reg, NEW cl, NEW iss, NEW g \in Sound(gone, reg, cl, iss),
           NEW c \in Client, Open(g, c), NEW m, Sendable(g, cl, iss, c, m)
    PROVE  /\ FlushNotices(g, c) \in Sound(gone, reg, cl, iss) /\ Open(FlushNotices(g, c), c)
           /\ Sendable(FlushNotices(g, c), cl, iss, c, m)
<1>1. g \in Gateways
  BY SoundIs
<1>2. Talk(g, FlushNotices(g, c)) /\ Quieter(g, FlushNotices(g, c), cl)
  BY <1>1, FlushNoticesIs
<1>3. Open(FlushNotices(g, c), c)
  BY <1>2 DEF Talk
<1> QED BY <1>2, <1>3, TalkSound, QuieterSendable

LEMMA SendEncodedSound ==
    ASSUME NEW gone, NEW reg, NEW cl, NEW iss, NEW g \in Sound(gone, reg, cl, iss),
           NEW c \in Client, NEW m \in Message, Sendable(g, cl, iss, c, m)
    PROVE  SendEncoded(g, c, m) \in Sound(gone, reg, cl, iss)
<1>1. CASE ~Open(g, c)
  BY <1>1 DEF SendEncoded
<1>2. CASE Open(g, c)
  <2> DEFINE f == FlushNotices(g, c)
  <2>1. f \in Sound(gone, reg, cl, iss) /\ Open(f, c) /\ Sendable(f, cl, iss, c, m)
    BY <1>2, FlushSound
  <2>2. SendEncoded(g, c, m) =
            IF f.conns[c].stale /\ ~Signal(m) THEN f
            ELSE IF Room(f, c) > 0 THEN PushFrame(f, c, m)
            ELSE IF f.out[c].closed THEN DropConnection(f, c)
            ELSE IF scene.policy = "Disconnect" THEN Disconnect(f, c)
            ELSE MarkStale(f, c)
    BY <1>2 DEF SendEncoded
  <2> HIDE DEF f
  <2>3. Room(f, c) > 0 => PushFrame(f, c, m) \in Sound(gone, reg, cl, iss)
    BY <2>1, PushSound
  <2>4. /\ DropConnection(f, c) \in Sound(gone, reg, cl, iss)
        /\ Disconnect(f, c) \in Sound(gone, reg, cl, iss)
        /\ MarkStale(f, c) \in Sound(gone, reg, cl, iss)
    BY <2>1, DropSound, DisconnectSound, MarkStaleSound
  <2> QED BY <2>1, <2>2, <2>3, <2>4
<1> QED BY <1>1, <1>2

LEMMA SendSound ==
    ASSUME NEW gone, NEW reg, NEW cl, NEW iss, NEW g \in Sound(gone, reg, cl, iss),
           NEW c \in Client, NEW m \in Message, Sendable(g, cl, iss, c, m)
    PROVE  Send(g, c, m) \in Sound(gone, reg, cl, iss)
<1>1. CASE ~Open(g, c)
  BY <1>1 DEF Send
<1>2. CASE Open(g, c)
  <2> DEFINE f == FlushNotices(g, c)
  <2>1. f \in Sound(gone, reg, cl, iss) /\ Open(f, c) /\ Sendable(f, cl, iss, c, m)
    BY <1>2, FlushSound
  <2>2. Send(g, c, m) =
            IF f.conns[c].stale /\ ~Signal(m) THEN f
            ELSE IF Direct /\ Room(f, c) > 0 THEN PushMessage(f, c, m)
            ELSE SendEncoded(f, c, m)
    BY <1>2 DEF Send
  <2> HIDE DEF f
  <2>3. Room(f, c) > 0 => PushMessage(f, c, m) \in Sound(gone, reg, cl, iss)
    BY <2>1, PushSound
  <2>4. SendEncoded(f, c, m) \in Sound(gone, reg, cl, iss)
    BY <2>1, SendEncodedSound
  <2> QED BY <2>1, <2>2, <2>3, <2>4
<1> QED BY <1>1, <1>2

LEMMA SendDirectSound ==
    ASSUME NEW gone, NEW reg, NEW cl, NEW iss, NEW g \in Sound(gone, reg, cl, iss),
           NEW c \in Client, NEW m \in Message, Sendable(g, cl, iss, c, m)
    PROVE  SendDirect(g, c, m) \in Sound(gone, reg, cl, iss)
<1>1. Room(g, c) \in Nat
  BY SoundIs, OutFields
<1>2. CASE ~Open(g, c) \/ ~Direct \/ g.out[c].closed \/ g.conns[c].stale
  BY <1>2 DEF SendDirect
<1>3. CASE ~(~Open(g, c) \/ ~Direct \/ g.out[c].closed \/ g.conns[c].stale)
  <2>1. SendDirect(g, c, m) = IF Room(g, c) = 0 THEN MarkStale(g, c) ELSE PushMessage(g, c, m)
    BY <1>3 DEF SendDirect
  <2>2. Room(g, c) # 0 => PushMessage(g, c, m) \in Sound(gone, reg, cl, iss)
    BY <1>1, PushSound
  <2>3. MarkStale(g, c) \in Sound(gone, reg, cl, iss)
    BY <1>3, MarkStaleSound
  <2> QED BY <2>1, <2>2, <2>3
<1> QED BY <1>2, <1>3

-----------------------------------------------------------------------------
(* Answering a call. *)

(* h is g without the pending call of that key. *)
Unpended(g, h, key) ==
    /\ h \in Gateways /\ h.conns = g.conns /\ h.out = g.out
    /\ h.attached = g.attached /\ h.nextSub = g.nextSub /\ h.queue = g.queue
    /\ h.subscribers = g.subscribers /\ h.live = g.live
    /\ DOMAIN h.pending = DOMAIN g.pending \ {key}
    /\ \A k \in DOMAIN h.pending : h.pending[k] = g.pending[k]
    /\ h.pendingBy[g.pending[key].conn] = g.pendingBy[g.pending[key].conn] \ {g.pending[key].id}
    /\ \A d \in Client : d # g.pending[key].conn => h.pendingBy[d] = g.pendingBy[d]

LEMMA UnpendedIs ==
    ASSUME NEW g \in Gateways, NEW key \in DOMAIN g.pending
    PROVE  LET p == g.pending[key]
           IN  Unpended(g, [g EXCEPT !.pending = [k \in DOMAIN @ \ {key} |-> @[k]],
                                     !.pendingBy[p.conn] = @ \ {p.id}], key)
<1> DEFINE p == g.pending[key]
           pending == [k \in DOMAIN g.pending \ {key} |-> g.pending[k]]
           pendingBy == [g.pendingBy EXCEPT ![p.conn] = @ \ {p.id}]
           h == [g EXCEPT !.pending = pending, !.pendingBy = pendingBy]
<1>1. /\ DOMAIN g.pending \subseteq Nat
      /\ \A k \in DOMAIN g.pending : g.pending[k] \in PendingCall
      /\ g.pendingBy \in [Client -> SUBSET Nat]
  BY FieldTypes
<1>2. p.conn \in Client
  BY <1>1 DEF PendingCall
<1>3. /\ DOMAIN pending = DOMAIN g.pending \ {key}
      /\ \A k \in DOMAIN pending : pending[k] = g.pending[k]
  OBVIOUS
<1>4. pending \in UNION {[keys -> PendingCall] : keys \in SUBSET Nat}
  <2>1. DOMAIN pending \in SUBSET Nat /\ pending \in [DOMAIN pending -> PendingCall]
    BY <1>1
  <2> HIDE DEF pending
  <2> QED BY <2>1
<1>5. /\ pendingBy \in [Client -> SUBSET Nat] /\ pendingBy[p.conn] = g.pendingBy[p.conn] \ {p.id}
      /\ \A d \in Client : d # p.conn => pendingBy[d] = g.pendingBy[d]
  <2> HIDE DEF p
  <2> QED BY <1>1, <1>2
<1>6. h = [g EXCEPT !.pending = [k \in DOMAIN @ \ {key} |-> @[k]],
                    !.pendingBy[p.conn] = @ \ {p.id}]
  <2> HIDE DEF p
  <2> QED BY DEF Gateways
<1>7. /\ h \in Gateways /\ h.conns = g.conns /\ h.out = g.out
      /\ h.attached = g.attached /\ h.nextSub = g.nextSub /\ h.queue = g.queue
      /\ h.subscribers = g.subscribers /\ h.live = g.live
      /\ h.pending = pending /\ h.pendingBy = pendingBy
  <2> HIDE DEF pending, pendingBy
  <2> QED BY <1>4, <1>5 DEF Gateways
<1>8. Unpended(g, h, key)
  <2> HIDE DEF h, pending, pendingBy
  <2> QED BY <1>3, <1>5, <1>7 DEF Unpended
<1> QED BY <1>6, <1>8

LEMMA UnpendedSound ==
    ASSUME NEW gone, NEW reg, NEW cl, NEW iss, NEW g \in Sound(gone, reg, cl, iss),
           NEW key \in DOMAIN g.pending, NEW h, Unpended(g, h, key)
    PROVE  h \in Sound(gone, reg, cl, iss)
<1>1. g \in Gateways /\ Indexed(g, gone, reg) /\ Answered(g, cl, iss)
  BY SoundIs
<1>2. \A c \in Client : \A w, s : Holds(h, c, w, s) <=> Holds(g, c, w, s)
  BY DEF Unpended, Holds, Open
<1>3. AttachedIs(h)
  BY <1>1 DEF Unpended, Indexed, AttachedIs, Open
<1>4. SubscribersAre(h)
  <2>1. \A w \in World, c \in Client, s \in SubId : Listed(h, w, c, s) <=> Listed(g, w, c, s)
    BY DEF Unpended, Listed
  <2>2. h.subscribers = g.subscribers
    BY DEF Unpended
  <2> QED BY <1>1, <1>2, <2>1, <2>2 DEF Indexed, SubscribersAre
<1>5. SubsAreOwn(h)
  BY <1>1, <1>2 DEF Unpended, Indexed, SubsAreOwn, Open
<1>6. LiveIs(h, gone)
  BY <1>1, <1>2 DEF Unpended, Indexed, LiveIs
<1>7. PendingIs(h)
  <2>1. \A k \in DOMAIN g.pending : g.pending[k].conn \in Client
    BY <1>1, FieldTypes DEF PendingCall
  <2>2. /\ \A k \in DOMAIN h.pending : /\ k \in DOMAIN g.pending /\ k # key
                                       /\ h.pending[k] = g.pending[k]
        /\ \A k \in DOMAIN g.pending : k # key => k \in DOMAIN h.pending
    BY DEF Unpended
  <2>3. \A j, k \in DOMAIN g.pending :
           g.pending[j].conn = g.pending[k].conn /\ g.pending[j].id = g.pending[k].id => j = k
    BY <1>1 DEF Indexed, PendingIs
  <2>4. ASSUME NEW k \in DOMAIN h.pending PROVE h.pending[k].id \in h.pendingBy[h.pending[k].conn]
    <3>1. g.pending[k].id \in g.pendingBy[g.pending[k].conn]
      BY <1>1, <2>2 DEF Indexed, PendingIs
    <3>2. CASE g.pending[k].conn = g.pending[key].conn
      <4>1. g.pending[k].id # g.pending[key].id
        BY <2>2, <2>3, <3>2
      <4> QED BY <2>2, <3>1, <3>2, <4>1 DEF Unpended
    <3>3. CASE g.pending[k].conn # g.pending[key].conn
      BY <2>1, <2>2, <3>1, <3>3 DEF Unpended
    <3> QED BY <3>2, <3>3
  <2>5. ASSUME NEW d \in Client, NEW id \in h.pendingBy[d]
        PROVE  \E k \in DOMAIN h.pending : h.pending[k].conn = d /\ h.pending[k].id = id
    <3>1. id \in g.pendingBy[d] /\ (d = g.pending[key].conn => id # g.pending[key].id)
      BY DEF Unpended
    <3>2. PICK k \in DOMAIN g.pending : g.pending[k].conn = d /\ g.pending[k].id = id
      BY <1>1, <3>1 DEF Indexed, PendingIs
    <3> QED BY <2>2, <3>1, <3>2
  <2>6. \A j, k \in DOMAIN h.pending :
           h.pending[j].conn = h.pending[k].conn /\ h.pending[j].id = h.pending[k].id => j = k
    BY <2>2, <2>3
  <2> QED BY <2>4, <2>5, <2>6 DEF PendingIs
<1>8. Unopened(h, reg)
  BY <1>1 DEF Unpended, Indexed, Unopened, Open
<1>9. Quieter(g, h, cl)
  <2>1. \A d \in Client, b \in Boxes : Box(h, cl, d, b) = Box(g, cl, d, b)
    BY DEF Unpended, Box
  <2> QED BY <2>1 DEF Quieter, Unpended
<1>10. Answered(h, cl, iss)
  BY <1>1, <1>9, QuieterAnswered
<1>11. h \in Gateways
  BY DEF Unpended
<1> QED BY <1>3, <1>4, <1>5, <1>6, <1>7, <1>8, <1>10, <1>11 DEF Sound, Indexed

(* The answer to a pending call is the first to that call. *)
LEMMA SettleSound ==
    ASSUME NEW gone, NEW reg, NEW cl, NEW iss \in Seq(Issued),
           NEW g \in Sound(gone, reg, cl, iss),
           NEW key, NEW ok \in BOOLEAN
    PROVE  Settle(g, key, key, ok) \in Sound(gone, reg, cl, iss)
<1>1. g \in Gateways /\ Indexed(g, gone, reg) /\ Answered(g, cl, iss)
  BY SoundIs
<1>2. CASE key \notin DOMAIN g.pending
  BY <1>2 DEF Settle
<1>3. CASE key \in DOMAIN g.pending
  <2> DEFINE p == g.pending[key]
             h == [g EXCEPT !.pending = [k \in DOMAIN @ \ {key} |-> @[k]],
                            !.pendingBy[p.conn] = @ \ {p.id}]
             m == Result(p.id, key, ok)
  <2>1. Settle(g, key, key, ok) = Send(h, p.conn, m)
    BY <1>3 DEF Settle
  <2>2. Unpended(g, h, key)
    BY <1>1, <1>3, UnpendedIs
  <2> HIDE DEF h
  <2>3. h \in Sound(gone, reg, cl, iss)
    BY <1>3, <2>2, UnpendedSound
  <2>4. p \in PendingCall /\ p.conn \in Client /\ p.id \in Nat
    BY <1>1, <1>3, FieldTypes DEF PendingCall
  <2>5. /\ key \in 1 .. Len(iss) /\ key \in Nat
        /\ iss[key].conn = p.conn /\ iss[key].id = p.id
    BY <1>1, <1>3 DEF Answered, CallsAre
  <2>6. m \in Message /\ m.gid = key /\ m.id = p.id
    BY <2>4, <2>5, Sayable
  <2> HIDE DEF m, p
  <2>7. Sendable(h, cl, iss, p.conn, m)
    <3>1. Answers(h, iss, p.conn, m)
      BY <2>2, <2>5, <2>6 DEF Answers, Unpended
    <3>2. ASSUME NEW b \in Boxes, NEW i \in DOMAIN Box(h, cl, p.conn, b),
                 IsResult(Box(h, cl, p.conn, b)[i])
          PROVE  Box(h, cl, p.conn, b)[i].gid # key
      <4>1. Box(h, cl, p.conn, b) = Box(g, cl, p.conn, b)
        BY <2>2 DEF Unpended, Box
      <4>2. Answers(g, iss, p.conn, Box(g, cl, p.conn, b)[i])
        BY <1>1, <2>4, <3>2, <4>1 DEF Answered, AnswersAre
      <4> QED BY <1>3, <4>1, <4>2 DEF Answers
    <3> QED BY <2>6, <3>1, <3>2 DEF Sendable
  <2> QED BY <2>1, <2>3, <2>4, <2>6, <2>7, SendSound
<1> QED BY <1>2, <1>3

-----------------------------------------------------------------------------
(* The loops: every round keeps the gateway sound. *)

(* The tick's broadcast, whoever it disconnects. *)
LEMMA BroadcastSound ==
    ASSUME NEW gone, NEW reg, NEW cl, NEW iss, NEW g \in Sound(gone, reg, cl, iss),
           NEW w \in World
    PROVE  Broadcast(g, w) \in Sound(gone, reg, cl, iss)
<1> DEFINE D == Sound(gone, reg, cl, iss)
           n == Cardinality(Client)
           Step(x, i) == IF i \in g.attached[w] THEN SendEncoded(x, i, Tick) ELSE x
           Runs(f) == f = [i \in 0 .. n |-> IF i = 0 THEN g ELSE Step(f[i - 1], i)]
           told == CHOOSE f : Runs(f)
<1>1. Broadcast(g, w) = told[n]
  BY DEF Broadcast
<1>2. n \in Nat
  BY Constants
<1>3. ASSUME NEW x \in D, NEW i \in 1 .. n PROVE Step(x, i) \in D
  <2>1. i \in Client /\ Tick \in Message /\ Sendable(x, cl, iss, i, Tick)
    BY Constants, Sayable, NoResult
  <2> QED BY <2>1, SendEncodedSound
<1> HIDE DEF Step, n, D
<1> DEFINE G == [i \in 1 .. n |-> [x \in D |-> Step(x, i)]]
<1>4. G \in [1 .. n -> [D -> D]]
  BY <1>3
<1>5. g \in D
  BY DEF D
<1>6. PICK f : Iterates(f, n, D, g, G)
  <2> HIDE DEF G
  <2> QED BY <1>2, <1>4, <1>5, IterationExists
<1>7. ASSUME NEW i \in 1 .. n PROVE f[i] = Step(f[i - 1], i)
  <2>1. i - 1 \in 0 .. n
    BY <1>2
  <2>2. f[i - 1] \in D
    BY <1>6, <2>1 DEF Iterates
  <2> QED BY <1>6, <2>2 DEF Iterates
<1>8. Runs(f)
  <2>1. ASSUME NEW i \in 0 .. n PROVE f[i] = IF i = 0 THEN g ELSE Step(f[i - 1], i)
    <3>1. i = 0 \/ i \in 1 .. n
      BY <1>2
    <3> QED BY <1>6, <1>7, <3>1 DEF Iterates
  <2> QED BY <1>6, <2>1 DEF Iterates
<1>9. Runs(told)
  <2> HIDE DEF Runs
  <2> QED BY <1>8
<1> HIDE DEF told
<1> DEFINE In == {i \in 0 .. n : told[i] \in D}
<1>10. 0 \in In
  BY <1>2, <1>5, <1>9
<1>11. ASSUME NEW i \in 1 .. n, i - 1 \in In PROVE i \in In
  <2>1. i \in 0 .. n /\ i # 0
    BY <1>2
  <2>2. told[i] = Step(told[i - 1], i)
    BY <1>9, <2>1
  <2> QED BY <1>3, <1>11, <2>1, <2>2
<1>12. n \in In
  <2> HIDE DEF In
  <2>1. 0 .. n \subseteq In
    BY <1>2, <1>10, <1>11, InductionOnInterval
  <2> QED BY <1>2, <2>1
<1>13. told[n] \in D
  BY <1>12
<1> QED BY <1>1, <1>13 DEF D

(* The subscribers' deltas. *)
LEMMA DeltasSound ==
    ASSUME NEW gone, NEW reg, NEW cl, NEW iss, NEW g \in Sound(gone, reg, cl, iss),
           NEW w \in World, NEW v \in Nat
    PROVE  Deltas(g, w, v) \in Sound(gone, reg, cl, iss)
<1> DEFINE D == Sound(gone, reg, cl, iss)
           n == Len(g.subscribers[w])
           Step(x, i) == SendDirect(x, g.subscribers[w][i][1], Delta(g.subscribers[w][i][2], v))
           Runs(f) == f = [i \in 0 .. n |-> IF i = 0 THEN g ELSE Step(f[i - 1], i)]
           told == CHOOSE f : Runs(f)
<1>1. Deltas(g, w, v) = told[n]
  BY DEF Deltas
<1>0. g.subscribers[w] \in Seq(Client \X SubId)
  BY SoundIs, FieldTypes
<1>2. n \in Nat
  BY <1>0
<1>3. ASSUME NEW x \in D, NEW i \in 1 .. n PROVE Step(x, i) \in D
  <2> DEFINE p == g.subscribers[w][i]
  <2>1. p \in Client \X SubId
    BY <1>0
  <2>2. p[1] \in Client /\ p[2] \in SubId
    <3> HIDE DEF p
    <3> QED BY <2>1
  <2> HIDE DEF p
  <2>3. Delta(p[2], v) \in Message /\ Sendable(x, cl, iss, p[1], Delta(p[2], v))
    BY <2>2, Sayable, NoResult
  <2>4. SendDirect(x, p[1], Delta(p[2], v)) \in D
    BY <2>2, <2>3, SendDirectSound
  <2> QED BY <2>4 DEF p
<1> HIDE DEF Step, n, D
<1> DEFINE G == [i \in 1 .. n |-> [x \in D |-> Step(x, i)]]
<1>4. G \in [1 .. n -> [D -> D]]
  BY <1>3
<1>5. g \in D
  BY DEF D
<1>6. PICK f : Iterates(f, n, D, g, G)
  <2> HIDE DEF G
  <2> QED BY <1>2, <1>4, <1>5, IterationExists
<1>7. ASSUME NEW i \in 1 .. n PROVE f[i] = Step(f[i - 1], i)
  <2>1. i - 1 \in 0 .. n
    BY <1>2
  <2>2. f[i - 1] \in D
    BY <1>6, <2>1 DEF Iterates
  <2> QED BY <1>6, <2>2 DEF Iterates
<1>8. Runs(f)
  <2>1. ASSUME NEW i \in 0 .. n PROVE f[i] = IF i = 0 THEN g ELSE Step(f[i - 1], i)
    <3>1. i = 0 \/ i \in 1 .. n
      BY <1>2
    <3> QED BY <1>6, <1>7, <3>1 DEF Iterates
  <2> QED BY <1>6, <2>1 DEF Iterates
<1>9. Runs(told)
  <2> HIDE DEF Runs
  <2> QED BY <1>8
<1> HIDE DEF told
<1> DEFINE In == {i \in 0 .. n : told[i] \in D}
<1>10. 0 \in In
  BY <1>2, <1>5, <1>9
<1>11. ASSUME NEW i \in 1 .. n, i - 1 \in In PROVE i \in In
  <2>1. i \in 0 .. n /\ i # 0
    BY <1>2
  <2>2. told[i] = Step(told[i - 1], i)
    BY <1>9, <2>1
  <2> QED BY <1>3, <1>11, <2>1, <2>2
<1>12. n \in In
  <2> HIDE DEF In
  <2>1. 0 .. n \subseteq In
    BY <1>2, <1>10, <1>11, InductionOnInterval
  <2> QED BY <1>2, <2>1
<1>13. told[n] \in D
  BY <1>12
<1> QED BY <1>1, <1>13 DEF D

(* The indexes are about sessions, lists and pending calls only. *)
LEMMA SameIndexes ==
    ASSUME NEW g, NEW h, NEW gone, NEW reg, NEW later, Indexed(g, gone, reg), LiveIs(h, later),
           h.conns = g.conns, h.attached = g.attached, h.subscribers = g.subscribers,
           h.nextSub = g.nextSub, h.pending = g.pending, h.pendingBy = g.pendingBy
    PROVE  Indexed(h, later, reg)
<1>1. \A c \in Client : \A w, s : Holds(h, c, w, s) <=> Holds(g, c, w, s)
  BY DEF Holds, Open
<1>2. AttachedIs(h)
  BY DEF Indexed, AttachedIs, Open
<1>3. SubscribersAre(h)
  <2>1. \A w \in World, c \in Client, s \in SubId : Listed(h, w, c, s) <=> Listed(g, w, c, s)
    BY DEF Listed
  <2> QED BY <1>1, <2>1 DEF Indexed, SubscribersAre
<1>4. SubsAreOwn(h)
  BY <1>1 DEF Indexed, SubsAreOwn, Open
<1>5. PendingIs(h)
  BY DEF Indexed, PendingIs
<1>6. Unopened(h, reg)
  BY DEF Indexed, Unopened, Open
<1> QED BY <1>2, <1>3, <1>4, <1>5, <1>6 DEF Indexed

(* The runtime's queue of a world is emptied, and its subscriptions end. *)
Emptied(g, w, live) == [g EXCEPT !.queue[w] = <<>>, !.live = live]

LEMMA EmptiedSound ==
    ASSUME NEW gone, NEW reg, NEW cl, NEW iss, NEW g \in Sound(gone, reg, cl, iss),
           NEW w \in World, NEW live \in SUBSET (World \X SubId), NEW later,
           LiveIs(Emptied(g, w, live), later)
    PROVE  Emptied(g, w, live) \in Sound(later, reg, cl, iss)
<1> DEFINE h == Emptied(g, w, live)
           queue == [g.queue EXCEPT ![w] = <<>>]
<1>1. g \in Gateways /\ Indexed(g, gone, reg) /\ Answered(g, cl, iss)
  BY SoundIs
<1>2. g.queue \in [World -> Seq(QueuedCall)]
  BY <1>1, FieldTypes
<1>3. /\ queue \in [World -> Seq(QueuedCall)]
      /\ \A v \in World : \A i \in DOMAIN queue[v] :
            i \in DOMAIN g.queue[v] /\ queue[v][i] = g.queue[v][i]
  BY <1>2
<1>4. h = [g EXCEPT !.queue = queue, !.live = live]
  BY <1>1 DEF Gateways, Emptied
<1>5. /\ h \in Gateways /\ h.conns = g.conns /\ h.out = g.out
      /\ h.pending = g.pending /\ h.pendingBy = g.pendingBy
      /\ h.attached = g.attached /\ h.subscribers = g.subscribers
      /\ h.live = live /\ h.nextSub = g.nextSub /\ h.queue = queue
  <2> HIDE DEF h, queue
  <2> QED BY <1>1, <1>3, <1>4 DEF Gateways
<1> HIDE DEF h, queue
<1>6. Indexed(h, later, reg)
  <2>1. LiveIs(h, later)
    BY DEF h
  <2> QED BY <1>1, <1>5, <2>1, SameIndexes
<1>7. Quieter(g, h, cl)
  <2>1. \A d \in Client, b \in Boxes : Box(h, cl, d, b) = Box(g, cl, d, b)
    BY <1>5 DEF Box
  <2> QED BY <1>3, <1>5, <2>1 DEF Quieter
<1>8. Answered(h, cl, iss)
  BY <1>1, <1>7, QuieterAnswered
<1>9. h \in Sound(later, reg, cl, iss)
  BY <1>5, <1>6, <1>8 DEF Sound
<1> QED BY <1>9 DEF h

(* The runtime's queue of a world is emptied, and nothing else happens. *)
Unqueued(g, w) == [g EXCEPT !.queue[w] = <<>>]

LEMMA UnqueuedSound ==
    ASSUME NEW gone, NEW reg, NEW cl, NEW iss, NEW g \in Sound(gone, reg, cl, iss),
           NEW w \in World
    PROVE  Unqueued(g, w) \in Sound(gone, reg, cl, iss)
<1> DEFINE h == Emptied(g, w, g.live)
<1>1. g \in Gateways /\ Indexed(g, gone, reg)
  BY SoundIs
<1>2. g.live \in SUBSET (World \X SubId)
  BY <1>1, FieldTypes
<1>3. h.live = g.live /\ h.conns = g.conns /\ h = Unqueued(g, w)
  BY <1>1 DEF Emptied, Unqueued, Gateways
<1>4. LiveIs(h, gone)
  <2> HIDE DEF h
  <2>1. \A c \in Client : \A v, s : Holds(h, c, v, s) <=> Holds(g, c, v, s)
    BY <1>3 DEF Holds, Open
  <2>2. LiveIs(g, gone)
    BY <1>1 DEF Indexed
  <2>3. ASSUME NEW v \in World \ gone, NEW s \in SubId
        PROVE  <<v, s>> \in h.live <=> \E c \in Client : Holds(h, c, v, s)
    <3>1. <<v, s>> \in g.live <=> \E c \in Client : Holds(g, c, v, s)
      BY <2>2 DEF LiveIs
    <3> QED BY <1>3, <2>1, <3>1
  <2> QED BY <2>3, Zenon DEF LiveIs
<1>5. h \in Sound(gone, reg, cl, iss)
  BY <1>2, <1>4, EmptiedSound
<1> QED BY <1>3, <1>5

(* The results of a tick, in call order. *)
LEMMA ResultsSound ==
    ASSUME NEW gone, NEW reg, NEW cl, NEW iss \in Seq(Issued), NEW g \in Sound(gone, reg, cl, iss),
           NEW w \in World
    PROVE  Results(g, w) \in Sound(gone, reg, cl, iss)
<1> DEFINE D == Sound(gone, reg, cl, iss)
           n == Len(g.queue[w])
           Step(x, i) == Settle(x, g.queue[w][i].key, g.queue[w][i].gid, TRUE)
           Runs(f) == f = [i \in 0 .. n |-> IF i = 0 THEN g ELSE Step(f[i - 1], i)]
           done == CHOOSE f : Runs(f)
<1>1. Results(g, w) = Unqueued(done[n], w)
  BY DEF Results, Unqueued
<1>0. g.queue[w] \in Seq(QueuedCall)
  BY SoundIs, FieldTypes
<1>2. n \in Nat
  BY <1>0
<1>3. ASSUME NEW x \in D, NEW i \in 1 .. n PROVE Step(x, i) \in D
  <2>1. g.queue[w][i].key = g.queue[w][i].gid
    BY <1>0, SoundIs DEF Answered, CallsAre
  <2> QED BY <2>1, SettleSound
<1> HIDE DEF Step, n, D
<1> DEFINE G == [i \in 1 .. n |-> [x \in D |-> Step(x, i)]]
<1>4. G \in [1 .. n -> [D -> D]]
  BY <1>3
<1>5. g \in D
  BY DEF D
<1>6. PICK f : Iterates(f, n, D, g, G)
  <2> HIDE DEF G
  <2> QED BY <1>2, <1>4, <1>5, IterationExists
<1>7. ASSUME NEW i \in 1 .. n PROVE f[i] = Step(f[i - 1], i)
  <2>1. i - 1 \in 0 .. n
    BY <1>2
  <2>2. f[i - 1] \in D
    BY <1>6, <2>1 DEF Iterates
  <2> QED BY <1>6, <2>2 DEF Iterates
<1>8. Runs(f)
  <2>1. ASSUME NEW i \in 0 .. n PROVE f[i] = IF i = 0 THEN g ELSE Step(f[i - 1], i)
    <3>1. i = 0 \/ i \in 1 .. n
      BY <1>2
    <3> QED BY <1>6, <1>7, <3>1 DEF Iterates
  <2> QED BY <1>6, <2>1 DEF Iterates
<1>9. Runs(done)
  <2> HIDE DEF Runs
  <2> QED BY <1>8
<1> HIDE DEF done
<1> DEFINE In == {i \in 0 .. n : done[i] \in D}
<1>10. 0 \in In
  BY <1>2, <1>5, <1>9
<1>11. ASSUME NEW i \in 1 .. n, i - 1 \in In PROVE i \in In
  <2>1. i \in 0 .. n /\ i # 0
    BY <1>2
  <2>2. done[i] = Step(done[i - 1], i)
    BY <1>9, <2>1
  <2> QED BY <1>3, <1>11, <2>1, <2>2
<1>12. n \in In
  <2> HIDE DEF In
  <2>1. 0 .. n \subseteq In
    BY <1>2, <1>10, <1>11, InductionOnInterval
  <2> QED BY <1>2, <2>1
<1>13. done[n] \in D
  BY <1>12
<1>14. Unqueued(done[n], w) \in Sound(gone, reg, cl, iss)
  <2>1. done[n] \in Sound(gone, reg, cl, iss)
    BY <1>13 DEF D
  <2> QED BY <2>1, UnqueuedSound
<1> QED BY <1>1, <1>14

(* The health sweep. *)
LEMMA SweepSound ==
    ASSUME NEW gone, NEW reg, NEW cl, NEW iss \in Seq(Issued), NEW g \in Sound(gone, reg, cl, iss),
           NEW after, iss = issued
    PROVE  Sweep(g, after) \in Sound(gone, reg, cl, iss)
<1> DEFINE D == Sound(gone, reg, cl, iss)
           n == Len(issued)
           Step(x, i) == Swept(x, i, after)
           Runs(f) == f = [i \in 0 .. n |-> IF i = 0 THEN g ELSE Step(f[i - 1], i)]
           swept == CHOOSE f : Runs(f)
<1>1. Sweep(g, after) = swept[n]
  BY DEF Sweep
<1>2. n \in Nat
  OBVIOUS
<1>3. ASSUME NEW x \in D, NEW i \in 1 .. n PROVE Step(x, i) \in D
  <2>1. CASE i \in DOMAIN x.pending
    <3>1. x.pending[i].gid = i
      BY <2>1, SoundIs DEF Answered, CallsAre
    <3>2. Settle(x, i, i, FALSE) \in D
      BY SettleSound
    <3> QED BY <3>1, <3>2 DEF Swept
  <2>2. CASE i \notin DOMAIN x.pending
    BY <2>2 DEF Swept
  <2> QED BY <2>1, <2>2
<1> HIDE DEF Step, n, D
<1> DEFINE G == [i \in 1 .. n |-> [x \in D |-> Step(x, i)]]
<1>4. G \in [1 .. n -> [D -> D]]
  BY <1>3
<1>5. g \in D
  BY DEF D
<1>6. PICK f : Iterates(f, n, D, g, G)
  <2> HIDE DEF G
  <2> QED BY <1>2, <1>4, <1>5, IterationExists
<1>7. ASSUME NEW i \in 1 .. n PROVE f[i] = Step(f[i - 1], i)
  <2>1. i - 1 \in 0 .. n
    BY <1>2
  <2>2. f[i - 1] \in D
    BY <1>6, <2>1 DEF Iterates
  <2> QED BY <1>6, <2>2 DEF Iterates
<1>8. Runs(f)
  <2>1. ASSUME NEW i \in 0 .. n PROVE f[i] = IF i = 0 THEN g ELSE Step(f[i - 1], i)
    <3>1. i = 0 \/ i \in 1 .. n
      BY <1>2
    <3> QED BY <1>6, <1>7, <3>1 DEF Iterates
  <2> QED BY <1>6, <2>1 DEF Iterates
<1>9. Runs(swept)
  <2> HIDE DEF Runs
  <2> QED BY <1>8
<1> HIDE DEF swept
<1> DEFINE In == {i \in 0 .. n : swept[i] \in D}
<1>10. 0 \in In
  BY <1>2, <1>5, <1>9
<1>11. ASSUME NEW i \in 1 .. n, i - 1 \in In PROVE i \in In
  <2>1. i \in 0 .. n /\ i # 0
    BY <1>2
  <2>2. swept[i] = Step(swept[i - 1], i)
    BY <1>9, <2>1
  <2> QED BY <1>3, <1>11, <2>1, <2>2
<1>12. n \in In
  <2> HIDE DEF In
  <2>1. 0 .. n \subseteq In
    BY <1>2, <1>10, <1>11, InductionOnInterval
  <2> QED BY <1>2, <2>1
<1>13. swept[n] \in D
  BY <1>12
<1> QED BY <1>1, <1>13 DEF D

(* The fan-out of one world's tick. *)
LEMMA FanOutSound ==
    ASSUME NEW gone, NEW reg, NEW cl, NEW iss \in Seq(Issued), NEW g \in Sound(gone, reg, cl, iss),
           NEW w \in World, worlds[w].v \in Nat, NEW changed, NEW eventful
    PROVE  FanOut(g, w, changed, eventful) \in Sound(gone, reg, cl, iss)
<1> DEFINE D == Sound(gone, reg, cl, iss)
           told == IF eventful \/ ~SkipEmpty THEN Broadcast(g, w) ELSE g
           done == IF changed THEN Deltas(told, w, worlds[w].v + 1) ELSE told
<1>1. told \in D
  BY BroadcastSound
<1>2. worlds[w].v + 1 \in Nat
  OBVIOUS
<1>3. FanOut(g, w, changed, eventful) = Results(done, w)
  BY DEF FanOut
<1>4. done \in D
  <2> HIDE DEF told
  <2> QED BY <1>1, <1>2, DeltasSound
<1> HIDE DEF done
<1> QED BY <1>3, <1>4, ResultsSound

(* The fan-out, world after world. *)
LEMMA FannedOutSound ==
    ASSUME NEW gone, NEW reg, NEW cl, NEW iss \in Seq(Issued), gw \in Sound(gone, reg, cl, iss),
           worlds \in Worlds, NEW ready, NEW changed, NEW eventful
    PROVE  FannedOut(ready, changed, eventful) \in Sound(gone, reg, cl, iss)
<1> DEFINE D == Sound(gone, reg, cl, iss)
           n == Cardinality(World)
           Step(x, i) == IF i \in ready THEN FanOut(x, i, i \in changed, eventful) ELSE x
           Runs(f) == f = [i \in 0 .. n |-> IF i = 0 THEN gw ELSE Step(f[i - 1], i)]
           after == CHOOSE f : Runs(f)
<1>1. FannedOut(ready, changed, eventful) = after[n]
  BY DEF FannedOut
<1>2. n \in Nat
  BY Constants
<1>3. ASSUME NEW x \in D, NEW i \in 1 .. n PROVE Step(x, i) \in D
  <2>1. i \in World
    BY Constants
  <2>2. FanOut(x, i, i \in changed, eventful) \in D
    BY <2>1, FanOutSound DEF Worlds
  <2> QED BY <2>2
<1> HIDE DEF Step, n, D
<1> DEFINE G == [i \in 1 .. n |-> [x \in D |-> Step(x, i)]]
<1>4. G \in [1 .. n -> [D -> D]]
  BY <1>3
<1>5. gw \in D
  BY DEF D
<1>6. PICK f : Iterates(f, n, D, gw, G)
  <2> HIDE DEF G
  <2> QED BY <1>2, <1>4, <1>5, IterationExists
<1>7. ASSUME NEW i \in 1 .. n PROVE f[i] = Step(f[i - 1], i)
  <2>1. i - 1 \in 0 .. n
    BY <1>2
  <2>2. f[i - 1] \in D
    BY <1>6, <2>1 DEF Iterates
  <2> QED BY <1>6, <2>2 DEF Iterates
<1>8. Runs(f)
  <2>1. ASSUME NEW i \in 0 .. n PROVE f[i] = IF i = 0 THEN gw ELSE Step(f[i - 1], i)
    <3>1. i = 0 \/ i \in 1 .. n
      BY <1>2
    <3> QED BY <1>6, <1>7, <3>1 DEF Iterates
  <2> QED BY <1>6, <2>1 DEF Iterates
<1>9. Runs(after)
  <2> HIDE DEF Runs
  <2> QED BY <1>8
<1> HIDE DEF after
<1> DEFINE In == {i \in 0 .. n : after[i] \in D}
<1>10. 0 \in In
  BY <1>2, <1>5, <1>9
<1>11. ASSUME NEW i \in 1 .. n, i - 1 \in In PROVE i \in In
  <2>1. i \in 0 .. n /\ i # 0
    BY <1>2
  <2>2. after[i] = Step(after[i - 1], i)
    BY <1>9, <2>1
  <2> QED BY <1>3, <1>11, <2>1, <2>2
<1>12. n \in In
  <2> HIDE DEF In
  <2>1. 0 .. n \subseteq In
    BY <1>2, <1>10, <1>11, InductionOnInterval
  <2> QED BY <1>2, <2>1
<1>13. after[n] \in D
  BY <1>12
<1> QED BY <1>1, <1>13 DEF D

-----------------------------------------------------------------------------
(* The system's start. *)

LEMMA NewSession ==
    NewConnection \in Connection /\ NewConnection.subs = {} /\ NewConnection.world = None
<1> DEFINE empty == <<>>
<1>1. empty \in Seq(SubId)
  OBVIOUS
<1>2. NewConnection = [auth |-> FALSE, world |-> None, subs |-> {}, stale |-> FALSE,
                       notices |-> empty]
  BY DEF NewConnection
<1> HIDE DEF empty
<1>3. [auth |-> FALSE, world |-> None, subs |-> {}, stale |-> FALSE, notices |-> empty] \in Connection
  BY <1>1 DEF Connection
<1> QED BY <1>2, <1>3

LEMMA GatewayInvStart == GInit => GatewayInv
<1> SUFFICES ASSUME GInit PROVE GatewayInv
  OBVIOUS
<1> DEFINE up == [NewConnection EXCEPT !.auth = TRUE, !.world = FirstWorld]
           conns == [c \in Client |-> IF c \in scene.boot THEN up ELSE None]
<1>1. scene \in Scenes /\ scene.boot \subseteq Client /\ scene.boot = 1 .. Cardinality(scene.boot)
  BY GatewayAssumption DEF GInit
<1>2. up \in Connection /\ up.world = FirstWorld /\ up.subs = {} /\ up # None
  <2>1. /\ NewConnection \in Connection /\ NewConnection.subs = {}
        /\ FirstWorld \in World
    BY NewSession, Constants
  <2>2. up \in Connection /\ up.world = FirstWorld /\ up.subs = {}
    BY <2>1 DEF Connection
  <2>3. up # None
    BY <2>2, Constants
  <2> QED BY <2>1, <2>2, <2>3
<1>3. /\ gw.conns = conns
      /\ gw.out = [c \in Client |-> [frames |-> <<>>, msgs |-> <<>>, closed |-> FALSE]]
      /\ gw.pending = <<>> /\ gw.pendingBy = [c \in Client |-> {}]
      /\ gw.attached = [w \in World |-> IF w = FirstWorld THEN scene.boot ELSE {}]
      /\ gw.subscribers = [w \in World |-> <<>>]
      /\ gw.live = {} /\ gw.nextSub = [w \in World |-> 0] /\ gw.queue = [w \in World |-> <<>>]
  BY DEF GInit
<1>4. \A c \in Client : /\ gw.conns[c] \in Connection \cup {None} /\ (Open(gw, c) <=> c \in scene.boot)
                        /\ Open(gw, c) => gw.conns[c].world = FirstWorld /\ gw.conns[c].subs = {}
  <2> HIDE DEF up
  <2> QED BY <1>2, <1>3 DEF Open
<1>5. \A c \in Client : gw.out[c].frames = <<>> /\ gw.out[c].msgs = <<>>
  BY <1>3
<1>6. gw \in Gateways
  <2>1. conns \in [Client -> Connection \cup {None}]
    <3> HIDE DEF up
    <3> QED BY <1>2
  <2>2. gw.out \in [Client -> Outbox]
    <3>1. [frames |-> <<>>, msgs |-> <<>>, closed |-> FALSE] \in Outbox
      BY Constants DEF Outbox
    <3> QED BY <1>3, <3>1
  <2>3. gw.pending \in UNION {[keys -> PendingCall] : keys \in SUBSET Nat}
    <3>1. gw.pending \in [{} -> PendingCall] /\ {} \in SUBSET Nat
      BY <1>3
    <3> QED BY <3>1
  <2>4. gw.attached \in [World -> SUBSET Client] /\ gw.pendingBy \in [Client -> SUBSET Nat]
    BY <1>1, <1>3
  <2>5. /\ gw.subscribers \in [World -> Seq(Client \X SubId)] /\ gw.live \in SUBSET (World \X SubId)
        /\ gw.nextSub \in [World -> 0 .. MaxSubs] /\ gw.queue \in [World -> Seq(QueuedCall)]
    BY <1>3, Constants
  <2>6. gw = [conns |-> gw.conns, out |-> gw.out, pending |-> gw.pending, pendingBy |-> gw.pendingBy,
              attached |-> gw.attached, subscribers |-> gw.subscribers, live |-> gw.live,
              nextSub |-> gw.nextSub, queue |-> gw.queue]
    BY DEF GInit
  <2> HIDE DEF conns
  <2> QED BY <1>3, <2>1, <2>2, <2>3, <2>4, <2>5, <2>6 DEF Gateways
<1> HIDE DEF conns, up
<1>7. \A c \in Client : \A w, s : ~Holds(gw, c, w, s)
  BY <1>4 DEF Holds
<1>8. registered = Cardinality(scene.boot) /\ registered \in 0 .. Cardinality(Client)
  <2>1. Cardinality(scene.boot) \in Nat /\ Cardinality(scene.boot) <= Cardinality(Client)
    BY <1>1, GatewayAssumption, FS_Subset, FS_CardinalityType
  <2>2. Cardinality(Client) \in Nat
    BY Constants
  <2> QED BY <2>1, <2>2 DEF GInit
<1>9. Indexed(gw, Gone, registered)
  <2>1. AttachedIs(gw)
    <3>1. \A w \in World : w # None
      BY Constants
    <3> QED BY <1>1, <1>3, <1>4, <3>1 DEF AttachedIs
  <2>2. SubscribersAre(gw)
    <3>1. \A w \in World : DOMAIN gw.subscribers[w] = {}
      BY <1>3
    <3> QED BY <1>7, <3>1 DEF SubscribersAre, Listed
  <2>3. SubsAreOwn(gw)
    BY <1>4, <1>7 DEF SubsAreOwn
  <2>4. LiveIs(gw, Gone)
    BY <1>3, <1>7 DEF LiveIs
  <2>5. PendingIs(gw)
    <3>1. DOMAIN gw.pending = {} /\ \A c \in Client : gw.pendingBy[c] = {}
      BY <1>3
    <3> QED BY <3>1 DEF PendingIs
  <2>6. Unopened(gw, registered)
    <3>1. \A c \in Client : c \in Nat
      BY Constants
    <3> QED BY <1>1, <1>4, <1>8, <3>1, Constants DEF Unopened
  <2> QED BY <2>1, <2>2, <2>3, <2>4, <2>5, <2>6 DEF Indexed
<1>10. issued = <<>> /\ \A c \in Client : clients[c].got = <<>>
  BY DEF GInit
<1>11. Answered(gw, clients, issued)
  <2>1. \A c \in Client, b \in Boxes : Box(gw, clients, c, b) = <<>>
    BY <1>5, <1>10 DEF Box
  <2>2. DOMAIN gw.pending = {} /\ \A w \in World : DOMAIN gw.queue[w] = {}
    BY <1>3
  <2>3. \A c \in Client, b \in Boxes : DOMAIN Box(gw, clients, c, b) = {}
    BY <2>1
  <2> QED BY <2>2, <2>3 DEF Answered, CallsAre, AnswersAre, AnsweredOnce
<1>12. clients \in Clients
  <2>1. clients = [c \in Client |-> [marked |-> {}, view |-> [s \in SubId |-> None], got |-> <<>>]]
    BY DEF GInit
  <2> QED BY <2>1 DEF Clients
<1>13. worlds \in Worlds /\ issued \in Seq(Issued)
  BY DEF GInit, Worlds
<1> QED BY <1>1, <1>6, <1>8, <1>9, <1>11, <1>12, <1>13 DEF GatewayInv, Sound

-----------------------------------------------------------------------------
(* Steps that only talk. *)

Now == Sound(Gone, registered, clients, issued)

LEMMA Steady ==
    ASSUME GatewayInv, UNCHANGED <<scene, worlds, registered, clients, issued>>, gw' \in Now
    PROVE  GatewayInv'
<1>1. Gone' = Gone
  BY DEF Gone
<1> QED BY <1>1 DEF GatewayInv, Now

(* Whatever is not a result is sent to c. *)
LEMMA SaidNow ==
    ASSUME NEW g \in Now, NEW c \in Client, NEW m \in Message, ~IsResult(m)
    PROVE  Send(g, c, m) \in Now /\ SendDirect(g, c, m) \in Now
<1>1. Sendable(g, clients, issued, c, m)
  BY NoResult
<1>2. g \in Sound(Gone, registered, clients, issued)
  BY DEF Now
<1>3. Send(g, c, m) \in Sound(Gone, registered, clients, issued)
  BY <1>1, <1>2, SendSound
<1>4. SendDirect(g, c, m) \in Sound(Gone, registered, clients, issued)
  BY <1>1, <1>2, SendDirectSound
<1> QED BY <1>3, <1>4 DEF Now

LEMMA AnswerNow ==
    ASSUME GatewayInv, NEW c \in Client, NEW m \in Message, ~IsResult(m), Answer(c, m)
    PROVE  gw' \in Now
<1>1. gw \in Now
  BY DEF GatewayInv, Now
<1> QED BY <1>1, SaidNow DEF Answer

LEMMA Sayings ==
    /\ Ok \in Message /\ ~IsResult(Ok) /\ Error \in Message /\ ~IsResult(Error)
    /\ \A s \in SubId, v \in Nat : Snapshot(s, v) \in Message /\ ~IsResult(Snapshot(s, v))
  BY Sayable

LEMMA ViolateKept ==
    ASSUME GatewayInv, NEW c \in Client, NEW m, Violate(c, m), UNCHANGED scene
    PROVE  GatewayInv'
<1> DEFINE g == Send(gw, c, Error)
<1>1. g \in Now
  BY SaidNow, Sayings DEF GatewayInv, Now
<1>2. g \in Sound(Gone, registered, clients, issued)
  BY <1>1 DEF Now
<1>3. gw' = DropConnection(g, c) \/ gw' = Disconnect(g, c)
  BY DEF Violate
<1> HIDE DEF g
<1>4. DropConnection(g, c) \in Sound(Gone, registered, clients, issued)
  BY <1>2, DropSound
<1>5. Disconnect(g, c) \in Sound(Gone, registered, clients, issued)
  BY <1>2, DisconnectSound
<1>6. gw' \in Now
  BY <1>3, <1>4, <1>5 DEF Now
<1> QED BY <1>6, Steady DEF Violate

LEMMA PingKept ==
    ASSUME GatewayInv, NEW c \in Client, NEW m, Ping(c, m), UNCHANGED scene
    PROVE  GatewayInv'
<1>1. gw' \in Now
  BY AnswerNow, Sayings DEF Ping
<1> QED BY <1>1, Steady DEF Ping

LEMMA RateLimitedKept ==
    ASSUME GatewayInv, NEW c \in Client, NEW m, RateLimited(c, m), UNCHANGED scene
    PROVE  GatewayInv'
<1>1. gw' \in Now
  BY AnswerNow, Sayings DEF RateLimited
<1> QED BY <1>1, Steady DEF RateLimited

LEMMA InputKept ==
    ASSUME GatewayInv, NEW c \in Client, NEW m, Input(c, m), UNCHANGED scene
    PROVE  GatewayInv'
<1>1. gw' \in Now
  <2>1. CASE UNCHANGED gw
    BY <2>1 DEF GatewayInv, Now
  <2>2. CASE Answer(c, Error)
    BY <2>2, AnswerNow, Sayings
  <2> QED BY <2>1, <2>2 DEF Input
<1> QED BY <1>1, Steady DEF Input

(* Another session of the same world with the same subscriptions. *)
Reseated(g, c, k) == [g EXCEPT !.conns[c] = k]

LEMMA ReseatedNow ==
    ASSUME NEW g \in Now, NEW c \in Client, Open(g, c), NEW k \in Connection,
           k.world = g.conns[c].world, k.subs = g.conns[c].subs
    PROVE  Reseated(g, c, k) \in Now
<1> DEFINE h == Reseated(g, c, k)
<1>1. g \in Sound(Gone, registered, clients, issued) /\ g \in Gateways
  BY SoundIs DEF Now
<1>2. g.out[c] \in Outbox
  BY <1>1, OutFields
<1>3. h = With(g, c, k, g.out[c])
  BY <1>1, SameOut DEF Reseated
<1> HIDE DEF h
<1>4. /\ Talk(g, h) /\ h.out[c] = g.out[c]
      /\ \A d \in Client : d # c => h.out[d] = g.out[d]
  BY <1>1, <1>2, <1>3, SessionTyped
<1>5. Quieter(g, h, clients)
  BY <1>4 DEF Quieter, Talk, Box
<1>6. h \in Sound(Gone, registered, clients, issued)
  BY <1>1, <1>4, <1>5, TalkSound
<1> QED BY <1>6 DEF h, Now

LEMMA AuthenticateKept ==
    ASSUME GatewayInv, NEW c \in Client, NEW m, Authenticate(c, m), UNCHANGED scene
    PROVE  GatewayInv'
<1> DEFINE k == [gw.conns[c] EXCEPT !.auth = TRUE]
           h == [gw EXCEPT !.conns[c].auth = TRUE]
<1>1. gw \in Now /\ gw \in Gateways
  BY SoundIs DEF GatewayInv, Now
<1>2. Open(gw, c)
  BY DEF Authenticate, Arrives
<1>3. gw.conns[c] \in Connection
  BY <1>1, <1>2, ConnFields
<1>4. k \in Connection /\ k.world = gw.conns[c].world /\ k.subs = gw.conns[c].subs
  BY <1>3 DEF Connection
<1>5. h = Reseated(gw, c, k)
  BY <1>1 DEF Reseated, Gateways
<1>6. h \in Now
  <2> HIDE DEF h, k
  <2> QED BY <1>1, <1>2, <1>4, <1>5, ReseatedNow
<1> HIDE DEF h
<1>7. gw' \in Now
  <2>1. CASE Answer(c, Error)
    BY <2>1, AnswerNow, Sayings
  <2>2. CASE Answer(c, Ok)
    BY <2>2, AnswerNow, Sayings
  <2>3. CASE gw' = Send(h, c, Ok)
    BY <1>6, <2>3, SaidNow, Sayings
  <2> QED BY <2>1, <2>2, <2>3 DEF Authenticate, h
<1> QED BY <1>7, Steady DEF Authenticate

LEMMA ResyncKept ==
    ASSUME GatewayInv, NEW c \in Client, NEW m, Resync(c, m), UNCHANGED scene
    PROVE  GatewayInv'
<1> DEFINE k == ClearStale(gw.conns[c])
           h == [gw EXCEPT !.conns[c] = ClearStale(@)]
<1>1. gw \in Now /\ gw \in Gateways /\ Indexed(gw, Gone, registered)
  BY SoundIs DEF GatewayInv, Now
<1>2. Open(gw, c)
  BY DEF Resync, Arrives
<1>3. gw.conns[c] \in Connection /\ gw.conns[c].subs \subseteq SubId
      /\ gw.conns[c].world \in World \cup {None}
  BY <1>1, <1>2, ConnFields
<1>4. k \in Connection /\ k.world = gw.conns[c].world /\ k.subs = gw.conns[c].subs
  <2> DEFINE empty == <<>>
  <2>1. empty \in Seq(SubId)
    OBVIOUS
  <2>2. k = [gw.conns[c] EXCEPT !.stale = FALSE, !.notices = empty]
    BY DEF ClearStale
  <2> HIDE DEF k, empty
  <2> QED BY <1>3, <2>1, <2>2 DEF Connection
<1>5. h = Reseated(gw, c, k)
  BY <1>1 DEF Reseated, Gateways
<1>6. h \in Now
  <2> HIDE DEF h, k
  <2> QED BY <1>1, <1>2, <1>4, <1>5, ReseatedNow
<1> HIDE DEF h, k
<1>7. gw' \in Now
  <2>1. CASE Answer(c, Error)
    BY <2>1, AnswerNow, Sayings
  <2>2. CASE gw' = Send(h, c, Error)
    BY <1>6, <2>2, SaidNow, Sayings
  <2>3. CASE m.sub \in gw.conns[c].subs /\ gw' = SendDirect(h, c, Snapshot(m.sub, worlds[WorldOf(c)].v))
    <3>1. gw.conns[c].world # None
      BY <1>1, <1>2, <2>3 DEF Indexed, SubsAreOwn
    <3>2. WorldOf(c) \in World
      BY <1>3, <3>1 DEF WorldOf
    <3>3. worlds[WorldOf(c)].v \in Nat
      BY <3>2 DEF GatewayInv, Worlds
    <3>4. m.sub \in SubId
      BY <1>3, <2>3
    <3> QED BY <1>6, <2>3, <3>3, <3>4, SaidNow, Sayings
  <2> QED BY <2>1, <2>2, <2>3 DEF Resync, h
<1> QED BY <1>7, Steady DEF Resync

LEMMA ClientCloseKept ==
    ASSUME GatewayInv, NEW c \in Client, ClientClose(c), UNCHANGED scene
    PROVE  GatewayInv'
<1> DEFINE o == [gw.out[c] EXCEPT !.closed = TRUE]
           h == [gw EXCEPT !.out[c] = o]
<1>1. gw \in Sound(Gone, registered, clients, issued) /\ gw \in Gateways
  BY SoundIs DEF GatewayInv
<1>2. gw.out[c] \in Outbox
  BY <1>1, OutFields
<1>3. o \in Outbox /\ o.frames = gw.out[c].frames /\ o.msgs = gw.out[c].msgs
  BY <1>2 DEF Outbox
<1>4. gw' = h
  BY <1>1 DEF ClientClose, Gateways
<1> HIDE DEF o
<1>5. /\ Talk(gw, h) /\ h.out[c] = o /\ \A d \in Client : d # c => h.out[d] = gw.out[d]
  BY <1>1, <1>3, OutTyped
<1> HIDE DEF h
<1>6. Quieter(gw, h, clients)
  BY <1>3, <1>5 DEF Quieter, Talk, Box
<1>7. h \in Sound(Gone, registered, clients, issued)
  BY <1>1, <1>5, <1>6, TalkSound
<1> QED BY <1>4, <1>7, Steady DEF ClientClose, Now

-----------------------------------------------------------------------------
(* Sessions begin, enter a world and leave it. *)

LEMMA RegisterConnectionKept ==
    ASSUME GatewayInv, RegisterConnection, UNCHANGED scene
    PROVE  GatewayInv'
<1> DEFINE n == registered + 1
           conns == [gw.conns EXCEPT ![n] = NewConnection]
           h == gw'
<1>1. gw \in Gateways /\ Indexed(gw, Gone, registered) /\ Answered(gw, clients, issued)
  BY SoundIs DEF GatewayInv
<1>2. registered \in Nat /\ n \in Client /\ n \in 0 .. Cardinality(Client)
  BY Constants DEF GatewayInv, RegisterConnection
<1>3. ~Open(gw, n)
  BY <1>1, <1>2 DEF Indexed, Unopened
<1>4. gw.conns \in [Client -> Connection \cup {None}]
  BY <1>1, FieldTypes
<1>5. /\ conns \in [Client -> Connection \cup {None}] /\ conns[n] = NewConnection
      /\ \A d \in Client : d # n => conns[d] = gw.conns[d]
  <2> HIDE DEF n
  <2> QED BY <1>2, <1>4, NewSession
<1>6. gw' = [gw EXCEPT !.conns = conns]
  BY <1>1 DEF RegisterConnection, Gateways
<1>7. /\ h \in Gateways /\ h.conns = conns /\ h.out = gw.out
      /\ h.pending = gw.pending /\ h.pendingBy = gw.pendingBy
      /\ h.attached = gw.attached /\ h.subscribers = gw.subscribers
      /\ h.live = gw.live /\ h.nextSub = gw.nextSub /\ h.queue = gw.queue
  <2> HIDE DEF h, conns
  <2> QED BY <1>1, <1>5, <1>6 DEF Gateways, h
<1>8. /\ Open(h, n) /\ h.conns[n].world = None /\ h.conns[n].subs = {}
      /\ \A d \in Client : d # n => h.conns[d] = gw.conns[d]
  <2>1. NewConnection # None
    BY NewSession, Constants
  <2> HIDE DEF h, conns, n
  <2> QED BY <1>5, <1>7, <2>1, NewSession DEF Open
<1> HIDE DEF h, conns
<1>9. \A d \in Client : \A w, s : Holds(h, d, w, s) <=> Holds(gw, d, w, s)
  BY <1>2, <1>3, <1>8 DEF Holds, Open
<1>10. Indexed(h, Gone, n)
  <2>1. AttachedIs(h)
    <3>1. \A w \in World : w # None
      BY Constants
    <3>2. ASSUME NEW w \in World, NEW d \in Client
          PROVE  d \in h.attached[w] <=> Open(h, d) /\ h.conns[d].world = w
      <4>1. d \in gw.attached[w] <=> Open(gw, d) /\ gw.conns[d].world = w
        BY <1>1 DEF Indexed, AttachedIs
      <4>2. CASE d = n
        BY <1>3, <1>7, <1>8, <3>1, <4>1, <4>2
      <4>3. CASE d # n
        BY <1>7, <1>8, <4>1, <4>3 DEF Open
      <4> QED BY <4>2, <4>3
    <3> QED BY <3>2 DEF AttachedIs
  <2>2. SubscribersAre(h)
    <3>1. \A w \in World, d \in Client, s \in SubId : Listed(h, w, d, s) <=> Listed(gw, w, d, s)
      BY <1>7 DEF Listed
    <3> QED BY <1>1, <1>7, <1>9, <3>1 DEF Indexed, SubscribersAre
  <2>3. SubsAreOwn(h)
    <3>1. \A d \in Client : Open(h, d) /\ h.conns[d].world = None => h.conns[d].subs = {}
      BY <1>1, <1>8 DEF Indexed, SubsAreOwn, Open
    <3> QED BY <1>1, <1>7, <1>9, <3>1 DEF Indexed, SubsAreOwn
  <2>4. LiveIs(h, Gone)
    <3>1. LiveIs(gw, Gone)
      BY <1>1 DEF Indexed
    <3> QED BY <1>7, <1>9, <3>1, Zenon DEF LiveIs
  <2>5. PendingIs(h)
    BY <1>1, <1>7 DEF Indexed, PendingIs
  <2>6. Unopened(h, n)
    <3>1. ASSUME NEW d \in Client, d > n PROVE ~Open(h, d)
      <4>1. d \in Nat
        BY Constants
      <4>2. d > registered /\ d # n
        BY <1>2, <3>1, <4>1
      <4>3. ~Open(gw, d)
        BY <1>1, <4>2 DEF Indexed, Unopened
      <4> HIDE DEF n
      <4> QED BY <1>8, <4>2, <4>3 DEF Open
    <3> HIDE DEF n
    <3> QED BY <3>1 DEF Unopened
  <2> QED BY <2>1, <2>2, <2>3, <2>4, <2>5, <2>6 DEF Indexed
<1>11. Quieter(gw, h, clients)
  BY <1>7 DEF Quieter, Box
<1>12. Answered(h, clients, issued)
  BY <1>1, <1>11, QuieterAnswered
<1>13. UNCHANGED <<worlds, clients, issued>> /\ registered' = n
  BY DEF RegisterConnection
<1>14. Gone' = Gone
  BY <1>13 DEF Gone
<1>15. h \in Sound(Gone', registered', clients', issued')
  BY <1>7, <1>10, <1>12, <1>13, <1>14 DEF Sound
<1> QED BY <1>2, <1>13, <1>15 DEF GatewayInv, h

(* c enters world w: it holds no subscriptions. *)
Entered(g, c, w) == [g EXCEPT !.conns[c].world = w, !.attached[w] = @ \cup {c}]

LEMMA EnteredNow ==
    ASSUME NEW g \in Now, NEW c \in Client, NEW w \in World, Open(g, c), g.conns[c].world = None
    PROVE  Entered(g, c, w) \in Now
<1> DEFINE k == [g.conns[c] EXCEPT !.world = w]
           conns == [g.conns EXCEPT ![c] = k]
           attached == [g.attached EXCEPT ![w] = g.attached[w] \cup {c}]
           h == Entered(g, c, w)
<1>1. g \in Gateways /\ Indexed(g, Gone, registered) /\ Answered(g, clients, issued)
  BY SoundIs DEF Now
<1>2. /\ g.conns \in [Client -> Connection \cup {None}] /\ g.attached \in [World -> SUBSET Client]
      /\ g.conns[c] \in Connection
  BY <1>1, FieldTypes, ConnFields
<1>3. g.conns[c].subs = {}
  BY <1>1 DEF Indexed, SubsAreOwn
<1>4. k \in Connection /\ k.world = w /\ k.subs = {} /\ k # None
  <2>1. k \in Connection /\ k.world = w /\ k.subs = {}
    BY <1>2, <1>3 DEF Connection
  <2> HIDE DEF k
  <2> QED BY <2>1, Constants
<1> HIDE DEF k
<1>5. /\ conns \in [Client -> Connection \cup {None}] /\ conns[c] = k
      /\ \A d \in Client : d # c => conns[d] = g.conns[d]
      /\ attached \in [World -> SUBSET Client] /\ attached[w] = g.attached[w] \cup {c}
      /\ \A v \in World : v # w => attached[v] = g.attached[v]
  BY <1>2, <1>4
<1>6. h = [g EXCEPT !.conns = conns, !.attached = attached]
  BY <1>1 DEF Entered, Gateways, k
<1>7. /\ h \in Gateways /\ h.conns = conns /\ h.out = g.out
      /\ h.pending = g.pending /\ h.pendingBy = g.pendingBy
      /\ h.attached = attached /\ h.subscribers = g.subscribers
      /\ h.live = g.live /\ h.nextSub = g.nextSub /\ h.queue = g.queue
  <2> HIDE DEF h, conns, attached
  <2> QED BY <1>1, <1>5, <1>6 DEF Gateways
<1>8. /\ Open(h, c) /\ h.conns[c].world = w /\ h.conns[c].subs = {}
      /\ \A d \in Client : d # c => h.conns[d] = g.conns[d]
  <2> HIDE DEF h, conns, attached
  <2> QED BY <1>4, <1>5, <1>7 DEF Open
<1> HIDE DEF h, conns
<1>9. \A d \in Client : \A v, s : Holds(h, d, v, s) <=> Holds(g, d, v, s)
  BY <1>3, <1>8 DEF Holds, Open
<1>10. Indexed(h, Gone, registered)
  <2>1. AttachedIs(h)
    <3>2. ASSUME NEW v \in World, NEW d \in Client
          PROVE  d \in h.attached[v] <=> Open(h, d) /\ h.conns[d].world = v
      <4>1. d \in g.attached[v] <=> Open(g, d) /\ g.conns[d].world = v
        BY <1>1 DEF Indexed, AttachedIs
      <4>2. d \in h.attached[v] <=> d \in g.attached[v] \/ (d = c /\ v = w)
        <5> HIDE DEF attached
        <5> QED BY <1>5, <1>7
      <4>3. CASE d = c
        <5>1. v # None
          BY Constants
        <5> HIDE DEF attached
        <5> QED BY <1>8, <4>1, <4>2, <4>3, <5>1
      <4>4. CASE d # c
        <5> HIDE DEF attached
        <5> QED BY <1>8, <4>1, <4>2, <4>4 DEF Open
      <4> QED BY <4>3, <4>4
    <3> QED BY <3>2 DEF AttachedIs
  <2>2. SubscribersAre(h)
    <3>1. \A v \in World, d \in Client, s \in SubId : Listed(h, v, d, s) <=> Listed(g, v, d, s)
      BY <1>7 DEF Listed
    <3> QED BY <1>1, <1>7, <1>9, <3>1 DEF Indexed, SubscribersAre
  <2>3. SubsAreOwn(h)
    <3>1. \A d \in Client : Open(h, d) /\ h.conns[d].world = None => h.conns[d].subs = {}
      BY <1>1, <1>8 DEF Indexed, SubsAreOwn, Open
    <3> QED BY <1>1, <1>7, <1>9, <3>1 DEF Indexed, SubsAreOwn
  <2>4. LiveIs(h, Gone)
    <3>1. LiveIs(g, Gone)
      BY <1>1 DEF Indexed
    <3> QED BY <1>7, <1>9, <3>1, Zenon DEF LiveIs
  <2>5. PendingIs(h)
    BY <1>1, <1>7 DEF Indexed, PendingIs
  <2>6. Unopened(h, registered)
    BY <1>1, <1>8 DEF Indexed, Unopened, Open
  <2> QED BY <2>1, <2>2, <2>3, <2>4, <2>5, <2>6 DEF Indexed
<1>11. Quieter(g, h, clients)
  BY <1>7 DEF Quieter, Box
<1>12. Answered(h, clients, issued)
  BY <1>1, <1>11, QuieterAnswered
<1>13. h \in Now
  BY <1>7, <1>10, <1>12 DEF Sound, Now
<1> QED BY <1>13 DEF h

LEMMA AttachWorldKept ==
    ASSUME GatewayInv, NEW c \in Client, NEW m \in scene.menu[c], AttachWorld(c, m), UNCHANGED scene
    PROVE  GatewayInv'
<1> DEFINE h == Entered(gw, c, m.world)
<1>1. gw \in Now
  BY DEF GatewayInv, Now
<1>2. m.op = "attach" /\ m.world \in World /\ Open(gw, c)
  BY GatewayAssumption DEF GatewayInv, AttachWorld, Arrives
<1>3. gw' \in Now
  <2>1. CASE Answer(c, Error)
    BY <2>1, AnswerNow, Sayings
  <2>2. CASE Answer(c, Ok)
    BY <2>2, AnswerNow, Sayings
  <2>3. CASE Session(c) /\ ~Attached(c) /\ gw' = Send(h, c, Ok)
    <3>1. gw.conns[c].world = None
      BY <2>3 DEF Attached
    <3>2. h \in Now
      BY <1>1, <1>2, <3>1, EnteredNow
    <3> HIDE DEF h
    <3> QED BY <2>3, <3>2, SaidNow, Sayings
  <2> QED BY <2>1, <2>2, <2>3 DEF AttachWorld, Entered
<1> QED BY <1>3, Steady DEF AttachWorld

LEMMA DetachWorldKept ==
    ASSUME GatewayInv, NEW c \in Client, NEW m, DetachWorld(c, m), UNCHANGED scene
    PROVE  GatewayInv'
<1> DEFINE l == Left(gw, c)
           k == [gw.conns[c] EXCEPT !.subs = {}, !.world = None]
           conns == [gw.conns EXCEPT ![c] = k]
           h == [l EXCEPT !.conns = conns]
<1>1. gw \in Sound(Gone, registered, clients, issued) /\ gw \in Gateways
      /\ Indexed(gw, Gone, registered) /\ SubscribersAre(gw)
  BY SoundIs DEF GatewayInv, Indexed
<1>2. Open(gw, c)
  BY DEF DetachWorld, Arrives
<1>3. l \in Gateways /\ Parted(gw, l, c) /\ l.conns = gw.conns /\ l.out = gw.out
  <2>1. Parted(gw, l, c) /\ l.conns = gw.conns /\ l.out = gw.out
    BY <1>1, LeftIs
  <2> HIDE DEF l
  <2> QED BY <2>1 DEF Parted
<1>4. /\ gw.conns \in [Client -> Connection \cup {None}] /\ gw.conns[c] \in Connection
  BY <1>1, <1>2, FieldTypes, ConnFields
<1>5. k \in Connection /\ k.world = None /\ k.subs = {}
  BY <1>4 DEF Connection
<1>6. [l EXCEPT !.conns[c].subs = {}, !.conns[c].world = None] = h
  <2> HIDE DEF l
  <2> QED BY <1>3, <1>4 DEF Gateways
<1> HIDE DEF k, l
<1>7. /\ conns \in [Client -> Connection \cup {None}] /\ conns[c] = k
      /\ \A d \in Client : d # c => conns[d] = gw.conns[d]
  BY <1>4, <1>5
<1>8. /\ h \in Gateways /\ h.conns = conns /\ h.out = l.out
      /\ h.pending = l.pending /\ h.pendingBy = l.pendingBy
      /\ h.attached = l.attached /\ h.subscribers = l.subscribers
      /\ h.live = l.live /\ h.nextSub = l.nextSub /\ h.queue = l.queue
  <2> HIDE DEF conns
  <2> QED BY <1>3, <1>7 DEF Gateways
<1>9. gw' = Send(h, c, Ok) \/ Answer(c, Error)
  BY <1>6 DEF DetachWorld, l, Left
<1> HIDE DEF h, conns
<1>10. Departed(gw, h, c)
  <2>1. \A w \in World, d \in Client, s \in SubId : Listed(h, w, d, s) <=> Listed(l, w, d, s)
    BY <1>8 DEF Listed
  <2>2. Parted(gw, h, c)
    BY <1>3, <1>8, <2>1 DEF Parted
  <2> QED BY <1>3, <1>5, <1>7, <1>8, <2>2 DEF Departed
<1>11. h \in Now
  BY <1>1, <1>2, <1>10, DepartedSound DEF Now
<1>12. gw' \in Now
  <2>1. CASE Answer(c, Error)
    BY <2>1, AnswerNow, Sayings
  <2>2. CASE gw' = Send(h, c, Ok)
    BY <1>11, <2>2, SaidNow, Sayings
  <2> QED BY <1>9, <2>1, <2>2
<1> QED BY <1>12, Steady DEF DetachWorld

-----------------------------------------------------------------------------
(* Subscriptions. *)

LEMMA UnsubscribeKept ==
    ASSUME GatewayInv, NEW c \in Client, NEW m, Unsubscribe(c, m), UNCHANGED scene
    PROVE  GatewayInv'
<1>1. gw \in Gateways /\ Indexed(gw, Gone, registered) /\ SubscribersAre(gw)
      /\ Answered(gw, clients, issued)
  BY SoundIs DEF GatewayInv, Indexed
<1>2. Open(gw, c)
  BY DEF Unsubscribe, Arrives
<1>3. CASE m.sub \notin gw.conns[c].subs
  <2>1. gw' \in Now
    BY <1>3, AnswerNow, Sayings DEF Unsubscribe
  <2> QED BY <2>1, Steady DEF Unsubscribe
<1>4. CASE m.sub \in gw.conns[c].subs
  <2> DEFINE s == m.sub
             home == gw.conns[c].world
             u == Without(gw, c, {s})
             k == [gw.conns[c] EXCEPT !.subs = gw.conns[c].subs \ {s}]
             conns == [gw.conns EXCEPT ![c] = k]
             h == gw'
  <2>1. Unlisted(gw, u, c, {s})
    BY <1>1, WithoutIs
  <2> HIDE DEF u
  <2>2. u \in Gateways /\ u.conns = gw.conns /\ u.out = gw.out
        /\ u.pending = gw.pending /\ u.pendingBy = gw.pendingBy
        /\ u.attached = gw.attached /\ u.nextSub = gw.nextSub /\ u.queue = gw.queue
    BY <2>1 DEF Unlisted
  <2>3. /\ gw.conns \in [Client -> Connection \cup {None}] /\ gw.conns[c] \in Connection
        /\ gw.conns[c].subs \subseteq SubId
    BY <1>1, <1>2, FieldTypes, ConnFields
  <2>4. home # None /\ s \in SubId
    BY <1>1, <1>2, <1>4, <2>3 DEF Indexed, SubsAreOwn
  <2>5. k \in Connection /\ k.world = home /\ k.subs = gw.conns[c].subs \ {s} /\ k # None
    <3>1. k \in Connection /\ k.world = home /\ k.subs = gw.conns[c].subs \ {s}
      BY <2>3 DEF Connection
    <3> HIDE DEF k
    <3> QED BY <3>1, Constants
  <2>6. h = [u EXCEPT !.conns = conns]
    BY <1>4, <2>2 DEF Unsubscribe, Gateways, u
  <2> HIDE DEF k
  <2>7. /\ conns \in [Client -> Connection \cup {None}] /\ conns[c] = k
        /\ \A d \in Client : d # c => conns[d] = gw.conns[d]
    BY <2>3, <2>5
  <2>8. /\ h \in Gateways /\ h.conns = conns /\ h.out = gw.out
        /\ h.pending = gw.pending /\ h.pendingBy = gw.pendingBy
        /\ h.attached = gw.attached /\ h.subscribers = u.subscribers
        /\ h.live = u.live /\ h.nextSub = gw.nextSub /\ h.queue = gw.queue
    <3> HIDE DEF conns, h
    <3> QED BY <2>2, <2>6, <2>7 DEF Gateways
  <2>9. \A d \in Client : /\ Open(h, d) <=> Open(gw, d)
                          /\ Open(h, d) => h.conns[d].world = gw.conns[d].world
                          /\ h.conns[d].subs = IF d = c THEN gw.conns[c].subs \ {s} ELSE gw.conns[d].subs
    <3> HIDE DEF conns, h, s
    <3> QED BY <1>2, <2>5, <2>7, <2>8 DEF Open
  <2> HIDE DEF h, conns
  <2>10. \A d \in Client : \A w, t : Holds(h, d, w, t) <=> Holds(gw, d, w, t) /\ ~(d = c /\ t = s)
    BY <2>9 DEF Holds
  <2>11. Indexed(h, Gone, registered)
    <3>1. AttachedIs(h)
      BY <1>1, <2>8, <2>9 DEF Indexed, AttachedIs
    <3>2. SubscribersAre(h)
      <4>1. ASSUME NEW w \in World, NEW d \in Client, NEW t \in SubId
            PROVE  Listed(h, w, d, t) <=> Holds(h, d, w, t)
        <5>1. Listed(h, w, d, t) <=> Listed(u, w, d, t)
          BY <2>8 DEF Listed
        <5>2. Listed(u, w, d, t) <=> Listed(gw, w, d, t) /\ ~(d = c /\ t \in {s})
          BY <2>1 DEF Unlisted
        <5>3. Listed(gw, w, d, t) <=> Holds(gw, d, w, t)
          BY <1>1 DEF SubscribersAre
        <5> QED BY <2>10, <5>1, <5>2, <5>3
      <4>2. \A w \in World : \A i, j \in DOMAIN h.subscribers[w] :
                h.subscribers[w][i] = h.subscribers[w][j] => i = j
        BY <2>1, <2>8 DEF Unlisted
      <4> QED BY <4>1, <4>2 DEF SubscribersAre
    <3>3. SubsAreOwn(h)
      <4>1. \A d \in Client : Open(h, d) /\ h.conns[d].world = None => h.conns[d].subs = {}
        BY <1>1, <2>9 DEF Indexed, SubsAreOwn
      <4> QED BY <1>1, <2>8, <2>10, <4>1 DEF Indexed, SubsAreOwn
    <3>4. LiveIs(h, Gone)
      <4>1. ASSUME NEW w \in World \ Gone, NEW t \in SubId
            PROVE  <<w, t>> \in h.live <=> \E d \in Client : Holds(h, d, w, t)
        <5>1. <<w, t>> \in gw.live <=> \E d \in Client : Holds(gw, d, w, t)
          BY <1>1 DEF Indexed, LiveIs
        <5>2. h.live = gw.live \ {<<home, t1>> : t1 \in {s}}
          BY <2>1, <2>4, <2>8 DEF Unlisted
        <5>3. <<w, t>> \in h.live <=> <<w, t>> \in gw.live /\ ~(w = home /\ t = s)
          BY <5>2
        <5>4. Holds(gw, c, home, s)
          BY <1>2, <1>4 DEF Holds
        <5>5. \A d \in Client : Holds(gw, d, home, s) => d = c
          <6>1. home \in World
            BY <1>1, <1>2, <2>4, ConnFields
          <6> QED BY <1>1, <2>4, <5>4, <6>1 DEF Indexed, SubsAreOwn
        <5>6. \A v : Holds(gw, c, v, s) => v = home
          BY DEF Holds
        <5> HIDE DEF s, home
        <5> QED BY <2>10, <5>1, <5>3, <5>4, <5>5, <5>6
      <4> QED BY <4>1, Zenon DEF LiveIs
    <3>5. PendingIs(h)
      BY <1>1, <2>8 DEF Indexed, PendingIs
    <3>6. Unopened(h, registered)
      BY <1>1, <2>9 DEF Indexed, Unopened
    <3> QED BY <3>1, <3>2, <3>3, <3>4, <3>5, <3>6 DEF Indexed
  <2>12. Quieter(gw, h, clients)
    BY <2>8 DEF Quieter, Box
  <2>13. Answered(h, clients, issued)
    BY <1>1, <2>12, QuieterAnswered
  <2>14. gw' \in Now
    BY <2>8, <2>11, <2>13 DEF Sound, Now, h
  <2> QED BY <2>14, Steady DEF Unsubscribe
<1> QED BY <1>3, <1>4

(* c subscribes in its world w, under the world's next id. *)
Added(g, c, w) ==
    [g EXCEPT !.conns[c].subs = @ \cup {g.nextSub[w]},
              !.subscribers[w] = Append(@, <<c, g.nextSub[w]>>),
              !.live = @ \cup {<<w, g.nextSub[w]>>},
              !.nextSub[w] = g.nextSub[w] + 1]

LEMMA AddedNow ==
    ASSUME NEW g \in Now, NEW c \in Client, NEW w \in World, Open(g, c), g.conns[c].world = w,
           g.nextSub[w] < MaxSubs
    PROVE  Added(g, c, w) \in Now /\ g.nextSub[w] \in SubId
<1> DEFINE s == g.nextSub[w]
           k == [g.conns[c] EXCEPT !.subs = g.conns[c].subs \cup {s}]
           conns == [g.conns EXCEPT ![c] = k]
           list == Append(g.subscribers[w], <<c, s>>)
           subscribers == [g.subscribers EXCEPT ![w] = list]
           live == g.live \cup {<<w, s>>}
           nextSub == [g.nextSub EXCEPT ![w] = s + 1]
           h == Added(g, c, w)
<1>1. g \in Gateways /\ Indexed(g, Gone, registered) /\ Answered(g, clients, issued)
  BY SoundIs DEF Now
<1>2. /\ g.conns \in [Client -> Connection \cup {None}] /\ g.conns[c] \in Connection
      /\ g.subscribers \in [World -> Seq(Client \X SubId)] /\ g.live \in SUBSET (World \X SubId)
      /\ g.nextSub \in [World -> 0 .. MaxSubs]
      /\ g.conns[c].subs \subseteq SubId
  BY <1>1, FieldTypes, ConnFields
<1>3. s \in SubId /\ s + 1 \in 0 .. MaxSubs /\ s \in Nat /\ MaxSubs \in Nat
  BY <1>2, Constants DEF SubId
<1>4. h = [g EXCEPT !.conns = conns, !.subscribers = subscribers, !.live = live, !.nextSub = nextSub]
  BY <1>1 DEF Added, Gateways
<1> HIDE DEF s
<1>5. k \in Connection /\ k.world = w /\ k.subs = g.conns[c].subs \cup {s} /\ k # None
  <2>1. k \in Connection /\ k.world = w /\ k.subs = g.conns[c].subs \cup {s}
    BY <1>2, <1>3 DEF Connection
  <2> HIDE DEF k
  <2> QED BY <2>1, Constants
<1>6. /\ list \in Seq(Client \X SubId) /\ Len(g.subscribers[w]) \in Nat
      /\ DOMAIN list = 1 .. Len(g.subscribers[w]) + 1
      /\ DOMAIN g.subscribers[w] = 1 .. Len(g.subscribers[w])
      /\ list[Len(g.subscribers[w]) + 1] = <<c, s>>
      /\ \A i \in DOMAIN g.subscribers[w] : list[i] = g.subscribers[w][i]
  <2>1. g.subscribers[w] \in Seq(Client \X SubId) /\ <<c, s>> \in Client \X SubId
    BY <1>2, <1>3
  <2> QED BY <2>1, AppendProperties, LenProperties
<1> DEFINE n == Len(g.subscribers[w]) + 1
           old == g.subscribers[w]
<1>7. /\ n \in DOMAIN list /\ n \notin DOMAIN old /\ list[n] = <<c, s>>
      /\ \A i \in DOMAIN old : i \in DOMAIN list /\ list[i] = old[i]
      /\ \A i \in DOMAIN list : i = n \/ i \in DOMAIN old
  <2> HIDE DEF list
  <2> QED BY <1>6
<1> HIDE DEF k, list, n
<1>8. /\ conns \in [Client -> Connection \cup {None}] /\ conns[c] = k
      /\ \A d \in Client : d # c => conns[d] = g.conns[d]
  BY <1>2, <1>5
<1>9. /\ subscribers \in [World -> Seq(Client \X SubId)] /\ subscribers[w] = list
      /\ \A v \in World : v # w => subscribers[v] = g.subscribers[v]
  BY <1>2, <1>6
<1>10. /\ live \in SUBSET (World \X SubId)
       /\ nextSub \in [World -> 0 .. MaxSubs] /\ nextSub[w] = s + 1
       /\ \A v \in World : v # w => nextSub[v] = g.nextSub[v]
  BY <1>2, <1>3
<1>11. /\ h \in Gateways /\ h.conns = conns /\ h.out = g.out
       /\ h.pending = g.pending /\ h.pendingBy = g.pendingBy
       /\ h.attached = g.attached /\ h.subscribers = subscribers
       /\ h.live = live /\ h.nextSub = nextSub /\ h.queue = g.queue
  <2> HIDE DEF h, conns, subscribers, live, nextSub
  <2> QED BY <1>1, <1>4, <1>8, <1>9, <1>10 DEF Gateways
<1>12. \A d \in Client : /\ Open(h, d) <=> Open(g, d)
                         /\ Open(h, d) => h.conns[d].world = g.conns[d].world
                         /\ h.conns[d].subs = IF d = c THEN g.conns[c].subs \cup {s} ELSE g.conns[d].subs
  <2> HIDE DEF h, conns, subscribers, live, nextSub
  <2> QED BY <1>5, <1>8, <1>11 DEF Open
<1> HIDE DEF h, conns, subscribers, nextSub
<1>13. \A d \in Client : \A v, t : Holds(h, d, v, t) <=> Holds(g, d, v, t) \/ (d = c /\ v = w /\ t = s)
  BY <1>12 DEF Holds
<1>14. \A d \in Client : ~Holds(g, d, w, s)
  BY <1>1, <1>3 DEF Indexed, SubsAreOwn, s
<1>15. Indexed(h, Gone, registered)
  <2>1. AttachedIs(h)
    BY <1>1, <1>11, <1>12 DEF Indexed, AttachedIs
  <2>2. SubscribersAre(h)
    <3>1. ASSUME NEW v \in World, NEW d \in Client, NEW t \in SubId
          PROVE  Listed(h, v, d, t) <=> Listed(g, v, d, t) \/ (d = c /\ v = w /\ t = s)
      <4>1. CASE v # w
        BY <1>9, <1>11, <4>1 DEF Listed
      <4>2. CASE v = w
        <5>1. h.subscribers[v] = list
          BY <1>9, <1>11, <4>2
        <5>2. (\E i \in DOMAIN list : list[i] = <<d, t>>)
              <=> Listed(g, v, d, t) \/ <<c, s>> = <<d, t>>
          <6>1. Listed(g, v, d, t) <=> \E i \in DOMAIN old : old[i] = <<d, t>>
            BY <4>2 DEF Listed
          <6> HIDE DEF old
          <6>2. ASSUME NEW i \in DOMAIN list, list[i] = <<d, t>>
                PROVE  Listed(g, v, d, t) \/ <<c, s>> = <<d, t>>
            BY <1>7, <6>1, <6>2
          <6>3. Listed(g, v, d, t) => \E i \in DOMAIN list : list[i] = <<d, t>>
            BY <1>7, <6>1
          <6>4. <<c, s>> = <<d, t>> => \E i \in DOMAIN list : list[i] = <<d, t>>
            BY <1>7
          <6> QED BY <6>2, <6>3, <6>4
        <5> QED BY <4>2, <5>1, <5>2 DEF Listed
      <4> QED BY <4>1, <4>2
    <3>2. ASSUME NEW v \in World, NEW d \in Client, NEW t \in SubId
          PROVE  Listed(g, v, d, t) <=> Holds(g, d, v, t)
      BY <1>1 DEF Indexed, SubscribersAre
    <3>3. ASSUME NEW v \in World, NEW d \in Client, NEW t \in SubId
          PROVE  Listed(h, v, d, t) <=> Holds(h, d, v, t)
      BY <1>13, <3>1, <3>2
    <3>4. ASSUME NEW v \in World, NEW i \in DOMAIN h.subscribers[v], NEW j \in DOMAIN h.subscribers[v],
                 h.subscribers[v][i] = h.subscribers[v][j]
          PROVE  i = j
      <4>1. \A a, b \in DOMAIN g.subscribers[v] : g.subscribers[v][a] = g.subscribers[v][b] => a = b
        BY <1>1 DEF Indexed, SubscribersAre
      <4>2. CASE v # w
        BY <1>9, <1>11, <3>4, <4>1, <4>2
      <4>3. CASE v = w
        <5>1. h.subscribers[v] = list
          BY <1>9, <1>11, <4>3
        <5>2. ~Listed(g, w, c, s)
          BY <1>3, <1>14, <3>2
        <5>3. \A a \in DOMAIN g.subscribers[w] : list[a] # <<c, s>>
          BY <1>7, <5>2 DEF Listed
        <5>4. list[i] = list[j] /\ i \in DOMAIN list /\ j \in DOMAIN list
          BY <3>4, <5>1
        <5>5. \A a, b \in DOMAIN old : old[a] = old[b] => a = b
          BY <4>1, <4>3
        <5>6. \A a \in DOMAIN old : list[a] # <<c, s>>
          BY <5>3
        <5> HIDE DEF old
        <5>7. CASE i \in DOMAIN old /\ j \in DOMAIN old
          BY <1>7, <5>4, <5>5, <5>7
        <5>8. CASE i = n \/ j = n
          BY <1>7, <5>4, <5>6, <5>8
        <5> QED BY <1>7, <5>4, <5>7, <5>8
      <4> QED BY <4>2, <4>3
    <3> QED BY <3>3, <3>4 DEF SubscribersAre
  <2>3. SubsAreOwn(h)
    <3>1. \A d \in Client : Open(h, d) /\ h.conns[d].world = None => h.conns[d].subs = {}
      <4>1. w # None
        BY Constants
      <4> QED BY <1>1, <1>12, <4>1 DEF Indexed, SubsAreOwn
    <3>2. ASSUME NEW v \in World, NEW d \in Client, NEW t \in SubId, Holds(h, d, v, t)
          PROVE  t < h.nextSub[v]
      <4>1. CASE v = w
        <5>1. h.nextSub[v] = s + 1
          BY <1>10, <1>11, <4>1
        <5>2. t < s \/ t = s
          BY <1>1, <1>13, <3>2, <4>1 DEF Indexed, SubsAreOwn, s
        <5>3. t \in Nat
          BY Constants
        <5> QED BY <1>3, <5>1, <5>2, <5>3
      <4>2. CASE v # w
        BY <1>1, <1>10, <1>11, <1>13, <3>2, <4>2 DEF Indexed, SubsAreOwn
      <4> QED BY <4>1, <4>2
    <3>3. ASSUME NEW v \in World, NEW d \in Client, NEW e \in Client, NEW t \in SubId,
                 Holds(h, d, v, t), Holds(h, e, v, t)
          PROVE  d = e
      <4>1. Holds(g, d, v, t) /\ Holds(g, e, v, t) => d = e
        BY <1>1 DEF Indexed, SubsAreOwn
      <4> QED BY <1>13, <1>14, <3>3, <4>1
    <3> QED BY <3>1, <3>2, <3>3 DEF SubsAreOwn
  <2>4. LiveIs(h, Gone)
    <3>1. ASSUME NEW v \in World \ Gone, NEW t \in SubId
          PROVE  <<v, t>> \in h.live <=> \E d \in Client : Holds(h, d, v, t)
      <4>1. <<v, t>> \in g.live <=> \E d \in Client : Holds(g, d, v, t)
        BY <1>1 DEF Indexed, LiveIs
      <4>2. <<v, t>> \in h.live <=> <<v, t>> \in g.live \/ (v = w /\ t = s)
        BY <1>11
      <4> QED BY <1>13, <4>1, <4>2
    <3> QED BY <3>1, Zenon DEF LiveIs
  <2>5. PendingIs(h)
    BY <1>1, <1>11 DEF Indexed, PendingIs
  <2>6. Unopened(h, registered)
    BY <1>1, <1>12 DEF Indexed, Unopened
  <2> QED BY <2>1, <2>2, <2>3, <2>4, <2>5, <2>6 DEF Indexed
<1>16. Quieter(g, h, clients)
  BY <1>11 DEF Quieter, Box
<1>17. Answered(h, clients, issued)
  BY <1>1, <1>16, QuieterAnswered
<1>18. h \in Now
  BY <1>11, <1>15, <1>17 DEF Sound, Now
<1> QED BY <1>3, <1>18 DEF h, s

LEMMA SubscribeKept ==
    ASSUME GatewayInv, NEW c \in Client, NEW m, Subscribe(c, m), UNCHANGED scene
    PROVE  GatewayInv'
<1> DEFINE w == WorldOf(c)
           h == Added(gw, c, w)
<1>1. gw \in Now /\ gw \in Gateways /\ Open(gw, c)
  BY SoundIs DEF GatewayInv, Now, Subscribe, Arrives
<1>2. gw' \in Now
  <2>1. CASE Answer(c, Error)
    BY <2>1, AnswerNow, Sayings
  <2>2. CASE /\ Attached(c) /\ gw.nextSub[w] < MaxSubs
             /\ gw' = SendDirect(h, c, Snapshot(gw.nextSub[w], worlds[w].v))
    <3>1. w \in World /\ gw.conns[c].world = w
      BY <1>1, <2>2, ConnFields DEF Attached, WorldOf
    <3>2. worlds[w].v \in Nat
      BY <3>1 DEF GatewayInv, Worlds
    <3> HIDE DEF w
    <3>3. h \in Now /\ gw.nextSub[w] \in SubId
      BY <1>1, <2>2, <3>1, AddedNow
    <3> HIDE DEF h
    <3> QED BY <2>2, <3>2, <3>3, SaidNow, Sayings
  <2> QED BY <2>1, <2>2 DEF Subscribe, Added
<1> QED BY <1>2, Steady DEF Subscribe

-----------------------------------------------------------------------------
(* Calls. *)

(* A new call has a key that no call had. *)
LEMMA EnqueuedSound ==
    ASSUME NEW gone, NEW reg, NEW cl, NEW iss \in Seq(Issued), NEW g \in Sound(gone, reg, cl, iss),
           NEW c \in Client, NEW w \in World, Open(g, c), g.conns[c].world = w,
           NEW id \in Nat, id \notin g.pendingBy[c], NEW gid, gid = Len(iss) + 1,
           NEW later, later = Append(iss, [conn |-> c, id |-> id, world |-> w])
    PROVE  Enqueued(g, c, id, gid, gid) \in Sound(gone, reg, cl, later)
<1> DEFINE call == [conn |-> c, id |-> id, world |-> w, gid |-> gid]
           pending == [k \in DOMAIN g.pending \cup {gid} |-> IF k = gid THEN call ELSE g.pending[k]]
           pendingBy == [g.pendingBy EXCEPT ![c] = g.pendingBy[c] \cup {id}]
           list == Append(g.queue[w], [key |-> gid, gid |-> gid])
           queue == [g.queue EXCEPT ![w] = list]
           h == Enqueued(g, c, id, gid, gid)
<1>1. g \in Gateways /\ Indexed(g, gone, reg) /\ Answered(g, cl, iss)
  BY SoundIs
<1>2. Len(iss) \in Nat /\ gid \in Nat /\ gid \notin 1 .. Len(iss) /\ gid \in 1 .. gid
      /\ 1 .. Len(iss) \subseteq 1 .. gid
  BY LenProperties
<1>3. /\ later \in Seq(Issued) /\ Len(later) = gid /\ later[gid].conn = c /\ later[gid].id = id
      /\ \A k \in 1 .. Len(iss) : later[k] = iss[k]
  <2> DEFINE new == [conn |-> c, id |-> id, world |-> w]
  <2>1. new \in Issued /\ new.conn = c /\ new.id = id
    BY DEF Issued
  <2> HIDE DEF new
  <2>2. later = Append(iss, new)
    BY DEF new
  <2> QED BY <2>1, <2>2, AppendProperties, LenProperties
<1>4. gid \notin DOMAIN g.pending
  BY <1>1, <1>2 DEF Answered, CallsAre
<1>5. /\ g.pendingBy \in [Client -> SUBSET Nat] /\ g.queue \in [World -> Seq(QueuedCall)]
      /\ DOMAIN g.pending \subseteq Nat /\ \A k \in DOMAIN g.pending : g.pending[k] \in PendingCall
  BY <1>1, FieldTypes
<1>6. h = [g EXCEPT !.pending = pending, !.pendingBy = pendingBy, !.queue = queue]
  BY <1>1 DEF Enqueued, Gateways
<1>7. call \in PendingCall /\ call.conn = c /\ call.id = id /\ call.gid = gid
  BY <1>2 DEF PendingCall
<1> HIDE DEF call
<1>8. /\ pending \in UNION {[keys -> PendingCall] : keys \in SUBSET Nat}
      /\ DOMAIN pending = DOMAIN g.pending \cup {gid} /\ pending[gid] = call
      /\ \A k \in DOMAIN g.pending : pending[k] = g.pending[k]
  <2>1. DOMAIN g.pending \cup {gid} \in SUBSET Nat
    BY <1>2, <1>5
  <2>2. pending \in [DOMAIN g.pending \cup {gid} -> PendingCall]
    BY <1>5, <1>7
  <2>3. DOMAIN pending = DOMAIN g.pending \cup {gid} /\ pending[gid] = call
        /\ \A k \in DOMAIN g.pending : pending[k] = g.pending[k]
    BY <1>4
  <2> HIDE DEF pending
  <2> QED BY <2>1, <2>2, <2>3
<1>9. /\ pendingBy \in [Client -> SUBSET Nat] /\ pendingBy[c] = g.pendingBy[c] \cup {id}
      /\ \A d \in Client : d # c => pendingBy[d] = g.pendingBy[d]
  BY <1>5
<1>10. /\ list \in Seq(QueuedCall)
       /\ \A i \in DOMAIN list : (list[i].key = gid /\ list[i].gid = gid)
                                 \/ (i \in DOMAIN g.queue[w] /\ list[i] = g.queue[w][i])
  <2> DEFINE new == [key |-> gid, gid |-> gid]
  <2>1. new \in QueuedCall /\ new.key = gid /\ new.gid = gid
    BY <1>2 DEF QueuedCall
  <2>2. g.queue[w] \in Seq(QueuedCall)
    BY <1>5
  <2>3. list = Append(g.queue[w], new)
    OBVIOUS
  <2> HIDE DEF new, list
  <2>4. /\ list \in Seq(QueuedCall) /\ Len(g.queue[w]) \in Nat
        /\ DOMAIN list = 1 .. Len(g.queue[w]) + 1 /\ DOMAIN g.queue[w] = 1 .. Len(g.queue[w])
        /\ list[Len(g.queue[w]) + 1] = new
        /\ \A i \in 1 .. Len(g.queue[w]) : list[i] = g.queue[w][i]
    BY <2>1, <2>2, <2>3, AppendProperties, LenProperties
  <2> QED BY <2>1, <2>4
<1> HIDE DEF list
<1>11. /\ queue \in [World -> Seq(QueuedCall)] /\ queue[w] = list
       /\ \A v \in World : v # w => queue[v] = g.queue[v]
  BY <1>5, <1>10
<1>12. /\ h \in Gateways /\ h.conns = g.conns /\ h.out = g.out
       /\ h.pending = pending /\ h.pendingBy = pendingBy
       /\ h.attached = g.attached /\ h.subscribers = g.subscribers
       /\ h.live = g.live /\ h.nextSub = g.nextSub /\ h.queue = queue
  <2> HIDE DEF h, pending, pendingBy, queue
  <2> QED BY <1>1, <1>6, <1>8, <1>9, <1>11 DEF Gateways
<1> HIDE DEF h, pending, pendingBy, queue
<1>13. \A d \in Client : \A v, s : Holds(h, d, v, s) <=> Holds(g, d, v, s)
  BY <1>12 DEF Holds, Open
<1>14. Indexed(h, gone, reg)
  <2>1. AttachedIs(h)
    BY <1>1, <1>12 DEF Indexed, AttachedIs, Open
  <2>2. SubscribersAre(h)
    <3>1. \A v \in World, d \in Client, s \in SubId : Listed(h, v, d, s) <=> Listed(g, v, d, s)
      BY <1>12 DEF Listed
    <3> QED BY <1>1, <1>12, <1>13, <3>1 DEF Indexed, SubscribersAre
  <2>3. SubsAreOwn(h)
    BY <1>1, <1>12, <1>13 DEF Indexed, SubsAreOwn, Open
  <2>4. LiveIs(h, gone)
    <3>1. LiveIs(g, gone)
      BY <1>1 DEF Indexed
    <3> QED BY <1>12, <1>13, <3>1, Zenon DEF LiveIs
  <2>5. PendingIs(h)
    <3>0. PendingIs(g)
      BY <1>1 DEF Indexed
    <3>1. ASSUME NEW k \in DOMAIN h.pending PROVE h.pending[k].id \in h.pendingBy[h.pending[k].conn]
      <4>1. CASE k = gid
        BY <1>7, <1>8, <1>9, <1>12, <4>1
      <4>2. CASE k # gid
        <5>1. k \in DOMAIN g.pending /\ h.pending[k] = g.pending[k]
          BY <1>8, <1>12, <4>2
        <5>2. g.pending[k].id \in g.pendingBy[g.pending[k].conn] /\ g.pending[k].conn \in Client
          BY <1>5, <3>0, <5>1 DEF PendingIs, PendingCall
        <5> QED BY <1>9, <1>12, <5>1, <5>2
      <4> QED BY <4>1, <4>2
    <3>2. ASSUME NEW d \in Client, NEW x \in h.pendingBy[d]
          PROVE  \E k \in DOMAIN h.pending : h.pending[k].conn = d /\ h.pending[k].id = x
      <4>1. CASE d = c /\ x = id
        BY <1>7, <1>8, <1>12, <4>1
      <4>2. CASE ~(d = c /\ x = id)
        <5>1. x \in g.pendingBy[d]
          BY <1>9, <1>12, <4>2
        <5>2. PICK k \in DOMAIN g.pending : g.pending[k].conn = d /\ g.pending[k].id = x
          BY <3>0, <5>1 DEF PendingIs
        <5> QED BY <1>8, <1>12, <5>2
      <4> QED BY <4>1, <4>2
    <3>3. ASSUME NEW j \in DOMAIN h.pending, NEW k \in DOMAIN h.pending,
                 h.pending[j].conn = h.pending[k].conn, h.pending[j].id = h.pending[k].id
          PROVE  j = k
      <4>1. \A i \in DOMAIN g.pending : ~(g.pending[i].conn = c /\ g.pending[i].id = id)
        BY <3>0 DEF PendingIs
      <4>2. \A i \in DOMAIN h.pending :
               \/ i = gid /\ h.pending[i].conn = c /\ h.pending[i].id = id
               \/ i \in DOMAIN g.pending /\ h.pending[i] = g.pending[i]
        BY <1>7, <1>8, <1>12
      <4> QED BY <3>0, <3>3, <4>1, <4>2 DEF PendingIs
    <3> QED BY <3>1, <3>2, <3>3 DEF PendingIs
  <2>6. Unopened(h, reg)
    BY <1>1, <1>12 DEF Indexed, Unopened, Open
  <2> QED BY <2>1, <2>2, <2>3, <2>4, <2>5, <2>6 DEF Indexed
<1>15. CallsAre(h, later)
  <2>0. CallsAre(g, iss)
    BY <1>1 DEF Answered
  <2>1. ASSUME NEW k \in DOMAIN h.pending
        PROVE  /\ k \in 1 .. Len(later) /\ h.pending[k].gid = k
               /\ later[k].conn = h.pending[k].conn /\ later[k].id = h.pending[k].id
    <3>1. CASE k = gid
      BY <1>2, <1>3, <1>7, <1>8, <1>12, <3>1
    <3>2. CASE k # gid
      <4>1. k \in DOMAIN g.pending /\ h.pending[k] = g.pending[k]
        BY <1>8, <1>12, <3>2
      <4> QED BY <1>2, <1>3, <2>0, <4>1 DEF CallsAre
    <3> QED BY <3>1, <3>2
  <2>2. ASSUME NEW v \in World, NEW i \in DOMAIN h.queue[v]
        PROVE  /\ h.queue[v][i].key = h.queue[v][i].gid
               /\ h.queue[v][i].gid \in 1 .. Len(later)
    <3>1. \/ h.queue[v][i].key = gid /\ h.queue[v][i].gid = gid
          \/ i \in DOMAIN g.queue[v] /\ h.queue[v][i] = g.queue[v][i]
      BY <1>10, <1>11, <1>12
    <3> QED BY <1>2, <1>3, <2>0, <3>1 DEF CallsAre
  <2> QED BY <2>1, <2>2 DEF CallsAre
<1>16. \A d \in Client, b \in Boxes : Box(h, cl, d, b) = Box(g, cl, d, b)
  BY <1>12 DEF Box
<1>17. AnswersAre(h, cl, later)
  <2> SUFFICES ASSUME NEW d \in Client, NEW b \in Boxes, NEW i \in DOMAIN Box(h, cl, d, b),
                      IsResult(Box(h, cl, d, b)[i])
               PROVE  Answers(h, later, d, Box(h, cl, d, b)[i])
    BY DEF AnswersAre
  <2> DEFINE m == Box(h, cl, d, b)[i]
  <2>1. Answers(g, iss, d, m)
    BY <1>1, <1>16 DEF Answered, AnswersAre
  <2> HIDE DEF m
  <2>2. m.gid \in 1 .. Len(iss) /\ m.gid # gid
    BY <1>2, <2>1 DEF Answers
  <2>3. Answers(h, later, d, m)
    BY <1>2, <1>3, <1>8, <1>12, <2>1, <2>2 DEF Answers
  <2> QED BY <2>3 DEF m
<1>18. AnsweredOnce(h, cl)
  BY <1>1, <1>16 DEF Answered, AnsweredOnce
<1>19. h \in Sound(gone, reg, cl, later)
  BY <1>12, <1>14, <1>15, <1>17, <1>18 DEF Sound, Answered
<1> QED BY <1>19 DEF h

LEMMA CallReducerKept ==
    ASSUME GatewayInv, NEW c \in Client, NEW m \in scene.menu[c], CallReducer(c, m), UNCHANGED scene
    PROVE  GatewayInv'
<1> DEFINE gid == Len(issued) + 1
           w == WorldOf(c)
<1>1. gw \in Sound(Gone, registered, clients, issued) /\ gw \in Gateways /\ issued \in Seq(Issued)
  BY SoundIs DEF GatewayInv
<1>2. m.op = "call" /\ m.id \in Nat /\ Open(gw, c)
  BY GatewayAssumption DEF GatewayInv, CallReducer, Arrives
<1>3. CASE Answer(c, Result(m.id, 0, FALSE)) /\ UNCHANGED <<issued, outcome>>
  <2>1. Result(m.id, 0, FALSE) \in Message /\ ~IsResult(Result(m.id, 0, FALSE))
    BY <1>2, Sayable DEF IsResult
  <2>2. gw' \in Now
    BY <1>3, <2>1, AnswerNow
  <2> QED BY <1>3, <2>2, Steady DEF CallReducer
<1>4. CASE /\ Attached(c) /\ m.id \notin gw.pendingBy[c]
           /\ gw' = Enqueued(gw, c, m.id, gid, gid)
           /\ issued' = Append(issued, [conn |-> c, id |-> m.id, world |-> w])
  <2>1. w \in World /\ gw.conns[c].world = w
    BY <1>1, <1>2, <1>4, ConnFields DEF Attached, WorldOf
  <2> HIDE DEF w
  <2>2. gw' \in Sound(Gone, registered, clients, issued')
    <3> DEFINE later == issued'
               h == gw'
    <3>1. later = Append(issued, [conn |-> c, id |-> m.id, world |-> w])
          /\ h = Enqueued(gw, c, m.id, gid, gid)
      BY <1>4
    <3> HIDE DEF later, h, gid
    <3>2. gid = Len(issued) + 1
      BY DEF gid
    <3>3. Enqueued(gw, c, m.id, gid, gid) \in Sound(Gone, registered, clients, later)
      BY <1>1, <1>2, <1>4, <2>1, <3>1, <3>2, EnqueuedSound
    <3> QED BY <3>1, <3>3 DEF later, h
  <2>3. UNCHANGED <<worlds, registered, clients>>
    BY DEF CallReducer
  <2>4. Gone' = Gone
    BY <2>3 DEF Gone
  <2>5. issued' \in Seq(Issued)
    <3> DEFINE new == [conn |-> c, id |-> m.id, world |-> w]
    <3>1. new \in Issued
      BY <1>2, <2>1 DEF Issued
    <3> HIDE DEF new
    <3>2. issued' = Append(issued, new)
      BY <1>4 DEF new
    <3> QED BY <1>1, <3>1, <3>2
  <2> QED BY <2>2, <2>3, <2>4, <2>5 DEF GatewayInv
<1> QED BY <1>3, <1>4 DEF CallReducer, CallKey

-----------------------------------------------------------------------------
(* A client receives. *)

LEMMA ReplayedIs ==
    ASSUME NEW k \in [marked : SUBSET SubId, view : [SubId -> Int \cup {None}], got : Seq(Message)],
           NEW m \in Message
    PROVE  /\ Replayed(k, m) \in [marked : SUBSET SubId, view : [SubId -> Int \cup {None}],
                                  got : Seq(Message)]
           /\ Replayed(k, m).got = IF IsResult(m) THEN Append(k.got, m) ELSE k.got
<1> DEFINE T == [marked : SUBSET SubId, view : [SubId -> Int \cup {None}], got : Seq(Message)]
           r == Replayed(k, m)
<1>1. CASE m.kind = "snapshot"
  <2>1. m.sub \in SubId /\ m.v \in Nat /\ ~IsResult(m)
    BY <1>1 DEF Message, Ok, Tick, Bye, Error, IsResult
  <2> DEFINE view == [k.view EXCEPT ![m.sub] = m.v]
             marked == k.marked \ {m.sub}
  <2>2. view \in [SubId -> Int \cup {None}] /\ marked \in SUBSET SubId
    BY <2>1
  <2>3. r = [k EXCEPT !.view[m.sub] = m.v, !.marked = @ \ {m.sub}]
    BY <1>1, <2>1 DEF Replayed
  <2>4. r = [k EXCEPT !.view = view, !.marked = marked]
    <3> HIDE DEF r
    <3> QED BY <2>3
  <2> HIDE DEF r, view, marked
  <2>5. r \in T /\ r.got = k.got
    BY <2>2, <2>4
  <2> QED BY <2>1, <2>5 DEF r
<1>2. CASE m.kind = "delta"
  <2>1. m.sub \in SubId /\ m.v \in Nat /\ ~IsResult(m)
    BY <1>2 DEF Message, Ok, Tick, Bye, Error, IsResult
  <2> DEFINE x == IF k.view[m.sub] = None THEN None ELSE IF k.view[m.sub] = m.v - 1 THEN m.v ELSE -1
  <2>2. x \in Int \cup {None}
    BY <2>1
  <2>3. r = [k EXCEPT !.view[m.sub] = x]
    BY <1>2, <2>1 DEF Replayed
  <2> HIDE DEF r, x
  <2> QED BY <2>1, <2>2, <2>3 DEF r
<1>3. CASE m.kind = "stale"
  <2>1. m.sub \in SubId /\ ~IsResult(m)
    BY <1>3 DEF Message, Ok, Tick, Bye, Error, IsResult
  <2>2. r = [k EXCEPT !.marked = @ \cup {m.sub}]
    BY <1>3, <2>1 DEF Replayed
  <2> HIDE DEF r
  <2> QED BY <2>1, <2>2 DEF r
<1>4. CASE IsResult(m)
  <2>1. m.kind = "result"
    BY <1>4 DEF IsResult
  <2>2. r = [k EXCEPT !.got = Append(k.got, m)]
    BY <1>4, <2>1 DEF Replayed
  <2>3. Append(k.got, m) \in Seq(Message)
    OBVIOUS
  <2> DEFINE new == Append(k.got, m)
  <2> HIDE DEF r, new
  <2>4. r \in T /\ r.got = new
    BY <2>2, <2>3 DEF new
  <2> QED BY <1>4, <2>4 DEF r, new
<1>5. CASE m.kind \notin {"snapshot", "delta", "stale"} /\ ~IsResult(m)
  <2>1. r = k
    BY <1>5 DEF Replayed
  <2> HIDE DEF r
  <2> QED BY <1>5, <2>1 DEF r
<1> QED BY <1>1, <1>2, <1>3, <1>4, <1>5

(* The first message of the queue q of c is received. *)
Popped(g, c, q, h) ==
    /\ h \in Gateways /\ Talk(g, h)
    /\ \A d \in Client, b \in {"msgs", "frames"} :
          Box(h, clients, d, b) = IF d = c /\ b = q THEN Tail(Box(g, clients, d, b))
                                  ELSE Box(g, clients, d, b)

Receipt(g, c, q, box, h, cl) ==
    /\ q \in {"msgs", "frames"} /\ box \in Seq(Message) /\ box # <<>>
    /\ Box(g, clients, c, q) = box /\ Popped(g, c, q, h)
    /\ cl = [clients EXCEPT ![c] = Replayed(@, Head(box))]

LEMMA PoppedSound ==
    ASSUME NEW gone, NEW reg, NEW iss, NEW g \in Sound(gone, reg, clients, iss), clients \in Clients,
           NEW c \in Client, NEW q, NEW box, NEW h, NEW cl, Receipt(g, c, q, box, h, cl)
    PROVE  cl \in Clients /\ h \in Sound(gone, reg, cl, iss)
<1> DEFINE m == Head(box)
           got == clients[c].got
           n == Len(got) + 1
           From(d, b, i) == IF d # c THEN <<b, i>>
                            ELSE IF b = q THEN <<q, i + 1>>
                            ELSE IF b = "got" /\ i = n THEN <<q, 1>>
                            ELSE <<b, i>>
<1>0. /\ q \in {"msgs", "frames"} /\ box \in Seq(Message) /\ box # <<>>
      /\ Box(g, clients, c, q) = box /\ Popped(g, c, q, h)
      /\ cl = [clients EXCEPT ![c] = Replayed(@, Head(box))]
  BY DEF Receipt
<1>1. g \in Gateways /\ Indexed(g, gone, reg) /\ Answered(g, clients, iss)
  BY SoundIs
<1>2. /\ m \in Message /\ m = box[1] /\ Len(box) \in Nat /\ Len(box) # 0
      /\ DOMAIN box = 1 .. Len(box)
      /\ Tail(box) \in Seq(Message) /\ DOMAIN Tail(box) = 1 .. Len(box) - 1
      /\ \A i \in 1 .. Len(box) - 1 : Tail(box)[i] = box[i + 1]
  BY <1>0, HeadTailProperties, EmptySeq, LenProperties
<1>3. /\ clients[c] \in [marked : SUBSET SubId, view : [SubId -> Int \cup {None}], got : Seq(Message)]
      /\ got \in Seq(Message)
  BY DEF Clients
<1>4. cl \in Clients /\ \A d \in Client : cl[d] = IF d = c THEN Replayed(clients[c], m) ELSE clients[d]
  <2> HIDE DEF m
  <2>1. cl = [clients EXCEPT ![c] = Replayed(clients[c], m)]
    BY <1>0 DEF m
  <2>2. Replayed(clients[c], m) \in
           [marked : SUBSET SubId, view : [SubId -> Int \cup {None}], got : Seq(Message)]
    BY <1>2, <1>3, ReplayedIs
  <2> QED BY <2>1, <2>2 DEF Clients
<1>5. /\ cl[c].got = IF IsResult(m) THEN Append(got, m) ELSE got
      /\ \A d \in Client : d # c => cl[d].got = clients[d].got
  <2> HIDE DEF m
  <2> QED BY <1>2, <1>3, <1>4, ReplayedIs
<1> HIDE DEF m
<1>6. /\ Len(got) \in Nat /\ n \in Nat /\ DOMAIN got = 1 .. Len(got)
      /\ DOMAIN Append(got, m) = 1 .. n /\ Append(got, m)[n] = m
      /\ \A i \in 1 .. Len(got) : Append(got, m)[i] = got[i]
  BY <1>2, <1>3, AppendProperties, LenProperties
<1> HIDE DEF got
<1>7. q # "got" /\ q \in Boxes /\ \A b \in Boxes : b = "got" \/ b \in {"msgs", "frames"}
  BY <1>0 DEF Boxes
<1>8. \A d \in Client : /\ Box(h, cl, d, "got") = cl[d].got /\ Box(g, clients, d, "got") = clients[d].got
                        /\ \A b \in {"msgs", "frames"} : Box(h, cl, d, b) = Box(h, clients, d, b)
  BY DEF Box
<1>9. ASSUME NEW d \in Client, NEW b \in Boxes, NEW i \in DOMAIN Box(h, cl, d, b)
      PROVE  \E a \in Boxes : \E j \in DOMAIN Box(g, clients, d, a) :
                From(d, b, i) = <<a, j>> /\ Box(h, cl, d, b)[i] = Box(g, clients, d, a)[j]
  <2>1. CASE d # c
    <3>1. Box(h, cl, d, b) = Box(g, clients, d, b)
      <4>1. CASE b = "got"
        BY <1>5, <1>8, <2>1, <4>1
      <4>2. CASE b \in {"msgs", "frames"}
        <5> HIDE DEF From, n, got
        <5>1. Box(h, cl, d, b) = Box(h, clients, d, b)
          BY <1>8, <4>2
        <5>2. Box(h, clients, d, b) = Box(g, clients, d, b)
          BY <1>0, <2>1, <4>2 DEF Popped
        <5> QED BY <5>1, <5>2
      <4> QED BY <1>7, <4>1, <4>2
    <3> QED BY <2>1, <3>1
  <2>2. CASE d = c /\ b = q
    <3>1. Box(h, cl, d, b) = Tail(box)
      BY <1>0, <1>8, <2>2 DEF Popped
    <3>2. i \in 1 .. Len(box) - 1
      BY <1>2, <3>1
    <3>3. i + 1 \in DOMAIN box /\ Box(h, cl, d, b)[i] = box[i + 1]
      <4>1. i + 1 \in 1 .. Len(box)
        BY <1>2, <3>2
      <4> QED BY <1>2, <3>1, <3>2, <4>1
    <3> QED BY <1>0, <1>7, <2>2, <3>3
  <2>3. CASE d = c /\ b = "got"
    <3>1. Box(h, cl, d, b) = cl[c].got /\ Box(g, clients, d, "got") = got
      BY <1>8, <2>3 DEF got
    <3>2. CASE i = n
      <4>1. IsResult(m)
        BY <1>5, <1>6, <3>1, <3>2
      <4>2. Box(h, cl, d, b)[i] = m
        BY <1>5, <1>6, <3>1, <3>2, <4>1
      <4>3. 1 \in DOMAIN box /\ box[1] = m
        BY <1>2
      <4>4. From(d, b, i) = <<q, 1>>
        BY <1>7, <2>3, <3>2
      <4> HIDE DEF From, n
      <4> QED BY <1>0, <1>7, <2>3, <4>2, <4>3, <4>4
    <3>3. CASE i # n
      <4>1. i \in DOMAIN got /\ Box(h, cl, d, b)[i] = got[i]
        <5>1. i \in DOMAIN cl[c].got
          BY <3>1
        <5>2. CASE IsResult(m)
          <6>1. cl[c].got = Append(got, m) /\ i \in 1 .. n
            BY <1>5, <1>6, <5>1, <5>2
          <6>2. i \in 1 .. Len(got)
            BY <1>6, <3>3, <6>1
          <6> QED BY <1>6, <3>1, <6>1, <6>2
        <5>3. CASE ~IsResult(m)
          BY <1>5, <3>1, <5>1, <5>3
        <5> QED BY <5>2, <5>3
      <4>2. From(d, b, i) = <<b, i>>
        BY <1>7, <2>3, <3>3
      <4> HIDE DEF From, n
      <4> QED BY <2>3, <3>1, <4>1, <4>2
    <3> QED BY <3>2, <3>3
  <2>4. CASE d = c /\ b # q /\ b # "got"
    <3>1. Box(h, cl, d, b) = Box(g, clients, d, b)
      <4> HIDE DEF From, n, got
      <4>1. b \in {"msgs", "frames"} /\ Box(h, cl, d, b) = Box(h, clients, d, b)
        BY <1>7, <1>8, <2>4
      <4>2. Box(h, clients, d, b) = Box(g, clients, d, b)
        BY <1>0, <2>4, <4>1 DEF Popped
      <4> QED BY <4>1, <4>2
    <3>2. From(d, b, i) = <<b, i>>
      BY <2>4
    <3> HIDE DEF From, n
    <3> QED BY <3>1, <3>2
  <2> QED BY <2>1, <2>2, <2>3, <2>4
<1>10. ASSUME NEW d \in Client, NEW a \in Boxes, NEW b \in Boxes,
              NEW i \in DOMAIN Box(h, cl, d, a), NEW j \in DOMAIN Box(h, cl, d, b),
              From(d, a, i) = From(d, b, j)
       PROVE  a = b /\ i = j
  <2>1. CASE d # c
    BY <1>10, <2>1
  <2>2. CASE d = c
    <3>1. \A x \in DOMAIN Box(h, cl, c, q) : x \in Nat /\ x # 0
      <4>1. Box(h, cl, c, q) = Tail(box)
        BY <1>0, <1>8 DEF Popped
      <4> QED BY <1>2, <4>1
    <3>2. CASE a = q /\ b = q
      BY <1>10, <2>2, <3>1, <3>2
    <3>3. CASE a = q /\ b # q
      <4>1. From(d, a, i) = <<q, i + 1>> /\ i \in Nat /\ i # 0
        BY <2>2, <3>1, <3>3
      <4>2. From(d, b, j) = <<q, 1>> \/ From(d, b, j) = <<b, j>>
        BY <2>2, <3>3
      <4> HIDE DEF From
      <4>3. i + 1 # 1
        BY <4>1
      <4> QED BY <1>10, <3>3, <4>1, <4>2, <4>3
    <3>4. CASE a # q /\ b = q
      <4>1. From(d, b, j) = <<q, j + 1>> /\ j \in Nat /\ j # 0
        BY <2>2, <3>1, <3>4
      <4>2. From(d, a, i) = <<q, 1>> \/ From(d, a, i) = <<a, i>>
        BY <2>2, <3>4
      <4> HIDE DEF From
      <4>3. j + 1 # 1
        BY <4>1
      <4> QED BY <1>10, <3>4, <4>1, <4>2, <4>3
    <3>5. CASE a # q /\ b # q
      <4> HIDE DEF n
      <4> QED BY <1>10, <2>2, <3>5
    <3> QED BY <3>2, <3>3, <3>4, <3>5
  <2> QED BY <2>1, <2>2
<1> HIDE DEF From, n
<1>11. Indexed(h, gone, reg)
  BY <1>0, <1>1, TalkIndexed DEF Popped
<1>12. h.pending = g.pending /\ h.queue = g.queue
  BY <1>0 DEF Popped, Talk
<1>13. CallsAre(h, iss)
  BY <1>1, <1>12 DEF Answered, CallsAre
<1>14. AnswersAre(h, cl, iss)
  <2> SUFFICES ASSUME NEW d \in Client, NEW b \in Boxes, NEW i \in DOMAIN Box(h, cl, d, b),
                      IsResult(Box(h, cl, d, b)[i])
               PROVE  Answers(h, iss, d, Box(h, cl, d, b)[i])
    BY DEF AnswersAre
  <2>1. PICK a \in Boxes : \E j \in DOMAIN Box(g, clients, d, a) :
                From(d, b, i) = <<a, j>> /\ Box(h, cl, d, b)[i] = Box(g, clients, d, a)[j]
    BY <1>9
  <2>2. Answers(g, iss, d, Box(h, cl, d, b)[i])
    BY <1>1, <2>1 DEF Answered, AnswersAre
  <2> QED BY <1>12, <2>2 DEF Answers
<1>15. AnsweredOnce(h, cl)
  <2> SUFFICES ASSUME NEW d \in Client, NEW a \in Boxes, NEW b \in Boxes,
                      NEW i \in DOMAIN Box(h, cl, d, a), NEW j \in DOMAIN Box(h, cl, d, b),
                      IsResult(Box(h, cl, d, a)[i]), IsResult(Box(h, cl, d, b)[j]),
                      Box(h, cl, d, a)[i].gid = Box(h, cl, d, b)[j].gid
               PROVE  a = b /\ i = j
    BY DEF AnsweredOnce
  <2>1. PICK x \in Boxes : \E y \in DOMAIN Box(g, clients, d, x) :
                From(d, a, i) = <<x, y>> /\ Box(h, cl, d, a)[i] = Box(g, clients, d, x)[y]
    BY <1>9
  <2>2. PICK y \in DOMAIN Box(g, clients, d, x) :
                From(d, a, i) = <<x, y>> /\ Box(h, cl, d, a)[i] = Box(g, clients, d, x)[y]
    BY <2>1
  <2>3. PICK u \in Boxes : \E v \in DOMAIN Box(g, clients, d, u) :
                From(d, b, j) = <<u, v>> /\ Box(h, cl, d, b)[j] = Box(g, clients, d, u)[v]
    BY <1>9
  <2>4. PICK v \in DOMAIN Box(g, clients, d, u) :
                From(d, b, j) = <<u, v>> /\ Box(h, cl, d, b)[j] = Box(g, clients, d, u)[v]
    BY <2>3
  <2>5. x = u /\ y = v
    BY <1>1, <2>2, <2>4 DEF Answered, AnsweredOnce
  <2>6. From(d, a, i) = From(d, b, j)
    BY <2>2, <2>4, <2>5
  <2> QED BY <1>10, <2>6
<1> QED BY <1>0, <1>4, <1>11, <1>13, <1>14, <1>15 DEF Popped, Sound, Answered

LEMMA ClientReceiveKept ==
    ASSUME GatewayInv, NEW c \in Client, ClientReceive(c), UNCHANGED scene
    PROVE  GatewayInv'
<1> DEFINE h == gw'
           cl == clients'
<1>1. /\ gw \in Sound(Gone, registered, clients, issued) /\ gw \in Gateways /\ clients \in Clients
  BY SoundIs DEF GatewayInv
<1>2. /\ gw.out[c] \in Outbox /\ gw.out[c].frames \in Seq(Message) /\ gw.out[c].msgs \in Seq(Message)
  BY <1>1, OutFields
<1>3. cl \in Clients /\ h \in Sound(Gone, registered, cl, issued)
  <2>1. CASE /\ gw.out[c].msgs # <<>>
             /\ clients' = [clients EXCEPT ![c] = Replayed(@, Head(gw.out[c].msgs))]
             /\ gw' = [gw EXCEPT !.out[c].msgs = Tail(@)]
    <3> DEFINE box == gw.out[c].msgs
               o == [gw.out[c] EXCEPT !.msgs = Tail(box)]
    <3>1. o \in Outbox /\ o.frames = gw.out[c].frames /\ o.msgs = Tail(box)
      <4>1. Tail(box) \in Seq(Message) /\ Len(Tail(box)) = Len(box) - 1 /\ Len(box) \in Nat
        BY <1>2, <2>1, HeadTailProperties, LenProperties
      <4>2. Len(gw.out[c].frames) \in Nat /\ Len(gw.out[c].frames) + Len(box) <= OutCap
        BY <1>2, LenProperties DEF Outbox
      <4>3. Len(gw.out[c].frames) + Len(Tail(box)) <= OutCap
        <5> HIDE DEF box
        <5> QED BY <4>1, <4>2, Constants
      <4> HIDE DEF box
      <4> QED BY <1>2, <4>1, <4>3 DEF Outbox
    <3>2. h = [gw EXCEPT !.out[c] = o]
      BY <1>1, <2>1 DEF Gateways
    <3> HIDE DEF o
    <3>3. /\ Talk(gw, h) /\ h.out[c] = o /\ \A d \in Client : d # c => h.out[d] = gw.out[d]
      <4> HIDE DEF h
      <4> QED BY <1>1, <3>1, <3>2, OutTyped
    <3> HIDE DEF h, cl
    <3>4. Popped(gw, c, "msgs", h)
      BY <3>1, <3>3 DEF Popped, Talk, Box
    <3>5. Box(gw, clients, c, "msgs") = box
      BY DEF Box
    <3>6. cl = [clients EXCEPT ![c] = Replayed(@, Head(box))]
      BY <2>1 DEF cl
    <3> HIDE DEF box
    <3>7. box \in Seq(Message) /\ box # <<>>
      BY <1>2, <2>1 DEF box
    <3>8. Receipt(gw, c, "msgs", box, h, cl)
      BY <3>4, <3>5, <3>6, <3>7 DEF Receipt
    <3> QED BY <1>1, <3>8, PoppedSound
  <2>2. CASE /\ gw.out[c].frames # <<>>
             /\ clients' = [clients EXCEPT ![c] = Replayed(@, Head(gw.out[c].frames))]
             /\ gw' = [gw EXCEPT !.out[c].frames = Tail(@)]
    <3> DEFINE box == gw.out[c].frames
               o == [gw.out[c] EXCEPT !.frames = Tail(box)]
    <3>1. o \in Outbox /\ o.msgs = gw.out[c].msgs /\ o.frames = Tail(box)
      <4>1. Tail(box) \in Seq(Message) /\ Len(Tail(box)) = Len(box) - 1 /\ Len(box) \in Nat
        BY <1>2, <2>2, HeadTailProperties, LenProperties
      <4>2. Len(gw.out[c].msgs) \in Nat /\ Len(box) + Len(gw.out[c].msgs) <= OutCap
        BY <1>2, LenProperties DEF Outbox
      <4>3. Len(Tail(box)) + Len(gw.out[c].msgs) <= OutCap
        <5> HIDE DEF box
        <5> QED BY <4>1, <4>2, Constants
      <4> HIDE DEF box
      <4> QED BY <1>2, <4>1, <4>3 DEF Outbox
    <3>2. h = [gw EXCEPT !.out[c] = o]
      BY <1>1, <2>2 DEF Gateways
    <3> HIDE DEF o
    <3>3. /\ Talk(gw, h) /\ h.out[c] = o /\ \A d \in Client : d # c => h.out[d] = gw.out[d]
      <4> HIDE DEF h
      <4> QED BY <1>1, <3>1, <3>2, OutTyped
    <3> HIDE DEF h, cl
    <3>4. Popped(gw, c, "frames", h)
      BY <3>1, <3>3 DEF Popped, Talk, Box
    <3>5. Box(gw, clients, c, "frames") = box
      BY DEF Box
    <3>6. cl = [clients EXCEPT ![c] = Replayed(@, Head(box))]
      BY <2>2 DEF cl
    <3> HIDE DEF box
    <3>7. box \in Seq(Message) /\ box # <<>>
      BY <1>2, <2>2 DEF box
    <3>8. Receipt(gw, c, "frames", box, h, cl)
      BY <3>4, <3>5, <3>6, <3>7 DEF Receipt
    <3> QED BY <1>1, <3>8, PoppedSound
  <2> QED BY <2>1, <2>2 DEF ClientReceive
<1>4. UNCHANGED <<worlds, registered, issued>>
  BY DEF ClientReceive
<1>5. Gone' = Gone
  BY <1>4 DEF Gone
<1> QED BY <1>3, <1>4, <1>5 DEF GatewayInv

-----------------------------------------------------------------------------
(* Worlds step, stop, start and end. *)

LEMMA StepWorldsKept ==
    ASSUME GatewayInv, NEW tick \in [World -> {"changed", "quiet", "failed"}], NEW eventful \in BOOLEAN,
           StepWorlds(tick, eventful), UNCHANGED scene
    PROVE  GatewayInv'
<1> DEFINE After(w) == IF w \notin RunningWorlds THEN worlds[w]
                       ELSE CASE tick[w] = "changed" -> [worlds[w] EXCEPT !.v = @ + 1]
                              [] tick[w] = "failed" -> [worlds[w] EXCEPT !.state = "Failed"]
                              [] OTHER -> worlds[w]
           done == {w \in RunningWorlds : tick[w] # "failed"}
           changed == {w \in done : tick[w] = "changed"}
           g == FannedOut(done, changed, eventful)
           S == Sound(Gone, registered, clients, issued)
<1>1. gw \in S /\ worlds \in Worlds /\ issued \in Seq(Issued)
  BY DEF GatewayInv
<1>2. worlds' = [w \in World |-> After(w)]
  BY DEF StepWorlds
<1>3. ASSUME NEW w \in World
      PROVE  /\ After(w) \in [state : {"Running", "Stopped", "Failed", "Gone"}, v : Nat]
             /\ After(w).state = "Gone" <=> worlds[w].state = "Gone"
  <2>1. worlds[w] \in [state : {"Running", "Stopped", "Failed", "Gone"}, v : Nat]
    BY <1>1 DEF Worlds
  <2>2. CASE w \notin RunningWorlds
    BY <2>1, <2>2
  <2>3. CASE w \in RunningWorlds /\ tick[w] = "changed"
    <3>1. After(w) = [worlds[w] EXCEPT !.v = @ + 1]
      BY <2>3
    <3> HIDE DEF After
    <3> QED BY <2>1, <3>1
  <2>4. CASE w \in RunningWorlds /\ tick[w] = "failed"
    <3>1. After(w) = [worlds[w] EXCEPT !.state = "Failed"] /\ worlds[w].state = "Running"
      BY <2>4 DEF RunningWorlds
    <3> HIDE DEF After
    <3> QED BY <2>1, <3>1
  <2>5. CASE w \in RunningWorlds /\ tick[w] = "quiet"
    <3>1. After(w) = worlds[w]
      BY <2>5
    <3> HIDE DEF After
    <3> QED BY <2>1, <3>1
  <2>6. tick[w] \in {"changed", "quiet", "failed"}
    OBVIOUS
  <2> HIDE DEF After
  <2> QED BY <2>2, <2>3, <2>4, <2>5, <2>6
<1> HIDE DEF After
<1>4. worlds' \in Worlds /\ Gone' = Gone
  BY <1>2, <1>3 DEF Worlds, Gone
<1>5. gw' = Sweep(g, worlds')
  BY DEF StepWorlds
<1>6. UNCHANGED <<registered, clients, issued>>
  BY DEF StepWorlds
<1> HIDE DEF done, changed
<1>7. g \in S
  BY <1>1, FannedOutSound
<1> HIDE DEF g
<1>8. Sweep(g, worlds') \in S
  BY <1>1, <1>7, SweepSound
<1> QED BY <1>1, <1>4, <1>5, <1>6, <1>8 DEF GatewayInv

LEMMA StopStartKept ==
    ASSUME GatewayInv, NEW w \in World, Stop(w) \/ Start(w), UNCHANGED scene
    PROVE  GatewayInv'
<1>1. PICK state \in {"Stopped", "Running"} : worlds' = [worlds EXCEPT ![w].state = state]
  BY DEF Stop, Start
<1>2. worlds \in Worlds /\ worlds[w].state # "Gone"
  BY DEF GatewayInv, Stop, Start
<1>3. worlds' \in Worlds /\ worlds'[w].state # "Gone"
      /\ \A v \in World : v # w => worlds'[v] = worlds[v]
  BY <1>1, <1>2 DEF Worlds
<1>4. Gone' = Gone
  BY <1>2, <1>3 DEF Gone
<1>5. UNCHANGED <<gw, registered, clients, issued>>
  BY DEF Stop, Start
<1> QED BY <1>3, <1>4, <1>5 DEF GatewayInv

LEMMA DestroyKept ==
    ASSUME GatewayInv, NEW w \in World, Destroy(w), UNCHANGED scene
    PROVE  GatewayInv'
<1> DEFINE live == {p \in gw.live : p[1] # w}
           h == Emptied(gw, w, live)
           later == Gone \cup {w}
<1>1. gw \in Sound(Gone, registered, clients, issued) /\ worlds \in Worlds /\ gw \in Gateways
      /\ Indexed(gw, Gone, registered)
  BY SoundIs DEF GatewayInv
<1>2. worlds' = [worlds EXCEPT ![w].state = "Gone"] /\ UNCHANGED <<registered, clients, issued>>
  BY DEF Destroy
<1>3. worlds' \in Worlds /\ worlds'[w].state = "Gone"
      /\ \A v \in World : v # w => worlds'[v] = worlds[v]
  BY <1>1, <1>2 DEF Worlds
<1>4. Gone' = later
  BY <1>3 DEF Gone
<1>5. gw' = h
  BY <1>1 DEF Destroy, Emptied, Gateways
<1>6. gw.live \in SUBSET (World \X SubId)
  BY <1>1, FieldTypes
<1>7. live \in SUBSET (World \X SubId)
  BY <1>6
<1>8. h.live = live /\ h.conns = gw.conns
  <2> HIDE DEF live
  <2> QED BY <1>1 DEF Emptied, Gateways
<1> HIDE DEF h
<1>9. LiveIs(h, later)
  <2>1. \A c \in Client : \A v, s : Holds(h, c, v, s) <=> Holds(gw, c, v, s)
    BY <1>8 DEF Holds, Open
  <2>2. ASSUME NEW v \in World \ later, NEW s \in SubId
        PROVE  <<v, s>> \in h.live <=> \E c \in Client : Holds(h, c, v, s)
    <3>1. v \in World \ Gone /\ v # w
      OBVIOUS
    <3>2. <<v, s>> \in gw.live <=> \E c \in Client : Holds(gw, c, v, s)
      BY <1>1, <3>1 DEF Indexed, LiveIs
    <3>3. <<v, s>> \in h.live <=> <<v, s>> \in gw.live
      BY <1>8, <3>1
    <3> QED BY <2>1, <3>2, <3>3
  <2> HIDE DEF later
  <2> QED BY <2>2, Zenon DEF LiveIs
<1>10. h \in Sound(later, registered, clients, issued)
  <2> HIDE DEF live, later
  <2>1. LiveIs(Emptied(gw, w, live), later)
    BY <1>9 DEF h
  <2>2. Emptied(gw, w, live) \in Sound(later, registered, clients, issued)
    BY <1>1, <1>7, <2>1, EmptiedSound
  <2> QED BY <2>2 DEF h
<1> QED BY <1>2, <1>3, <1>4, <1>5, <1>10 DEF GatewayInv

-----------------------------------------------------------------------------
(* Every step. *)

LEMMA DispatchKept ==
    ASSUME GatewayInv, NEW c \in Client, NEW m \in scene.menu[c], Dispatch(c, m), UNCHANGED scene
    PROVE  GatewayInv'
<1>1. CASE Violate(c, m)
  BY <1>1, ViolateKept
<1>2. CASE Ping(c, m)
  BY <1>2, PingKept
<1>3. CASE RateLimited(c, m)
  BY <1>3, RateLimitedKept
<1>4. CASE Authenticate(c, m)
  BY <1>4, AuthenticateKept
<1>5. CASE AttachWorld(c, m)
  BY <1>5, AttachWorldKept
<1>6. CASE Input(c, m)
  BY <1>6, InputKept
<1>7. CASE Subscribe(c, m)
  BY <1>7, SubscribeKept
<1>8. CASE Unsubscribe(c, m)
  BY <1>8, UnsubscribeKept
<1>9. CASE Resync(c, m)
  BY <1>9, ResyncKept
<1>10. CASE DetachWorld(c, m)
  BY <1>10, DetachWorldKept
<1>11. CASE CallReducer(c, m)
  BY <1>11, CallReducerKept
<1> QED BY <1>1, <1>2, <1>3, <1>4, <1>5, <1>6, <1>7, <1>8, <1>9, <1>10, <1>11 DEF Dispatch

LEMMA GatewayInvKept == GatewayInv /\ [GNext]_gvars => GatewayInv'
<1> SUFFICES ASSUME GatewayInv, [GNext]_gvars PROVE GatewayInv'
  OBVIOUS
<1>1. CASE UNCHANGED gvars
  <2>1. UNCHANGED <<scene, worlds, registered, clients, issued, gw>>
    BY <1>1 DEF gvars
  <2>2. gw' \in Now
    BY <2>1 DEF GatewayInv, Now
  <2> QED BY <2>1, <2>2, Steady
<1>2. CASE GNext
  <2>0. UNCHANGED scene
    BY <1>2 DEF GNext
  <2>1. CASE AnyStep
    BY <2>0, <2>1, StepWorldsKept DEF AnyStep
  <2>2. CASE RegisterConnection
    BY <2>0, <2>2, RegisterConnectionKept
  <2>3. ASSUME NEW c \in Client, ClientClose(c) PROVE GatewayInv'
    BY <2>0, <2>3, ClientCloseKept
  <2>4. ASSUME NEW c \in Client, ClientReceive(c) PROVE GatewayInv'
    BY <2>0, <2>4, ClientReceiveKept
  <2>5. ASSUME NEW c \in Client, NEW m \in scene.menu[c], Dispatch(c, m) PROVE GatewayInv'
    BY <2>0, <2>5, DispatchKept
  <2>6. ASSUME NEW w \in World, Stop(w) \/ Start(w) PROVE GatewayInv'
    BY <2>0, <2>6, StopStartKept
  <2>7. ASSUME NEW w \in World, Destroy(w) PROVE GatewayInv'
    BY <2>0, <2>7, DestroyKept
  <2> QED BY <1>2, <2>1, <2>2, <2>3, <2>4, <2>5, <2>6, <2>7 DEF GNext
<1> QED BY <1>1, <1>2

(* The gateway's inductive invariant: the indexes tell one story, and what *)
(* is pending, queued and answered are the calls the runtime was given.    *)
THEOREM GatewayInvariant == GSpec => []GatewayInv
<1>1. GInit => GatewayInv
  BY GatewayInvStart
<1>2. GatewayInv /\ [GNext]_gvars => GatewayInv'
  BY GatewayInvKept
<1> QED BY <1>1, <1>2, PTL DEF GSpec

LEMMA IndexedAgree == GatewayInv => IndexesAgree
<1> SUFFICES ASSUME GatewayInv PROVE IndexesAgree
  OBVIOUS
<1>1. gw \in Gateways /\ AttachedIs(gw) /\ SubscribersAre(gw) /\ LiveIs(gw, Gone) /\ PendingIs(gw)
  BY SoundIs DEF GatewayInv, Indexed
<1>2. /\ gw.attached \in [World -> SUBSET Client] /\ gw.subscribers \in [World -> Seq(Client \X SubId)]
      /\ gw.live \in SUBSET (World \X SubId)
      /\ \A k \in DOMAIN gw.pending : gw.pending[k] \in PendingCall
  BY <1>1, FieldTypes
<1>3. ASSUME NEW w \in World
      PROVE  gw.attached[w] = {c \in Client : Open(gw, c) /\ gw.conns[c].world = w}
  BY <1>1, <1>2 DEF AttachedIs
<1> DEFINE Held(w) == {p \in Client \X SubId : /\ Open(gw, p[1]) /\ gw.conns[p[1]].world = w
                                               /\ p[2] \in gw.conns[p[1]].subs}
<1>4. ASSUME NEW w \in World
      PROVE  /\ ToSet(gw.subscribers[w]) = Held(w)
             /\ Len(gw.subscribers[w]) = Cardinality(Held(w))
  <2> DEFINE list == gw.subscribers[w]
  <2>1. list \in Seq(Client \X SubId) /\ \A i, j \in DOMAIN list : list[i] = list[j] => i = j
    BY <1>1, <1>2 DEF SubscribersAre
  <2>2. ToSet(list) = {list[i] : i \in DOMAIN list} /\ \A i \in DOMAIN list : list[i] \in Client \X SubId
    BY <2>1 DEF ToSet
  <2>3. ASSUME NEW p \in Client \X SubId PROVE p \in ToSet(list) <=> p \in Held(w)
    <3>1. p = <<p[1], p[2]>> /\ p[1] \in Client /\ p[2] \in SubId
      OBVIOUS
    <3>2. p \in ToSet(list) <=> Listed(gw, w, p[1], p[2])
      BY <2>2, <3>1 DEF Listed
    <3>3. Listed(gw, w, p[1], p[2]) <=> Holds(gw, p[1], w, p[2])
      BY <1>1, <3>1 DEF SubscribersAre
    <3> QED BY <3>2, <3>3 DEF Holds
  <2>4. ToSet(list) = Held(w)
    <3>1. \A p \in ToSet(list) : p \in Client \X SubId
      BY <2>2
    <3>2. \A p \in Held(w) : p \in Client \X SubId
      OBVIOUS
    <3> HIDE DEF list, Held
    <3> QED BY <2>3, <3>1, <3>2
  <2> HIDE DEF Held
  <2>5. Len(list) = Cardinality(ToSet(list))
    BY <2>1, LengthOfList
  <2> QED BY <2>4, <2>5
<1>5. ASSUME NEW w \in World, worlds[w].state # "Gone"
      PROVE  {p[2] : p \in {q \in gw.live : q[1] = w}} = {p[2] : p \in Held(w)}
  <2>1. w \in World \ Gone
    BY <1>5 DEF Gone
  <2>2. ASSUME NEW s PROVE s \in {p[2] : p \in {q \in gw.live : q[1] = w}} <=> s \in SubId /\ <<w, s>> \in gw.live
    <3>1. \A q \in gw.live : q[2] \in SubId /\ q = <<q[1], q[2]>>
      BY <1>2
    <3> QED BY <3>1
  <2>3. ASSUME NEW s \in SubId PROVE <<w, s>> \in gw.live <=> \E c \in Client : Holds(gw, c, w, s)
    BY <1>1, <2>1 DEF LiveIs
  <2>4. ASSUME NEW s PROVE s \in {p[2] : p \in Held(w)} <=> s \in SubId /\ \E c \in Client : Holds(gw, c, w, s)
    <3>1. ASSUME NEW p \in Held(w) PROVE p[2] \in SubId /\ p[1] \in Client /\ Holds(gw, p[1], w, p[2])
      BY DEF Holds
    <3>2. ASSUME NEW c \in Client, s \in SubId, Holds(gw, c, w, s) PROVE <<c, s>> \in Held(w)
      BY <3>2 DEF Holds
    <3> HIDE DEF Held
    <3>3. s \in {p[2] : p \in Held(w)} => s \in SubId /\ \E c \in Client : Holds(gw, c, w, s)
      BY <3>1
    <3>4. ASSUME NEW c \in Client, s \in SubId, Holds(gw, c, w, s) PROVE s \in {p[2] : p \in Held(w)}
      <4>1. <<c, s>> \in Held(w)
        BY <3>2, <3>4
      <4> QED BY <4>1
    <3> QED BY <3>3, <3>4
  <2> HIDE DEF Held
  <2> QED BY <2>2, <2>3, <2>4
<1>6. ASSUME NEW c \in Client
      PROVE  gw.pendingBy[c] = {gw.pending[k].id : k \in {j \in DOMAIN gw.pending :
                                                            gw.pending[j].conn = c}}
  BY <1>1 DEF PendingIs
<1> QED BY <1>3, <1>4, <1>5, <1>6, Zenon DEF IndexesAgree

(* IndexesAgree: the attached sets, the subscriber lists, the runtime's    *)
(* live subscriptions and pending_by_connection agree with the sessions    *)
(* and pending_calls (gateway.rs), in every reachable state.               *)
THEOREM GatewayIndexesAgree == GSpec => []IndexesAgree
<1>1. GSpec => []GatewayInv
  BY GatewayInvariant
<1>2. GatewayInv => IndexesAgree
  BY IndexedAgree
<1> QED BY <1>1, <1>2, PTL

(* Where a message of the inbox is. *)
LEMMA InboxIs ==
    ASSUME GatewayInv, NEW c \in Client, NEW i \in DOMAIN Inbox(c)
    PROVE  \E b \in Boxes : \E x \in DOMAIN Box(gw, clients, c, b) :
              /\ Inbox(c)[i] = Box(gw, clients, c, b)[x]
              /\ i = x + (IF b = "got" THEN 0 ELSE Len(clients[c].got))
                       + (IF b = "frames" THEN Len(gw.out[c].msgs) ELSE 0)
<1> DEFINE r == clients[c].got
           m == gw.out[c].msgs
           f == gw.out[c].frames
<1>1. r \in Seq(Message) /\ m \in Seq(Message) /\ f \in Seq(Message)
  <2>1. gw \in Gateways /\ clients \in Clients
    BY SoundIs DEF GatewayInv
  <2> QED BY <2>1, OutFields DEF Clients
<1>2. Inbox(c) = (r \o m) \o f
  BY DEF Inbox
<1>3. /\ Box(gw, clients, c, "got") = r /\ Box(gw, clients, c, "msgs") = m
      /\ Box(gw, clients, c, "frames") = f
  BY BoxIs
<1>4. {"got", "msgs", "frames"} \subseteq Boxes
  BY DEF Boxes
<1> HIDE DEF r, m, f
<1>5. /\ Len(r) \in Nat /\ Len(m) \in Nat /\ Len(f) \in Nat
      /\ DOMAIN r = 1 .. Len(r) /\ DOMAIN m = 1 .. Len(m) /\ DOMAIN f = 1 .. Len(f)
      /\ r \o m \in Seq(Message) /\ Len(r \o m) = Len(r) + Len(m)
      /\ \A k \in 1 .. Len(r) + Len(m) : (r \o m)[k] = IF k <= Len(r) THEN r[k] ELSE m[k - Len(r)]
  BY <1>1, ConcatProperties, LenProperties
<1>6. /\ DOMAIN Inbox(c) = 1 .. Len(r) + Len(m) + Len(f)
      /\ \A k \in 1 .. Len(r) + Len(m) + Len(f) :
            Inbox(c)[k] = IF k <= Len(r) + Len(m) THEN (r \o m)[k] ELSE f[k - (Len(r) + Len(m))]
  BY <1>1, <1>2, <1>5, ConcatProperties, LenProperties
<1>7. i \in 1 .. Len(r) + Len(m) + Len(f)
  BY <1>6
<1>8. CASE i <= Len(r)
  <2>1. i \in DOMAIN r /\ Inbox(c)[i] = r[i] /\ i = i + 0 + 0
    BY <1>5, <1>6, <1>7, <1>8
  <2> QED BY <1>3, <1>4, <2>1
<1>9. CASE Len(r) < i /\ i <= Len(r) + Len(m)
  <2> DEFINE x == i - Len(r)
  <2>1. x \in DOMAIN m /\ Inbox(c)[i] = m[x] /\ i = x + Len(r) + 0
    BY <1>5, <1>6, <1>7, <1>9
  <2> HIDE DEF x
  <2> QED BY <1>3, <1>4, <2>1 DEF r
<1>10. CASE Len(r) + Len(m) < i
  <2> DEFINE x == i - (Len(r) + Len(m))
  <2>1. x \in DOMAIN f /\ Inbox(c)[i] = f[x] /\ i = x + Len(r) + Len(m)
    BY <1>5, <1>6, <1>7, <1>10
  <2> HIDE DEF x
  <2> QED BY <1>3, <1>4, <2>1 DEF r, m
<1> QED BY <1>5, <1>7, <1>8, <1>9, <1>10

LEMMA AnsweredOwn == GatewayInv => AnswersAreOwn
<1> SUFFICES ASSUME GatewayInv, NEW c \in Client, NEW i \in DOMAIN Inbox(c), IsResult(Inbox(c)[i])
             PROVE  /\ issued[Inbox(c)[i].gid].conn = c /\ issued[Inbox(c)[i].gid].id = Inbox(c)[i].id
                    /\ \A j \in DOMAIN Inbox(c) :
                          IsResult(Inbox(c)[j]) /\ Inbox(c)[j].gid = Inbox(c)[i].gid => i = j
  BY DEF AnswersAreOwn
<1>1. AnswersAre(gw, clients, issued) /\ AnsweredOnce(gw, clients)
  BY SoundIs DEF GatewayInv, Answered
<1> DEFINE At(k, b, x) == /\ Inbox(c)[k] = Box(gw, clients, c, b)[x]
                          /\ k = x + (IF b = "got" THEN 0 ELSE Len(clients[c].got))
                                   + (IF b = "frames" THEN Len(gw.out[c].msgs) ELSE 0)
<1>2. ASSUME NEW k \in DOMAIN Inbox(c)
      PROVE  \E b \in Boxes : \E x \in DOMAIN Box(gw, clients, c, b) : At(k, b, x)
  BY InboxIs
<1>3. PICK a \in Boxes : \E x \in DOMAIN Box(gw, clients, c, a) : At(i, a, x)
  <2> HIDE DEF At
  <2> QED BY <1>2
<1>4. PICK x \in DOMAIN Box(gw, clients, c, a) : At(i, a, x)
  <2> HIDE DEF At
  <2> QED BY <1>3
<1>5. issued[Inbox(c)[i].gid].conn = c /\ issued[Inbox(c)[i].gid].id = Inbox(c)[i].id
  BY <1>1, <1>4 DEF AnswersAre, Answers
<1>6. ASSUME NEW j \in DOMAIN Inbox(c), IsResult(Inbox(c)[j]), Inbox(c)[j].gid = Inbox(c)[i].gid
      PROVE  i = j
  <2>1. PICK b \in Boxes : \E y \in DOMAIN Box(gw, clients, c, b) : At(j, b, y)
    <3> HIDE DEF At
    <3> QED BY <1>2
  <2>2. PICK y \in DOMAIN Box(gw, clients, c, b) : At(j, b, y)
    <3> HIDE DEF At
    <3> QED BY <2>1
  <2>3. a = b /\ x = y
    BY <1>1, <1>4, <1>6, <2>2 DEF AnsweredOnce
  <2> QED BY <1>4, <2>2, <2>3
<1> QED BY <1>5, <1>6

(* AnswersAreOwn: a result goes to the connection that made the call,      *)
(* under that call's id, and no call has two (pending_calls and            *)
(* fan_out_results in gateway.rs), in every reachable state.               *)
THEOREM GatewayAnswersAreOwn == GSpec => []AnswersAreOwn
<1>1. GSpec => []GatewayInv
  BY GatewayInvariant
<1>2. GatewayInv => AnswersAreOwn
  BY AnsweredOwn
<1> QED BY <1>1, <1>2, PTL
=============================================================================
