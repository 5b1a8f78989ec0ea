---------------------------- MODULE Subscription ----------------------------
(***************************************************************************)
(* The subscription engine (crates/nexum-subscription): the registry, the  *)
(* derived view that all subscriptions with the same query share, and the  *)
(* bounded buffer of each subscription, over the rows of one table.        *)
(*                                                                         *)
(* A row is its sort value; a query selects the rows from a floor up,      *)
(* orders them and keeps a window.  What the consumer of a subscription    *)
(* makes of its updates is the history variable replica.  The view of a    *)
(* window of one can come to show another row than the best: a release     *)
(* build goes on with it.  The history variable misled holds the members   *)
(* whose view another member's resync then corrected without a word to     *)
(* them.  No operation of the runtime drops a table, so tables stay.       *)
(***************************************************************************)
EXTENDS Integers, FiniteSets, SequencesExt

CONSTANTS
    Row,          \* sort values
    Queries,      \* [order : {"none", "asc", "desc"}, floor : Nat, cap : Nat]
    None,         \* no row, no view, no subscription
    StaleView,    \* what a consumer holds after a Stale update
    MaxBuffered,  \* SubscriptionConfig::max_buffered
    InitialRows,  \* rows there before the first subscription
    MaxRows,      \* bound: row ids
    MaxSubs,      \* bound: subscription ids
    MaxChanges,   \* bound: changes in a commit
    MaxSeq,       \* bound: commits
    MaxResyncs    \* bound: resyncs

ASSUME SubscriptionAssumption ==
    /\ Row \subseteq Nat
    /\ Queries \subseteq [order : {"none", "asc", "desc"},
                          floor : Nat, cap : Nat \ {0}]
    /\ MaxBuffered \in Nat \ {0}
    /\ MaxRows \in Nat /\ InitialRows \in 0 .. MaxRows
    /\ MaxSubs \in Nat /\ MaxChanges \in Nat /\ MaxSeq \in Nat
    /\ MaxResyncs \in Nat

VARIABLES
    rows,     \* the table: the row of each id, or None
    nextRow,  \* the table's next row id
    nextSeq,  \* SubscriptionRegistry::next_seq
    views,    \* the shared view of each query, None if there is none
    subs,     \* the subscription of each id, or None
    nextId,   \* SubscriptionRegistry::next_id
    pending,  \* SubscriptionRegistry::pending_set
    replica,  \* history: what the consumer of each subscription holds
    misled,   \* history: members whose view changed and nobody told them
    resyncs

store == <<rows, nextRow>>
registry == <<nextSeq, views, subs, nextId, pending>>
svars == <<store, registry, replica, misled, resyncs>>

RowId == 0 .. MaxRows - 1
SubId == 0 .. MaxSubs - 1
Cell == Row \cup {None}
NoRows == [id \in RowId |-> None]

-----------------------------------------------------------------------------
(* Queries and keys.                                                       *)

Matches(q, row) == row # None /\ row >= q.floor

MatchingRows(q) ==
    [id \in RowId |-> IF Matches(q, rows[id]) THEN rows[id] ELSE None]

KeyOf(q, id, row) == [sort |-> IF q.order = "none" THEN 0 ELSE row, id |-> id]

\* Descending flips the sort value only; the row id breaks ties upwards.
Before(q, a, b) ==
    \/ IF q.order = "desc" THEN a.sort > b.sort ELSE a.sort < b.sort
    \/ a.sort = b.sort /\ a.id < b.id

Keys(q, window) ==
    {KeyOf(q, id, window[id]) : id \in {i \in RowId : window[i] # None}}

FirstKey(q, keys) == CHOOSE k \in keys : \A l \in keys : l = k \/ Before(q, k, l)
LastKey(q, keys) == CHOOSE k \in keys : \A l \in keys : l = k \/ Before(q, l, k)

\* The first cap keys: fewer than cap come before each.
TopCap(q, keys) ==
    {k \in keys : Cardinality({l \in keys : Before(q, l, k)}) < q.cap}

Shown(view) ==
    [id \in RowId |-> IF \E k \in view.visible : k.id = id
                      THEN view.window[id] ELSE None]

-----------------------------------------------------------------------------
(* The shared view.                                                        *)

Rebuilt(q, window) == [window |-> window, visible |-> TopCap(q, Keys(q, window))]

InsertUpdate(seq, id, row) == [kind |-> "Insert", seq |-> seq, id |-> id, row |-> row]
UpdateUpdate(seq, id, row) == [kind |-> "Update", seq |-> seq, id |-> id, row |-> row]
DeleteUpdate(seq, id) == [kind |-> "Delete", seq |-> seq, id |-> id]
StaleUpdate(seq) == [kind |-> "Stale", seq |-> seq]
Snapshot(kind, seq, view) == [kind |-> kind, seq |-> seq, rows |-> Shown(view)]

\* The window keys above the visible ones; all of them if none is visible.
Above(q, window, visible) ==
    IF visible = {} THEN Keys(q, window)
    ELSE {k \in Keys(q, window) : Before(q, LastKey(q, visible), k)}

\* A row left the visible set: its Delete, and the next-best row's Insert.
Leave(q, window, visible, id, seq) ==
    LET above == Above(q, window, visible)
        entered == FirstKey(q, above)
    IN  IF above = {} THEN [window |-> window, visible |-> visible,
                            out |-> <<DeleteUpdate(seq, id)>>]
        ELSE [window |-> window, visible |-> visible \cup {entered},
              out |-> <<DeleteUpdate(seq, id),
                        InsertUpdate(seq, entered.id, window[entered.id])>>]

\* Mutant: a visible row stays visible wherever it moves.
MoveStays(q, window, visible, kn, seq) ==
    [window |-> window, visible |-> visible \cup {kn},
     out |-> <<UpdateUpdate(seq, kn.id, window[kn.id])>>]

\* A visible row has a new key.
Move(q, window, visible, kn, seq) ==
    LET above == Above(q, window, visible)
        stays == \/ visible = {}
                 \/ above = {}
                 \/ kn = FirstKey(q, above) \/ Before(q, kn, FirstKey(q, above))
    IN  IF stays THEN [window |-> window, visible |-> visible \cup {kn},
                       out |-> <<UpdateUpdate(seq, kn.id, window[kn.id])>>]
        ELSE Leave(q, window, visible, kn.id, seq)

\* Mutant: an evicted row is not announced.
EnterSilentEviction(q, window, visible, kn, seq) ==
    LET full == Cardinality(visible) >= q.cap
        insert == InsertUpdate(seq, kn.id, window[kn.id])
        worst == LastKey(q, visible)
    IN  CASE ~full -> [window |-> window, visible |-> visible \cup {kn},
                       out |-> <<insert>>]
          [] full /\ Before(q, kn, worst) ->
                [window |-> window, visible |-> (visible \ {worst}) \cup {kn},
                 out |-> <<insert>>]
          [] OTHER -> [window |-> window, visible |-> visible, out |-> <<>>]

\* A row that was not visible has a key: it may enter, and evict the last.
Enter(q, window, visible, kn, seq) ==
    LET full == Cardinality(visible) >= q.cap
        insert == InsertUpdate(seq, kn.id, window[kn.id])
        worst == LastKey(q, visible)
    IN  CASE ~full -> [window |-> window, visible |-> visible \cup {kn},
                       out |-> <<insert>>]
          [] full /\ Before(q, kn, worst) ->
                [window |-> window, visible |-> (visible \ {worst}) \cup {kn},
                 out |-> <<DeleteUpdate(seq, worst.id), insert>>]
          [] OTHER -> [window |-> window, visible |-> visible, out |-> <<>>]

\* One committed change: the window, then the visible set.
ApplyChange(q, view, c, seq) ==
    LET matches == Matches(q, c.new)
        was == view.window[c.id] # None
        ko == KeyOf(q, c.id, view.window[c.id])
        kn == KeyOf(q, c.id, c.new)
        window == [view.window EXCEPT ![c.id] = IF matches THEN c.new ELSE None]
        visible == IF was THEN view.visible \ {ko} ELSE view.visible
        wasVisible == was /\ ko \in view.visible
    IN  CASE matches /\ wasVisible -> Move(q, window, visible, kn, seq)
          [] matches /\ ~wasVisible -> Enter(q, window, visible, kn, seq)
          [] ~matches /\ wasVisible -> Leave(q, window, visible, c.id, seq)
          [] OTHER -> [window |-> window, visible |-> visible, out |-> <<>>]

\* The next change of a commit; the updates of all make one stream.
NextChange(q, acc, c, seq) ==
    LET next == ApplyChange(q, acc, c, seq)
    IN  [window |-> next.window, visible |-> next.visible, out |-> acc.out \o next.out]

\* The first n changes of a commit on one view, each in turn.
ApplyFirst(q, view, changes, seq, n) ==
    LET after[i \in 0 .. n] ==
            IF i = 0 THEN [window |-> view.window, visible |-> view.visible, out |-> <<>>]
            ELSE NextChange(q, after[i - 1], changes[i], seq)
    IN  after[n]

ApplyCommit(q, view, changes, seq) ==
    ApplyFirst(q, view, changes, seq, Len(changes))

-----------------------------------------------------------------------------
(* A subscription's buffer.                                                *)

Fresh(q, update) == [query |-> q, state |-> "Active", buffer |-> <<update>>]

MarkStale(sub, seq) ==
    [sub EXCEPT !.state = "Stale", !.buffer = <<StaleUpdate(seq)>>]

\* The whole commit, or nothing but the Stale marker.
PushCommit(sub, deltas, seq) ==
    IF sub.state = "Stale" THEN sub
    ELSE IF Len(sub.buffer) + Len(deltas) <= MaxBuffered
         THEN [sub EXCEPT !.buffer = @ \o deltas]
         ELSE MarkStale(sub, seq)

-----------------------------------------------------------------------------
(* The consumer (external): it replays what it drains, in order.           *)

Replay(held, u) ==
    CASE u.kind \in {"Initial", "Resync"} -> u.rows
      [] u.kind = "Stale" -> StaleView
      [] OTHER -> IF held = StaleView THEN StaleView
                  ELSE [held EXCEPT ![u.id] = IF u.kind = "Delete" THEN None ELSE u.row]

ReplayFirst(held, updates, n) ==
    LET after[i \in 0 .. n] ==
            IF i = 0 THEN held ELSE Replay(after[i - 1], updates[i])
    IN  after[n]

ReplayAll(held, updates) == ReplayFirst(held, updates, Len(updates))

-----------------------------------------------------------------------------

View == [window : [RowId -> Cell],
         visible : SUBSET [sort : Row \cup {0}, id : RowId]]

Delta == [kind : {"Insert", "Update"}, seq : Nat, id : RowId, row : Row]
            \cup [kind : {"Delete"}, seq : Nat, id : RowId]
Update == Delta \cup [kind : {"Initial", "Resync"}, seq : Nat, rows : [RowId -> Cell]]
                \cup [kind : {"Stale"}, seq : Nat]

Subscriber == [query : Queries, state : {"Active", "Stale"}, buffer : Seq(Update)]

ASSUME NoneAssumption == None \notin Row /\ None \notin View /\ None \notin Subscriber
ASSUME StaleAssumption == StaleView \notin [RowId -> Cell]

SubscriptionTypeOK ==
    /\ rows \in [RowId -> Cell]
    /\ nextRow \in 0 .. MaxRows
    /\ nextSeq \in 0 .. MaxSeq
    /\ views \in [Queries -> View \cup {None}]
    /\ nextId \in 0 .. MaxSubs
    /\ pending \subseteq SubId /\ misled \subseteq SubId
    /\ subs \in [SubId -> Subscriber \cup {None}]
    /\ \A m \in SubId :
          /\ subs[m] # None => m < nextId /\ views[subs[m].query] # None
          /\ replica[m] \in [RowId -> Cell] \cup {StaleView}

SInit ==
    /\ nextRow = InitialRows
    /\ rows \in {r \in [RowId -> Cell] :
                    \A id \in RowId : r[id] = None <=> id >= InitialRows}
    /\ nextSeq = 0
    /\ views = [q \in Queries |-> None]
    /\ subs = [m \in SubId |-> None] /\ nextId = 0 /\ pending = {}
    /\ replica = [m \in SubId |-> NoRows] /\ misled = {}
    /\ resyncs = 0

-----------------------------------------------------------------------------
(* The registry's operations.                                              *)

Members(q) == {m \in SubId : subs[m] # None /\ subs[m].query = q}

\* An existing group's view is taken as it is.
Subscribe(q) ==
    /\ nextId < MaxSubs
    /\ nextId' = nextId + 1
    /\ LET view == IF views[q] # None THEN views[q]
                   ELSE Rebuilt(q, MatchingRows(q))
       IN  /\ views' = [views EXCEPT ![q] = view]
           /\ subs' = [subs EXCEPT ![nextId] =
                          Fresh(q, Snapshot("Initial", nextSeq, view))]
    /\ UNCHANGED <<store, nextSeq, pending, replica, misled, resyncs>>

\* The change records of a commit to newRows: deletes, updates, inserts, each
\* in the order of the row ids.
KindRank(id, newRows) ==
    IF newRows[id] = None THEN 0 ELSE IF rows[id] # None THEN 1 ELSE 2

ChangesBefore(a, b, newRows) ==
    \/ KindRank(a, newRows) < KindRank(b, newRows)
    \/ KindRank(a, newRows) = KindRank(b, newRows) /\ a < b

Changed(newRows) == {id \in RowId : newRows[id] # rows[id]}

\* The place of a changed row: how many come before it.
Place(id, newRows) ==
    Cardinality({b \in Changed(newRows) : ChangesBefore(b, id, newRows)})

ChangedAt(i, newRows) == CHOOSE id \in Changed(newRows) : Place(id, newRows) = i - 1

ChangeOf(id, newRows) == [id |-> id, new |-> newRows[id]]

ChangesTo(newRows) ==
    [i \in 1 .. Cardinality(Changed(newRows)) |-> ChangeOf(ChangedAt(i, newRows), newRows)]

\* Each view is evaluated once; its stream goes to every Active member.  A
\* buffer that was empty puts the member on the list of drain_all_pending.
ApplyChanges(changes) ==
    LET result == [q \in {p \in Queries : Members(p) # {}} |->
                      ApplyCommit(q, views[q], changes, nextSeq)]
        touched == {m \in SubId : /\ subs[m] # None
                                  /\ result[subs[m].query].out # <<>>
                                  /\ subs[m].state = "Active"}
    IN  /\ nextSeq' = nextSeq + 1
        /\ views' = [q \in Queries |->
                        IF q \in DOMAIN result
                        THEN [window |-> result[q].window,
                              visible |-> result[q].visible]
                        ELSE views[q]]
        /\ subs' = [m \in SubId |->
                       IF m \in touched
                       THEN PushCommit(subs[m], result[subs[m].query].out, nextSeq)
                       ELSE subs[m]]
        /\ pending' = pending \cup {m \in touched : subs[m].buffer = <<>>}

\* A tick commits and hands its changes to the registry in the same call.
Commit(newRows) ==
    /\ nextSeq < MaxSeq
    /\ Cardinality(Changed(newRows)) \in 1 .. MaxChanges
    /\ ApplyChanges(ChangesTo(newRows))
    /\ rows' = newRows
    /\ nextRow' = CHOOSE n \in nextRow .. MaxRows :
                     \A id \in RowId : id >= nextRow =>
                        (newRows[id] # None <=> id < n)
    /\ UNCHANGED <<nextId, replica, misled, resyncs>>

\* What a commit may leave behind: rows that are gone stay gone, and new ones
\* take the next ids.
Successors ==
    {r \in [RowId -> Cell] :
        /\ \A id \in RowId : id < nextRow /\ rows[id] = None => r[id] = None
        /\ \A id \in RowId : id > nextRow /\ r[id] # None => r[id - 1] # None}

\* A commit that changes other tables only still takes a sequence number.
CommitElsewhere ==
    /\ nextSeq < MaxSeq
    /\ nextSeq' = nextSeq + 1
    /\ UNCHANGED <<store, views, subs, nextId, pending, replica, misled, resyncs>>

Delivered(m) == ReplayAll(replica[m], subs[m].buffer)

Drain(m) ==
    /\ subs[m] # None
    /\ replica' = [replica EXCEPT ![m] = Delivered(m)]
    /\ subs' = [subs EXCEPT ![m].buffer = <<>>]
    /\ pending' = pending \ {m}
    /\ UNCHANGED <<store, nextSeq, views, nextId, misled, resyncs>>

DrainAllPending ==
    /\ LET drained == {m \in pending : subs[m] # None}
       IN  /\ replica' = [m \in SubId |->
                             IF m \in drained THEN Delivered(m) ELSE replica[m]]
           /\ subs' = [m \in SubId |->
                          IF m \in drained THEN [subs[m] EXCEPT !.buffer = <<>>]
                          ELSE subs[m]]
    /\ pending' = {}
    /\ UNCHANGED <<store, nextSeq, views, nextId, misled, resyncs>>

\* The view goes with its last member; pending_set is not touched.
Unsubscribe(m) ==
    /\ subs[m] # None
    /\ subs' = [subs EXCEPT ![m] = None]
    /\ views' = IF Members(subs[m].query) = {m}
                THEN [views EXCEPT ![subs[m].query] = None] ELSE views
    /\ replica' = [replica EXCEPT ![m] = NoRows] /\ misled' = misled \ {m}
    /\ UNCHANGED <<store, nextSeq, nextId, pending, resyncs>>

\* Rebuilds the view of the whole group, and the buffer of one member.
Resync(m) ==
    /\ subs[m] # None /\ resyncs < MaxResyncs
    /\ LET q == subs[m].query
           view == Rebuilt(q, MatchingRows(q))
       IN  /\ views' = [views EXCEPT ![q] = view]
           /\ subs' = [subs EXCEPT ![m] =
                          Fresh(q, Snapshot("Resync", nextSeq, view))]
           /\ misled' = (misled \ {m}) \cup
                           {k \in Members(q) \ {m} : views[q] # view}
    /\ resyncs' = resyncs + 1
    /\ UNCHANGED <<store, nextSeq, nextId, pending, replica>>

SNext ==
    \/ \E q \in Queries : Subscribe(q)
    \/ \E newRows \in Successors : Commit(newRows)
    \/ CommitElsewhere \/ DrainAllPending
    \/ \E m \in SubId : Drain(m) \/ Unsubscribe(m) \/ Resync(m)

SSpec == SInit /\ [][SNext]_svars

-----------------------------------------------------------------------------

\* subscription.rs: "the delivered view always equals the authoritative top-N
\* at every committed point".
ViewIsTopN ==
    \A q \in Queries : views[q] # None => views[q] = Rebuilt(q, MatchingRows(q))

\* What of that holds: every window has exactly the matching rows, with rows
\* that move across its edge, several in one commit, and groups whose members
\* come and go; a window of two or more shows the first of them, and a window
\* of one shows one row of them, or none when there is none.
ViewIsCurrent ==
    \A q \in Queries : views[q] # None =>
        LET view == views[q]
            keys == Keys(q, view.window)
        IN  /\ view.window = MatchingRows(q)
            /\ q.cap > 1 => view.visible = TopCap(q, keys)
            /\ q.cap = 1 => \/ keys = {} /\ view.visible = {}
                            \/ \E k \in keys : view.visible = {k}

\* Whenever a consumer drains, it holds exactly the visible rows of its query
\* at that commit, or has been told that it is stale: nothing is lost or
\* applied twice between a snapshot and the stream, by the sharing of views,
\* by overflow, or by the resync of another member -- but for that resync on
\* a window of one.
StreamRebuildsView ==
    \A m \in SubId : subs[m] # None =>
        \/ Delivered(m) = IF subs[m].state = "Stale" THEN StaleView
                          ELSE Shown(views[subs[m].query])
        \/ m \in misled /\ subs[m].query.cap = 1

\* No schedule of commits and drains makes a buffer outgrow max_buffered.
BufferIsBounded ==
    \A m \in SubId : subs[m] # None => Len(subs[m].buffer) <= MaxBuffered
=============================================================================
