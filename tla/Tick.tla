-------------------------------- MODULE Tick --------------------------------
(***************************************************************************)
(* One tick of a partition (crates/nexum-execution): delivered messages,   *)
(* due scheduled events and client reducer calls run one after another     *)
(* against the tick's transaction, then the systems, in order or in        *)
(* parallel groups whose members run on branches of it, and all of it      *)
(* commits at once.                                                        *)
(*                                                                         *)
(* A reducer or system is a program: it looks at rows, scans tables,       *)
(* writes one row with a value that depends on all it saw, emits events,   *)
(* sends messages, and may fail after writing.  The gates before the tick  *)
(* are in module Runtime, validation at commit in module Transaction: here *)
(* no row has a unique key, and nobody else writes, so commit succeeds.    *)
(***************************************************************************)
EXTENDS Naturals, FiniteSets, SequencesExt

CONSTANTS
    Table, RowOf,        \* tables, and the rows each of them has
    Reducers,            \* name -> program and where it is registered
    Systems,             \* system definitions that may be registered
    Workers,             \* execution modes: 0 is Serial, n is Parallel(n)
    Batches, CallLists,  \* input: delivered messages, client calls
    MaxEvents, MaxMessages, MaxScheduled,   \* PartitionConfig
    MaxSystems,          \* bound: systems registered
    MaxTick,             \* bound: ticks
    MaxOps,              \* bound: schedule and cancel calls
    None

VARIABLES
    store,      \* the committed rows
    tick,       \* the next tick
    systems,    \* SystemRegistry: the registered definitions
    workers,    \* PartitionConfig::execution
    schedule,   \* Schedule: pending events by (at_tick, id)
    nextEvent,  \* Schedule::next_id
    cur,        \* the tick in progress
    last        \* history: the last tick's inputs and outcome

tvars == <<store, tick, systems, workers, schedule, nextEvent, cur, last>>

ASSUME TickAssumption ==
    /\ Workers \subseteq Nat
    /\ {MaxEvents, MaxMessages, MaxScheduled} \subseteq Nat \ {0}
    /\ MaxTick \in Nat /\ MaxOps \in Nat /\ MaxSystems \in Nat

-----------------------------------------------------------------------------
(* The transaction a program runs in.                                      *)

Cell == UNION {{<<t, r>> : r \in RowOf[t]} : t \in Table}

NewTx == [writes |-> [c \in Cell |-> None], own |-> {}, reads |-> {}, scans |-> {},
          events |-> <<>>, sent |-> <<>>]

\* A branch sees the pending writes and starts with buffers of its own.
BranchOf(tx) == [NewTx EXCEPT !.writes = tx.writes]

View(rows, tx, c) == IF tx.writes[c] = None THEN rows[c] ELSE tx.writes[c]

Seen(p) == p.looks \cup {c \in Cell : c[1] \in p.scans}

\* What the program writes: every value it saw makes a difference.
Written(rows, tx, p) ==
    1 + 2 * FoldLeft(LAMBDA sum, c : sum + View(rows, tx, c), 0, SetToSeq(Seen(p)))

\* Rows without a pending write are observed in the store, also by a write.
Observed(tx, p) ==
    {c \in p.looks \cup p.puts : tx.writes[c] = None}

\* send_to numbers the messages of the buffer by position.
Numbered(msgs) == [i \in DOMAIN msgs |-> [msgs[i] EXCEPT !.seq = i - 1]]

\* A program up to its error, if it has one: events and messages beyond the
\* budget are errors of the program too.
Run(rows, tx, p) ==
    LET after == [tx EXCEPT
            !.writes = [c \in Cell |-> IF c \in p.puts THEN Written(rows, tx, p) ELSE @[c]],
            !.own    = @ \cup p.puts,
            !.reads  = @ \cup Observed(tx, p),
            !.scans  = @ \cup p.scans,
            !.events = @ \o [i \in 1 .. p.emits |-> p.name],
            !.sent   = Numbered(@ \o [i \in 1 .. p.sends |-> [by |-> p.name, seq |-> 0]])]
    IN  [tx |-> after,
         ok |-> /\ ~p.fails
                /\ p.emits > 0 => Len(after.events) <= MaxEvents
                /\ p.sends > 0 => Len(after.sent) <= MaxMessages]

\* invoke_reducer: native first, then WASM, then NotFound.  The events of a
\* reducer go to the tick's buffer only if it succeeds.
Invoke(rows, tx, name, homes) ==
    IF Reducers[name].homes \cap homes = {} THEN [tx |-> tx, ok |-> FALSE]
    ELSE LET ran == Run(rows, [tx EXCEPT !.events = <<>>], Reducers[name])
         IN  [tx |-> [ran.tx EXCEPT !.events = tx.events \o @],
              ok |-> ~Reducers[name].fails]

EventsFit(tx) == Len(tx.events) <= MaxEvents

-----------------------------------------------------------------------------
(* The plan of the systems (TickPlan::build).                              *)

\* SystemRegistry: always sorted by (priority, id).
Ordered ==
    SetToSortSeq(systems, LAMBDA a, b :
        a.priority < b.priority \/ (a.priority = b.priority /\ a.id < b.id))

NoGroup == [members |-> <<>>, reads |-> {}, writes |-> {}]

Flush(plan) ==
    [plan EXCEPT !.groups = IF plan.current = NoGroup THEN @
                            ELSE Append(@, plan.current.members),
                 !.current = NoGroup]

\* Mutant: only overlapping writes keep two systems apart.
ConflictsOnWrites(group, s) == s.writes \cap group.writes # {}

Conflicts(group, s) ==
    \/ s.writes \cap (group.reads \cup group.writes) # {}
    \/ s.reads \cap group.writes # {}

Join(group, i, s) ==
    [members |-> Append(group.members, i), reads |-> group.reads \cup s.reads,
     writes |-> group.writes \cup s.writes]

\* Greedy: a system joins the current group unless it conflicts with it; an
\* opaque one is always alone.
PlanStep(plan, i, s) ==
    IF s.opaque
    THEN [Flush(plan) EXCEPT !.groups = Append(@, <<i>>)]
    ELSE IF Conflicts(plan.current, s)
    THEN [Flush(plan) EXCEPT !.current = Join(NoGroup, i, s)]
    ELSE [plan EXCEPT !.current = Join(@, i, s)]

BuildPlan(order) ==
    Flush(FoldLeft(LAMBDA plan, i : PlanStep(plan, i, order[i]),
                   [groups |-> <<>>, current |-> NoGroup],
                   [i \in DOMAIN order |-> i])).groups

\* Serial execution: every system is a group of its own.
Groups(order) ==
    IF workers = 0 THEN [i \in DOMAIN order |-> <<i>>] ELSE BuildPlan(order)

-----------------------------------------------------------------------------
(* Setting up, and the schedule.  To bound the instances, systems are added *)
(* before the first tick and removed after it.                             *)

TInit ==
    /\ store = [c \in Cell |-> 0]
    /\ tick = 0
    /\ systems = {} /\ workers \in Workers
    /\ schedule = <<>> /\ nextEvent = 0
    /\ cur = None /\ last = None

AddSystem(d) ==
    /\ cur = None /\ tick = 0 /\ Cardinality(systems) < MaxSystems
    /\ \A s \in systems : s.id # d.id /\ s.name # d.name
    /\ systems' = systems \cup {d}
    /\ UNCHANGED <<store, tick, workers, schedule, nextEvent, cur, last>>

RemoveSystem(d) ==
    /\ cur = None /\ tick > 0 /\ d \in systems
    /\ systems' = systems \ {d}
    /\ UNCHANGED <<store, tick, workers, schedule, nextEvent, cur, last>>

EventOrder(a, b) == a.at < b.at \/ (a.at = b.at /\ a.id < b.id)

ScheduleEvent(at, name) ==
    /\ cur = None /\ nextEvent < MaxOps
    /\ Len(schedule) < MaxScheduled
    /\ schedule' = SetToSortSeq(ToSet(schedule) \cup
                      {[id |-> nextEvent, at |-> at, name |-> name]}, EventOrder)
    /\ nextEvent' = nextEvent + 1
    /\ UNCHANGED <<store, tick, systems, workers, cur, last>>

CancelEvent(id) ==
    /\ cur = None
    /\ \E i \in DOMAIN schedule :
          schedule[i].id = id /\ schedule' = RemoveAt(schedule, i)
    /\ UNCHANGED <<store, tick, systems, workers, nextEvent, cur, last>>

\* take_due: the prefix of the schedule up to this tick.
DueCount == Cardinality({i \in DOMAIN schedule : schedule[i].at <= tick})

-----------------------------------------------------------------------------
(* The tick: messages, due events and calls, on the tick's transaction.    *)

Before(m, n) ==
    \/ m.sent < n.sent
    \/ m.sent = n.sent /\ (m.from < n.from \/ (m.from = n.from /\ m.seq < n.seq))

\* The delivered batch in (sent_tick, from, seq) order.
Delivery(batch) == SetToSortSeq(ToSet(batch), Before)

Items(kind, seq) == [i \in DOMAIN seq |-> [kind |-> kind, name |-> seq[i].name]]

BeginTick(batch, calls) ==
    /\ cur = None /\ tick < MaxTick
    /\ LET due == SubSeq(schedule, 1, DueCount)
       IN  /\ cur' = [items   |-> Items("message", Delivery(batch)) \o Items("event", due)
                                   \o Items("call", calls),
                      groups  |-> Groups(Ordered),
                      slots   |-> <<>>,
                      tx      |-> NewTx,
                      results |-> <<>>,
                      hidden  |-> FALSE,
                      input   |-> [batch |-> batch, calls |-> calls, rows |-> store,
                                   schedule |-> schedule, tick |-> tick]]
           /\ schedule' = SubSeq(schedule, Len(due) + 1, Len(schedule))
    /\ tick' = tick + 1 /\ last' = None
    /\ UNCHANGED <<store, systems, workers, nextEvent>>

\* The tick ends.  A failed one keeps nothing; the rows are committed at once.
EndTick(ok, tx, hidden) ==
    /\ store' = IF ok THEN [c \in Cell |-> View(store, tx, c)] ELSE store
    /\ last' = [ok |-> ok, input |-> cur.input, systems |-> Ordered, hidden |-> hidden,
                rows |-> store', events |-> tx.events, sent |-> tx.sent,
                results |-> cur.results]
    /\ cur' = None

\* Transaction::rollback, to the snapshot before the call.
RolledBack(tx, ran) == tx

Homes == [message |-> {"native", "wasm"}, event |-> {"native"}, call |-> {"native", "wasm"}]

\* One reducer.  Only a call may fail without failing the tick; none may
\* exceed the event budget.
RunItem ==
    /\ cur # None /\ cur.items # <<>>
    /\ LET item == Head(cur.items)
           ran  == Invoke(store, cur.tx, item.name, Homes[item.kind])
           done == [cur EXCEPT !.items = Tail(@)]
       IN  \/ /\ ran.ok /\ EventsFit(ran.tx)
              /\ cur' = [done EXCEPT !.tx = ran.tx,
                            !.results = IF item.kind = "call" THEN Append(@, TRUE) ELSE @]
              /\ UNCHANGED <<store, last>>
           \/ /\ ~ran.ok /\ item.kind = "call"
              /\ cur' = [done EXCEPT !.tx = RolledBack(@, ran.tx),
                                     !.results = Append(@, FALSE)]
              /\ UNCHANGED <<store, last>>
           \/ /\ IF ran.ok THEN ~EventsFit(ran.tx) ELSE item.kind # "call"
              /\ EndTick(FALSE, ran.tx, cur.hidden)
    /\ UNCHANGED <<tick, systems, workers, schedule, nextEvent>>

-----------------------------------------------------------------------------
(* The systems, group after group.                                         *)

Group == Head(cur.groups)

Member(slot) == Ordered[Group[slot]]

InGroup == cur # None /\ cur.items = <<>> /\ cur.groups # <<>>

\* Alone in its group, a system runs on the tick's transaction.
RunSystem ==
    /\ InGroup /\ Len(Group) = 1
    /\ LET ran == Run(store, cur.tx, Member(1))
       IN  \/ /\ ran.ok
              /\ cur' = [cur EXCEPT !.tx = ran.tx, !.groups = Tail(@)]
              /\ UNCHANGED <<store, last>>
           \/ ~ran.ok /\ EndTick(FALSE, ran.tx, cur.hidden)
    /\ UNCHANGED <<tick, systems, workers, schedule, nextEvent>>

StartGroup ==
    /\ InGroup /\ Len(Group) > 1 /\ cur.slots = <<>>
    /\ cur' = [cur EXCEPT !.slots = [slot \in DOMAIN Group |-> None]]
    /\ UNCHANGED <<store, tick, systems, workers, schedule, nextEvent, last>>

\* A thread takes its slots in ascending order, thread_count apart.
ThreadCount == IF workers < Len(Group) THEN workers ELSE Len(Group)

RunSlot(slot) ==
    /\ InGroup /\ slot \in DOMAIN cur.slots /\ cur.slots[slot] = None
    /\ slot > ThreadCount => cur.slots[slot - ThreadCount] # None
    /\ cur' = [cur EXCEPT !.slots[slot] = Run(store, BranchOf(cur.tx), Member(slot))]
    /\ UNCHANGED <<store, tick, systems, workers, schedule, nextEvent, last>>

\* The checks of one child against the siblings merged before it.
Fresh(child) == {c \in child.own : cur.tx.writes[c] = None}

\* Mutant: only rows written twice are noticed.
OverlapOnWrites(child, written) == Fresh(child) \cap written # {}

Overlaps(child, written) ==
    \/ (Fresh(child) \cup child.reads) \cap written # {}
    \/ \E c \in written : c[1] \in child.scans

Sent(sent, child) == Numbered(sent \o child)

\* Transaction::absorb folds the child's own writes over the parent's.
Absorb(tx, child) ==
    [tx EXCEPT !.writes = [c \in Cell |-> IF c \in child.own THEN child.writes[c] ELSE @[c]],
               !.own    = @ \cup child.own,
               !.reads  = @ \cup child.reads,
               !.scans  = @ \cup child.scans,
               !.events = @ \o child.events,
               !.sent   = Sent(@, child.sent)]

MergeOne(acc, child) ==
    LET merged == Absorb(acc.tx, child)
    IN  IF ~acc.ok THEN acc
        ELSE [tx |-> merged, written |-> acc.written \cup Fresh(child),
              ok |-> /\ ~Overlaps(child, acc.written)
                     /\ EventsFit(merged) /\ Len(merged.sent) <= MaxMessages]

\* The rows a system touches outside its declaration.
Undeclared(s) == {c \in Seen(s) : c[1] \notin s.reads \cup s.writes}
                 \cup {c \in s.puts : c[1] \notin s.writes}

\* All joined: any failure fails the tick, otherwise merge in slot order.
MergeGroup ==
    /\ InGroup /\ cur.slots # <<>> /\ \A slot \in DOMAIN cur.slots : cur.slots[slot] # None
    /\ LET ran    == \A slot \in DOMAIN cur.slots : cur.slots[slot].ok
           merged == FoldLeft(LAMBDA acc, run : MergeOne(acc, run.tx),
                              [tx |-> cur.tx, written |-> {}, ok |-> ran], cur.slots)
           hidden == \/ cur.hidden
                     \/ \E slot \in DOMAIN cur.slots : \E c \in Undeclared(Member(slot)) :
                           cur.tx.writes[c] # None
       IN  \/ /\ merged.ok
              /\ cur' = [cur EXCEPT !.tx = merged.tx, !.groups = Tail(@),
                                    !.slots = <<>>, !.hidden = hidden]
              /\ UNCHANGED <<store, last>>
           \/ ~merged.ok /\ EndTick(FALSE, merged.tx, hidden)
    /\ UNCHANGED <<tick, systems, workers, schedule, nextEvent>>

Commit ==
    /\ cur # None /\ cur.items = <<>> /\ cur.groups = <<>>
    /\ EndTick(TRUE, cur.tx, cur.hidden)
    /\ UNCHANGED <<tick, systems, workers, schedule, nextEvent>>

TNext ==
    \/ \E d \in Systems : AddSystem(d) \/ RemoveSystem(d)
    \/ \E at \in {0, MaxTick - 1}, name \in DOMAIN Reducers : ScheduleEvent(at, name)
    \/ \E id \in 0 .. MaxOps : CancelEvent(id)
    \/ \E batch \in Batches, calls \in CallLists : BeginTick(batch, calls)
    \/ RunItem \/ RunSystem \/ StartGroup
    \/ \E slot \in 1 .. MaxSystems : RunSlot(slot)
    \/ MergeGroup \/ Commit

TSpec == TInit /\ [][TNext]_tvars

-----------------------------------------------------------------------------
(* The reference: the whole tick, one program after another.               *)

RefItem(acc, item) ==
    LET ran == Invoke(last.input.rows, acc.tx, item.name, Homes[item.kind])
    IN  IF item.kind = "call" /\ ~ran.ok
        THEN [acc EXCEPT !.results = Append(@, FALSE)]
        ELSE [ok |-> acc.ok /\ ran.ok /\ EventsFit(ran.tx), tx |-> ran.tx,
              results |-> IF item.kind = "call" THEN Append(acc.results, TRUE)
                          ELSE acc.results]

RefSystem(acc, s) ==
    LET ran == Run(last.input.rows, acc.tx, s)
    IN  [acc EXCEPT !.ok = @ /\ ran.ok, !.tx = ran.tx]

RefDue == SetToSortSeq({e \in ToSet(last.input.schedule) : e.at <= last.input.tick},
                       EventOrder)

Reference ==
    FoldLeft(RefSystem,
        FoldLeft(RefItem, [ok |-> TRUE, tx |-> NewTx, results |-> <<>>],
            Items("message", SetToSortSeq(ToSet(last.input.batch), Before))
            \o Items("event", RefDue) \o Items("call", last.input.calls)),
        last.systems)

-----------------------------------------------------------------------------
(* Properties.                                                             *)

TickTypeOK ==
    /\ store \in [Cell -> Nat] /\ tick \in 0 .. MaxTick
    /\ systems \subseteq Systems /\ Len(schedule) <= MaxScheduled
    /\ cur # None => /\ Len(cur.tx.events) <= MaxEvents
                     /\ Len(cur.tx.sent) <= MaxMessages
    /\ last # None => last.ok \in BOOLEAN

\* A tick that commits did exactly what the programs do one after another, in
\* the documented order: the same rows, events, numbered messages and call
\* results, whatever the number of threads and the interleaving of the slots
\* (world.rs tick_with_calls, parallel.rs execute_group).  Declarations may be
\* wrong: the merge checks catch every undeclared access except those to rows
\* that already had a pending write when their group began.
CommittedTickIsSerial ==
    last # None /\ last.ok /\ ~last.hidden =>
        /\ Reference.ok
        /\ last.rows = [c \in Cell |-> View(last.input.rows, Reference.tx, c)]
        /\ last.events = Reference.tx.events
        /\ last.sent = Reference.tx.sent
        /\ last.results = Reference.results

\* A tick fails only if the serial tick fails too, or some declaration was
\* wrong: parallel execution of honest systems adds no failure, and a failed
\* tick left the rows as they were.
FailedTickIsJustified ==
    last # None /\ ~last.ok =>
        /\ ~Reference.ok \/ \E i \in DOMAIN last.systems : Undeclared(last.systems[i]) # {}
        /\ last.rows = last.input.rows

\* The merge detects every undeclared dependency: "never silently wrong"
\* (parallel.rs execute_group).
NeverSilentlyWrong ==
    last # None /\ last.ok =>
        last.rows = [c \in Cell |-> View(last.input.rows, Reference.tx, c)]
=============================================================================
