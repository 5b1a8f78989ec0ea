------------------------------- MODULE Runtime -------------------------------
(***************************************************************************)
(* The runtime coordinator (crates/nexum-runtime/src/runtime.rs): workers  *)
(* that own worlds, the life cycle of a world, its queues of input frames  *)
(* and reducer calls, the message bus between worlds, and the step that    *)
(* ticks all running worlds, on several threads when there are several     *)
(* workers.                                                                *)
(*                                                                         *)
(* What a tick computes is module Tick; here it is its gates, whether it   *)
(* commits, and the message it sends.  Events and metrics are left out.    *)
(***************************************************************************)
EXTENDS Naturals, FiniteSets, SequencesExt

CONSTANTS
    WorkerCount, WorldCount,
    Policy,              \* TickFailurePolicy: "FailWorld" or "Continue"
    Persist,             \* is persistence enabled
    MaxQueuedInputs, MaxQueuedMessages, MaxQueuedCalls,   \* RuntimeConfig
    MaxCallsPerTick, MaxCommands, MaxMessagesPerTick,     \* PartitionConfig
    FrameSizes,          \* input: the number of commands of a submitted frame
    OversizedCalls,      \* input: the calls that exceed the name or argument limit
    OneAddressPerWorld,  \* input: does the host bind each world only once
    Boots,               \* how many worlds the host has created, registered
                         \* under their own ids and started in the beginning
    MaxTick,             \* bound: logical time of a world
    MaxCalls,            \* bound: reducer calls submitted
    MaxOps,              \* bound: control operations, frames and messages
    None

ASSUME RuntimeAssumption ==
    /\ {WorkerCount, MaxQueuedInputs, MaxQueuedMessages, MaxQueuedCalls,
        MaxCallsPerTick, MaxCommands, MaxMessagesPerTick} \subseteq Nat \ {0}
    /\ WorldCount \in Nat /\ Boots \subseteq 0 .. WorldCount
    /\ MaxTick \in Nat /\ MaxCalls \in Nat /\ MaxOps \in Nat
    /\ Policy \in {"FailWorld", "Continue"}
    /\ FrameSizes \subseteq 1 .. MaxCommands
    /\ OversizedCalls \subseteq 1 .. MaxCalls
    /\ {Persist, OneAddressPerWorld} \subseteq BOOLEAN

VARIABLES
    running,      \* RuntimeState: Running, or shut down
    workers,      \* worker -> its state and the worlds it owns
    worlds,       \* the slab of world entries
    routing,      \* partition registry: address -> world, worker, inbound queue
    sentSeq,      \* sequence numbers of injected messages, per address
    assignNext,   \* assign_counter, modulo the number of workers
    logged,       \* worlds with a log on disk
    step,         \* the step in progress: its order, batches and outcomes
    nextCall,     \* bound and identity of reducer calls
    ops,          \* bound: control operations so far
    hist          \* history, per world: calls accepted, answered, unanswered

rvars == <<running, workers, worlds, routing, sentSeq, assignNext, logged, step,
           nextCall, ops, hist>>

-----------------------------------------------------------------------------
(* Entries.                                                                *)

Worker == 0 .. WorkerCount - 1
World == 0 .. WorldCount - 1
Address == World

Frame == [tick : Nat, size : Nat]
Call == [id : Nat, oversized : BOOLEAN]
Message == [from : Address, to : Address, tick : Nat, seq : Nat]
Route == [world : World, worker : Worker, inbound : Seq(Message)]
Entry ==
    [part : Address, known : SUBSET Address, tick : Nat, worker : Worker,
     state : {"Created", "Running", "Stopped", "Failed"},
     inputs : Seq(Frame), calls : Seq(Call)]

ASSUME NoneAssumption == None \notin Entry /\ None \notin Route

NewEntry(w, worker, tick) ==
    [part |-> w, known |-> {}, tick |-> tick, state |-> "Created",
     worker |-> worker, inputs |-> <<>>, calls |-> <<>>]

EmptyHist == [accepted |-> <<>>, answered |-> <<>>, unanswered |-> <<>>]

NewRoute(w) == [world |-> w, worker |-> worlds[w].worker, inbound |-> <<>>]

Exists(w) == worlds[w] # None

BootedEntry(w, n) ==
    [NewEntry(w, w % WorkerCount, 0) EXCEPT
        !.state = "Running", !.known = (0 .. n - 1) \ {w}]

\* The host has booted n worlds, with three operations each.
Booted(n) ==
    /\ workers = [k \in Worker |->
          [state |-> "Running", worlds |-> {w \in 0 .. n - 1 : w % WorkerCount = k}]]
    /\ worlds = [w \in World |-> IF w < n THEN BootedEntry(w, n) ELSE None]
    /\ routing = [a \in Address |->
          IF a < n THEN [world |-> a, worker |-> a % WorkerCount, inbound |-> <<>>]
          ELSE None]
    /\ assignNext = n % WorkerCount
    /\ logged = (IF Persist THEN 0 .. n - 1 ELSE {})
    /\ ops = 3 * n

RInit ==
    /\ running = TRUE
    /\ \E n \in Boots : Booted(n)
    /\ sentSeq = [a \in Address |-> 0]
    /\ step = None
    /\ nextCall = 1
    /\ hist = [w \in World |-> EmptyHist]

\* An operation of the host: the runtime runs and no step is in progress, as
\* each borrows the runtime exclusively.
Operation == running /\ step = None

Control == Operation /\ ops < MaxOps /\ ops' = ops + 1

-----------------------------------------------------------------------------
(* Workers and the life cycle of a world.                                  *)

RunningWorkers == {k \in Worker : workers[k].state = "Running"}

Offset(k) == (k + WorkerCount - assignNext) % WorkerCount

\* The next running worker from the counter on.
AssignWorker ==
    CHOOSE k \in RunningWorkers : \A j \in RunningWorkers : Offset(k) <= Offset(j)

Adopt(w, tick) ==
    /\ workers' = [workers EXCEPT ![AssignWorker].worlds = @ \cup {w}]
    /\ worlds' = [worlds EXCEPT ![w] = NewEntry(w, AssignWorker, tick)]
    /\ hist' = [hist EXCEPT ![w] = EmptyHist]

CountAssignment == assignNext' = (assignNext + 1) % WorkerCount

CreatePartition(w) ==
    /\ Control
    /\ ~Exists(w) /\ RunningWorkers # {}
    /\ CountAssignment
    /\ \/ /\ ~(Persist /\ w \in logged)
          /\ Adopt(w, 0)
          /\ logged' = IF Persist THEN logged \cup {w} ELSE logged
       \/ /\ Persist /\ w \in logged    \* the log must be recovered instead
          /\ UNCHANGED <<workers, worlds, logged, hist>>
    /\ UNCHANGED <<running, routing, sentSeq, step, nextCall>>

\* The host says at which tick the world continues.
RecoverPartition(w, resume) ==
    /\ Control
    /\ ~Exists(w) /\ Persist /\ w \in logged /\ RunningWorkers # {}
    /\ Adopt(w, resume)
    /\ CountAssignment
    /\ UNCHANGED <<running, routing, sentSeq, logged, step, nextCall>>

StartPartition(w) ==
    /\ Control
    /\ Exists(w) /\ worlds[w].state \in {"Created", "Stopped"}
    /\ worlds' = [worlds EXCEPT ![w].state = "Running"]
    /\ UNCHANGED <<running, workers, routing, sentSeq, assignNext, logged, step,
                   nextCall, hist>>

StopPartition(w) ==
    /\ Control
    /\ Exists(w) /\ worlds[w].state \in {"Created", "Running"}
    /\ worlds' = [worlds EXCEPT ![w].state = "Stopped"]
    /\ UNCHANGED <<running, workers, routing, sentSeq, assignNext, logged, step,
                   nextCall, hist>>

\* Mutant: only worlds that were running are marked failed.
FailRunningWorlds(set) ==
    [w \in World |->
        IF w \in set /\ worlds[w].state = "Running"
        THEN [worlds[w] EXCEPT !.state = "Failed"] ELSE worlds[w]]

FailedWorlds(set) ==
    [w \in World |-> IF w \in set THEN [worlds[w] EXCEPT !.state = "Failed"]
                                  ELSE worlds[w]]

FailWorker(k) ==
    /\ Control
    /\ workers[k].state # "Failed"
    /\ workers' = [workers EXCEPT ![k].state = "Failed"]
    /\ worlds' = FailedWorlds(workers[k].worlds)
    /\ UNCHANGED <<running, routing, sentSeq, assignNext, logged, step, nextCall,
                   hist>>

\* The address a world is found under: the first one bound to it.
Bound(w) == {a \in Address : routing[a] # None /\ routing[a].world = w}
AddressOf(w) == CHOOSE a \in Bound(w) : \A b \in Bound(w) : a <= b

RouteMoved(w, k) ==
    IF Bound(w) = {} THEN routing
    ELSE [routing EXCEPT ![AddressOf(w)].worker = k]

ReassignPartition(w, k) ==
    /\ Control
    /\ workers[k].state = "Running" /\ Exists(w) /\ worlds[w].worker # k
    /\ workers' = [j \in Worker |->
          [workers[j] EXCEPT !.worlds =
              IF j = k THEN @ \cup {w} ELSE @ \ {w}]]
    /\ worlds' = [worlds EXCEPT ![w].worker = k]
    /\ routing' = RouteMoved(w, k)
    /\ UNCHANGED <<running, sentSeq, assignNext, logged, step, nextCall, hist>>

-----------------------------------------------------------------------------
(* The message bus.                                                        *)

Topology(routes) == {a \in Address : routes[a] # None}

\* Mutant: the other worlds are not told.
NotPropagated(entries, routes) == entries

\* propagate_topology: every world learns the registered addresses but its own.
Propagated(entries, routes) ==
    [w \in World |->
        IF entries[w] = None THEN None
        ELSE [entries[w] EXCEPT !.known = Topology(routes) \ {entries[w].part}]]

RegisterPartition(a, w) ==
    /\ Control
    /\ routing[a] = None /\ Exists(w)
    /\ OneAddressPerWorld => Bound(w) = {}
    /\ routing' = [routing EXCEPT ![a] = NewRoute(w)]
    /\ worlds' = Propagated([worlds EXCEPT ![w].part = a], routing')
    /\ UNCHANGED <<running, workers, sentSeq, assignNext, logged, step, nextCall,
                   hist>>

\* Queued messages go with the entry.
Unregistered(a) == [routing EXCEPT ![a] = None]

UnregisterPartition(a) ==
    /\ Control
    /\ routing[a] # None
    /\ routing' = Unregistered(a)
    /\ sentSeq' = [sentSeq EXCEPT ![a] = 0]
    /\ worlds' = Propagated(worlds, routing')
    /\ UNCHANGED <<running, workers, assignNext, logged, step, nextCall, hist>>

RoutesWithout(w) == IF Bound(w) = {} THEN routing ELSE Unregistered(AddressOf(w))

DestroyPartition(w) ==
    /\ Control
    /\ Exists(w)
    /\ routing' = RoutesWithout(w)
    /\ sentSeq' = [a \in Address |-> IF routing'[a] = None THEN 0 ELSE sentSeq[a]]
    /\ worlds' = [(IF routing' = routing THEN worlds ELSE Propagated(worlds, routing'))
                     EXCEPT ![w] = None]
    /\ workers' = [workers EXCEPT ![worlds[w].worker].worlds = @ \ {w}]
    /\ hist' = [hist EXCEPT ![w] = EmptyHist]
    /\ UNCHANGED <<running, assignNext, logged, step, nextCall>>

\* enqueue_message: an unknown destination or a full queue drops the message.
Enqueue(routes, m) ==
    IF routes[m.to] = None \/ Len(routes[m.to].inbound) >= MaxQueuedMessages
    THEN routes
    ELSE [routes EXCEPT ![m.to].inbound = Append(@, m)]

\* enqueue_outbound: the messages of one tick, in order.
Outbound(routes, ms) ==
    LET after[i \in 0 .. Len(ms)] ==
            IF i = 0 THEN routes ELSE Enqueue(after[i - 1], ms[i])
    IN  after[Len(ms)]

SendMessage(from, to) ==
    /\ Control
    /\ from # to /\ routing[from] # None /\ routing[to] # None
    /\ routing' = Enqueue(routing,
          [from |-> from, to |-> to, tick |-> worlds[routing[from].world].tick,
           seq |-> sentSeq[from]])
    /\ sentSeq' = [sentSeq EXCEPT ![from] = @ + 1]
    /\ UNCHANGED <<running, workers, worlds, assignNext, logged, step, nextCall,
                   hist>>

-----------------------------------------------------------------------------
(* Inputs and reducer calls.                                               *)

SubmitReducerCall(w) ==
    /\ Operation /\ nextCall <= MaxCalls
    /\ Exists(w) /\ worlds[w].state = "Running"
    /\ Len(worlds[w].calls) < MaxQueuedCalls
    /\ worlds' = [worlds EXCEPT ![w].calls =
          Append(@, [id |-> nextCall, oversized |-> nextCall \in OversizedCalls])]
    /\ hist' = [hist EXCEPT ![w].accepted = Append(@, nextCall)]
    /\ nextCall' = nextCall + 1
    /\ UNCHANGED <<running, workers, routing, sentSeq, assignNext, logged, step, ops>>

SubmitInput(w, tick, size) ==
    /\ Control
    /\ Exists(w) /\ worlds[w].state = "Running"
    /\ tick >= worlds[w].tick
    /\ Len(worlds[w].inputs) < MaxQueuedInputs
    /\ worlds' = [worlds EXCEPT ![w].inputs =
          Append(@, [tick |-> tick, size |-> size])]
    /\ UNCHANGED <<running, workers, routing, sentSeq, assignNext, logged, step,
                   nextCall, hist>>

-----------------------------------------------------------------------------
(* The tick of one world.                                                  *)

\* How many frames at the head of the queue the tick takes: the first, and
\* when it is for this tick the ones for this tick that follow.
Taken(e) ==
    IF e.inputs = <<>> THEN 0
    ELSE CHOOSE n \in 1 .. Len(e.inputs) :
            /\ n > 1 => \A i \in 1 .. n : e.inputs[i].tick = e.tick
            /\ \/ n = Len(e.inputs)
               \/ e.inputs[1].tick # e.tick
               \/ e.inputs[n + 1].tick # e.tick

MergedFrame(e) ==
    LET frames == SubSeq(e.inputs, 1, Taken(e))
    IN  [tick |-> IF frames = <<>> THEN e.tick ELSE frames[1].tick,
         size |-> FoldLeft(LAMBDA n, f : n + f.size, 0, frames)]

\* The gates of tick_with_calls: a frame, a batch of messages or a call that
\* does not pass fails the tick before its number advances.
Gate(e, batch, taken) ==
    /\ MergedFrame(e).tick = e.tick /\ MergedFrame(e).size <= MaxCommands
    /\ Len(batch) <= MaxMessagesPerTick
    /\ \A i \in DOMAIN batch : batch[i].to = e.part
    /\ \A i \in DOMAIN taken : ~taken[i].oversized

Sends(e) ==
    {<<>>} \cup {<<[from |-> e.part, to |-> a, tick |-> e.tick, seq |-> 0]>> :
                   a \in e.known}

CallIds(calls) == [i \in DOMAIN calls |-> calls[i].id]

\* Mutant: the calls of a failed tick are put back behind the others.
RequeuedAtBack(left, taken) == left \o taken

\* The calls of a failed tick go back to the front, in order.
Requeued(left, taken) == taken \o left

\* tick_entry_collected: the ways in which the tick of entry e can end.
TickOutcomes(e, batch) ==
    LET n      == IF Len(e.calls) < MaxCallsPerTick THEN Len(e.calls)
                  ELSE MaxCallsPerTick
        taken  == SubSeq(e.calls, 1, n)
        left   == SubSeq(e.calls, n + 1, Len(e.calls))
        popped == [e EXCEPT !.inputs = SubSeq(@, Taken(e) + 1, Len(@))]
        passes == Gate(e, batch, taken)
        done   == [popped EXCEPT !.calls = left, !.tick = @ + 1]
        failed == [popped EXCEPT
                      !.calls = Requeued(left, taken),
                      !.tick  = IF passes THEN @ + 1 ELSE @,
                      !.state = IF Policy = "FailWorld" THEN "Failed" ELSE @]
        unlogged == [done EXCEPT !.state = "Failed"]
    IN  {[entry |-> failed, calls |-> <<>>, ok |-> FALSE, sent |-> <<>>]}
        \cup {[entry |-> done, calls |-> CallIds(taken), ok |-> TRUE, sent |-> s] :
                s \in IF passes THEN Sends(e) ELSE {}}
        \cup {[entry |-> unlogged, calls |-> CallIds(taken), ok |-> FALSE,
               sent |-> <<>>] : x \in IF passes /\ Persist THEN {1} ELSE {}}

Recorded(h, o) ==
    IF o.ok THEN [h EXCEPT !.answered = @ \o o.calls]
    ELSE [h EXCEPT !.unanswered = @ \o o.calls]

\* take_deliverable: what was sent before the world's next tick.
Deliverable(w) ==
    IF Bound(w) = {} THEN <<>>
    ELSE SelectSeq(routing[AddressOf(w)].inbound,
                   LAMBDA m : m.tick < worlds[w].tick)

\* What remains in the queue, in order.
Remaining(queue, tick) ==
    LET kept[i \in 0 .. Len(queue)] ==
            IF i = 0 THEN <<>>
            ELSE IF queue[i].tick < tick THEN kept[i - 1]
            ELSE Append(kept[i - 1], queue[i])
    IN  kept[Len(queue)]

Undelivered(set) ==
    [a \in Address |->
        IF routing[a] # None /\ routing[a].world \in set /\ AddressOf(routing[a].world) = a
        THEN [routing[a] EXCEPT !.inbound = Remaining(@, worlds[routing[a].world].tick)]
        ELSE routing[a]]

RunningWorlds == {w \in World : Exists(w) /\ worlds[w].state = "Running"}

TickOnce(w) ==
    /\ Control
    /\ w \in RunningWorlds /\ worlds[w].tick < MaxTick
    /\ \E o \in TickOutcomes(worlds[w], Deliverable(w)) :
          /\ worlds' = [worlds EXCEPT ![w] = o.entry]
          /\ hist' = [hist EXCEPT ![w] = Recorded(@, o)]
          /\ routing' = Outbound(Undelivered({w}), o.sent)
    /\ UNCHANGED <<running, workers, sentSeq, assignNext, logged, step, nextCall>>

-----------------------------------------------------------------------------
(* The step: deliver to all, tick all on the threads, apply in order.      *)

Owned == {p \in Worker \X World : p[2] \in workers[p[1]].worlds}

Before(p, q) == p[1] < q[1] \/ (p[1] = q[1] /\ p[2] < q[2])

\* Workers ascending, then each worker's worlds ascending.
StepOrder ==
    [i \in 1 .. Cardinality(Owned) |->
        (CHOOSE p \in Owned : Cardinality({q \in Owned : Before(q, p)}) = i - 1)[2]]

StepBegin ==
    /\ Operation
    /\ RunningWorlds # {}
    /\ \A w \in RunningWorlds : worlds[w].tick < MaxTick
    /\ step' = [order |-> StepOrder, due |-> RunningWorlds, finished |-> <<>>,
                delivered |-> [w \in RunningWorlds |-> Deliverable(w)],
                sent |-> [w \in RunningWorlds |-> <<>>]]
    /\ routing' = Undelivered(RunningWorlds)
    /\ UNCHANGED <<running, workers, worlds, sentSeq, assignNext, logged, nextCall,
                   ops, hist>>

Threads(n) ==
    IF Cardinality(step.due) <= 1 \/ WorkerCount <= 1 THEN 1
    ELSE IF WorkerCount < n THEN WorkerCount ELSE n

\* Where thread t's contiguous chunk of n worlds ends.
ChunkEnd(t, n) ==
    LET rem == n % Threads(n)
    IN  t * (n \div Threads(n)) + (IF t < rem THEN t ELSE rem)

SameChunk(i, j, n) ==
    ~ \E t \in 1 .. Threads(n) : i <= ChunkEnd(t, n) /\ ChunkEnd(t, n) < j

Finished(w) == Contains(step.finished, w)

\* One thread ticks the next running world of its chunk.
TickWorld(w) ==
    /\ running /\ step # None
    /\ w \in step.due /\ ~Finished(w)
    /\ LET n == Len(step.order)
           j == CHOOSE i \in 1 .. n : step.order[i] = w
       IN  \A i \in 1 .. j - 1 :
              SameChunk(i, j, n) /\ step.order[i] \in step.due
                  => Finished(step.order[i])
    /\ \E o \in TickOutcomes(worlds[w], step.delivered[w]) :
          /\ worlds' = [worlds EXCEPT ![w] = o.entry]
          /\ hist' = [hist EXCEPT ![w] = Recorded(@, o)]
          /\ step' = [step EXCEPT !.finished = Append(@, w), !.sent[w] = o.sent]
    /\ UNCHANGED <<running, workers, routing, sentSeq, assignNext, logged, nextCall,
                   ops>>

\* Mutant: outcomes are applied in the order in which the threads finished.
AsFinished == step.finished

\* Outcomes are applied in world order.
MergeOrder == step.order

Applied ==
    LET after[i \in 0 .. Len(MergeOrder)] ==
            IF i = 0 THEN routing
            ELSE IF MergeOrder[i] \in step.due
            THEN Outbound(after[i - 1], step.sent[MergeOrder[i]])
            ELSE after[i - 1]
    IN  after[Len(MergeOrder)]

StepEnd ==
    /\ step # None /\ \A w \in step.due : Finished(w)
    /\ routing' = Applied
    /\ step' = None
    /\ UNCHANGED <<running, workers, worlds, sentSeq, assignNext, logged, nextCall,
                   ops, hist>>

Shutdown ==
    /\ Operation
    /\ running' = FALSE
    /\ worlds' = [w \in World |->
          IF w \in RunningWorlds THEN [worlds[w] EXCEPT !.state = "Stopped"]
                                 ELSE worlds[w]]
    /\ workers' = [k \in Worker |-> [workers[k] EXCEPT !.state = "Stopped"]]
    /\ UNCHANGED <<routing, sentSeq, assignNext, logged, step, nextCall, ops, hist>>

RNext ==
    \/ \E w \in World :
          \/ CreatePartition(w) \/ StartPartition(w) \/ StopPartition(w)
          \/ DestroyPartition(w) \/ SubmitReducerCall(w) \/ TickOnce(w) \/ TickWorld(w)
          \/ \E t \in 0 .. MaxTick : RecoverPartition(w, t)
          \/ \E k \in Worker : ReassignPartition(w, k)
          \/ \E a \in Address : RegisterPartition(a, w)
          \/ \E t \in 0 .. MaxTick, n \in FrameSizes : SubmitInput(w, t, n)
    \/ \E k \in Worker : FailWorker(k)
    \/ \E a, b \in Address : SendMessage(a, b)
    \/ \E a \in Address : UnregisterPartition(a)
    \/ StepBegin \/ StepEnd \/ Shutdown

RSpec == RInit /\ [][RNext]_rvars

-----------------------------------------------------------------------------
(* Properties.                                                             *)

\* Every queue of the runtime stays within its configured bound, also when a
\* failed tick puts its calls back (submit_*, enqueue_message), and entries
\* keep their types.
RuntimeTypeOK ==
    /\ workers \in [Worker -> [state : {"Running", "Failed", "Stopped"},
                               worlds : SUBSET World]]
    /\ \A w \in World : Exists(w) =>
          /\ worlds[w] \in Entry
          /\ Len(worlds[w].inputs) <= MaxQueuedInputs
          /\ Len(worlds[w].calls) <= MaxQueuedCalls
    /\ \A a \in Address : routing[a] # None =>
          /\ routing[a].inbound \in Seq(Message)
          /\ Len(routing[a].inbound) <= MaxQueuedMessages

\* submit_reducer_call and tick_entry_collected: "no accepted call is silently
\* lost".  The calls a world accepted are, in order, those it has answered,
\* those executed but not answered because the log failed, which leaves the
\* world failed, and those still queued; through failed ticks and their
\* requeueing none is dropped, repeated or overtaken.
CallsAreConserved ==
    \A w \in World : Exists(w) =>
        /\ hist[w].accepted = hist[w].answered \o hist[w].unanswered
                                 \o CallIds(worlds[w].calls)
        /\ hist[w].unanswered # <<>> => worlds[w].state = "Failed"

\* The expect()s of fail_worker, reassign_partition, destroy_partition and
\* send_message: workers, entries and the registry agree on who owns what,
\* and no world runs under a failed worker.
OwnershipAgrees ==
    /\ \A k \in Worker, w \in World :
          w \in workers[k].worlds <=> Exists(w) /\ worlds[w].worker = k
    /\ \A a \in Address : routing[a] # None =>
          Exists(routing[a].world) /\ routing[a].worker = worlds[routing[a].world].worker
    /\ \A w \in World : Exists(w) /\ worlds[w].state # "Failed" =>
          workers[worlds[w].worker].state # "Failed"

\* register_partition: a registered world knows exactly the other registered
\* addresses, so whatever its systems send finds its destination.
RoutingIsCurrent ==
    \A a \in Address : routing[a] # None =>
        /\ worlds[routing[a].world].part = a
        /\ worlds[routing[a].world].known = Topology(routing) \ {a}

\* ADR-018: parallel execution is observationally identical to serial.  What was
\* queued for a world stays in front, and what a step adds behind it is in the
\* order of the sending worlds, whatever the order in which the threads finished.
AppliedInWorldOrder ==
    [][StepEnd =>
        \A a \in Address : routing[a] # None =>
            LET old == routing[a].inbound
                new == routing'[a].inbound
                added == Len(old) + 1 .. Len(new)
            IN  /\ Len(old) <= Len(new) /\ \A i \in 1 .. Len(old) : new[i] = old[i]
                /\ \E sender \in [added -> DOMAIN step.order] :
                      /\ \A i, j \in added : i < j => sender[i] <= sender[j]
                      /\ \A i \in added :
                            LET w == step.order[sender[i]]
                            IN  w \in step.due /\ new[i] \in ToSet(step.sent[w])]_rvars
=============================================================================
