-------------------------------- MODULE Host --------------------------------
(***************************************************************************)
(* Reducer execution: the native registry (crates/nexum-reducer), the WASM *)
(* host with its ABI, budgets and per-thread instance pool                 *)
(* (crates/nexum-wasm), and the tick that runs a batch of client calls in  *)
(* one transaction (crates/nexum-execution, world.rs phase 0c).            *)
(*                                                                         *)
(* One worker thread serves every world, so its pool slot is shared by     *)
(* worlds whose registries differ.  A reducer is unconstrained code: it    *)
(* calls any operation, in any order, and ends in any way; only what the   *)
(* host checks restrains it.                                               *)
(*                                                                         *)
(* A table is a function from row ids to values, 0 where there is no row,  *)
(* and its value is its unique key.  A world is also the address of its    *)
(* registry's engine.                                                      *)
(***************************************************************************)
EXTENDS Naturals, Sequences, SequencesExt, FiniteSets, TLC

CONSTANTS
    World,         \* the worlds the thread serves
    Name,          \* reducer names
    Native,        \* the names the native registry holds
    Policy,        \* TickFailurePolicy: "FailWorld" or "Continue"
    NRows,         \* bound: row ids of the table
    MaxHostCalls,  \* limits.max_host_calls
    MaxFuel,       \* limits.max_fuel, in guest steps
    MaxPages,      \* limits.max_memory_bytes, in pages
    MaxScan,       \* limits.max_scan_bytes, in rows
    MaxEvents,     \* max_events_per_tick
    PerTick,       \* max_reducer_calls_per_tick
    NativeOps,     \* bound: operations of a native reducer
    MaxCalls       \* bound: calls submitted

Row == 1..NRows
Val == 1..2
Call == 1..MaxCalls
None == "none"

ASSUME HostAssumption ==
    /\ Native \subseteq Name /\ Policy \in {"FailWorld", "Continue"}
    /\ {MaxHostCalls, MaxFuel, MaxPages, MaxScan, PerTick} \subseteq Nat \ {0}
    /\ None \notin World /\ "slot" \notin World   \* the slot's clone has an address of its own

VARIABLES
    modules,   \* per world, the registered WASM names and whether each is poolable
    slot,      \* POOL: the thread's stashed invocation
    db,        \* per world, the committed table
    queue,     \* per world, the accepted calls
    failed,    \* the worlds failed by a tick
    tick,      \* the tick in progress
    run,       \* the reducer in progress
    answers,   \* per call answered, whether it succeeded
    issued,    \* how many calls were submitted
    own, good  \* history: the tick as its successful calls made it, with the running call and without

hostVars == <<modules, slot, db, queue, failed, tick, run, answers, issued, own, good>>

Keep == 3   \* a row that is not written
NoWrites == [rows |-> [r \in Row |-> Keep], inserts |-> <<>>]
Nothing == [calls |-> {}, writes |-> NoWrites, events |-> <<>>, ops |-> 0, bad |-> FALSE]
NoTick == [world |-> None]
NoRun == [kind |-> None, call |-> 0]
NoSlot == [of |-> None]

HostInit ==
    /\ modules = [w \in World |-> <<>>]
    /\ slot = NoSlot
    /\ db = [w \in World |-> [r \in Row |-> IF r = 1 THEN 1 ELSE 0]]
    /\ queue = [w \in World |-> <<>>]
    /\ failed = {}
    /\ tick = NoTick /\ run = NoRun
    /\ answers = <<>> /\ issued = 0
    /\ own = Nothing /\ good = Nothing
-----------------------------------------------------------------------------
(* The transaction as a reducer sees it (see Transaction for the engine):   *)
(* buffered writes over the committed table, 0 for a delete.  An inserted   *)
(* row is not written again before the commit gives it a free id.           *)

View(t, ws) == [r \in Row |-> IF ws.rows[r] = Keep THEN t[r] ELSE ws.rows[r]]

(* That the written rows exist, and that keys are unique, is left to commit. *)
Buffered(ws, op) ==
    CASE op.kind = "insert" -> [ws EXCEPT !.inserts = Append(@, op.val)]
      [] op.kind = "update" -> [ws EXCEPT !.rows[op.row] = op.val]
      [] op.kind = "delete" -> [ws EXCEPT !.rows[op.row] = 0]
      [] OTHER -> ws

Free(t) == {r \in Row : t[r] = 0}
Written(ws) == {r \in Row : ws.rows[r] # Keep}
InsertedAt(t, ws) == [i \in DOMAIN ws.inserts |-> SetToSortSeq(Free(t), <)[i]]
Committed(t, ws) ==
    LET at == InsertedAt(t, ws)
    IN  [r \in Row |-> IF \E i \in DOMAIN at : at[i] = r
                       THEN ws.inserts[CHOOSE i \in DOMAIN at : at[i] = r]
                       ELSE View(t, ws)[r]]
CommitValid(t, ws) ==
    LET new == Committed(t, ws)
    IN  /\ \A r \in Written(ws) : t[r] # 0
        /\ \A r, s \in Row : r # s /\ new[r] # 0 => new[r] # new[s]
-----------------------------------------------------------------------------
(* The host state of an instance, and the pool. *)

NewHost(ctx) == [ctx |-> ctx, calls |-> MaxHostCalls, error |-> None]
ResetForCall(h, ctx) == [h EXCEPT !.ctx = ctx, !.calls = MaxHostCalls, !.error = None]
ReleaseCtx(h) == [h EXCEPT !.ctx = None]
Image == [by |-> 0, pages |-> 1]   \* linear memory as instantiated

(* `matches` compares the address of the slot's own clone of the engine     *)
(* with the address of the registry's engine.                               *)
Matches(p, w, n) == p.engine = w /\ p.of = w /\ p.module = n

Instance(w, n) == [of |-> w, engine |-> "slot", module |-> n, host |-> NewHost(None), mem |-> Image]
Taken(w, n) == IF slot.of # None /\ Matches(slot, w, n) THEN slot ELSE Instance(w, n)
Stashed(i) == [i EXCEPT !.host = ReleaseCtx(@)]

(* The first ABI error stays. *)
Sticky(h, error) == IF h.error = None THEN [h EXCEPT !.error = error] ELSE h
-----------------------------------------------------------------------------
(* Module registration.  A bytecode is what validation can tell of it: its  *)
(* start function runs on a host state without a context, so it passes only *)
(* when it calls no operation (startOps).                                   *)

Bytecode == [small : BOOLEAN, imports : BOOLEAN, exports : BOOLEAN,
             startOps : BOOLEAN, buffers : BOOLEAN]
StartError(b) == IF b.startOps THEN Sticky(NewHost(None), "internal").error ELSE None
Valid(b) == b.small /\ b.imports /\ b.exports /\ StartError(b) = None /\ b.buffers

Register(w, n, b) ==
    /\ issued = 0 /\ n \notin DOMAIN modules[w]   \* bound: registries are built before they are used
    /\ Valid(b)
    /\ modules' = [modules EXCEPT ![w] = @ @@ (n :> FALSE)]
    /\ UNCHANGED <<slot, db, queue, failed, tick, run, answers, issued, own, good>>

SetPoolable(w, n, yes) ==
    /\ issued = 0 /\ n \in DOMAIN modules[w]
    /\ modules' = [modules EXCEPT ![w][n] = yes]
    /\ UNCHANGED <<slot, db, queue, failed, tick, run, answers, issued, own, good>>
-----------------------------------------------------------------------------
(* One crossing of the ABI.  `fault` is what is wrong with it: arguments   *)
(* longer than the limit, a pointer outside guest memory, an unknown        *)
(* opcode, arguments that do not decode, an unknown table or a row that     *)
(* does not fit the schema, a result buffer that is too small.              *)

Plain(kind, r, v) == [kind |-> kind, row |-> r, val |-> v, fault |-> "no"]
Reads == {Plain(k, 1, 1) : k \in {"get", "scan", "lookup"}}
Writes == {Plain("insert", 1, v) : v \in Val} \cup {Plain("delete", r, 1) : r \in Row}
          \cup {Plain("update", r, 2) : r \in Row}
Emits == {Plain("emit", 1, v) : v \in Val}   \* the value is the payload's size
NativeOp == Reads \cup Writes \cup Emits
            \cup {[Plain("insert", 1, 2) EXCEPT !.fault = "unknown"]}
GuestOp == NativeOp \cup {[Plain("insert", 1, 2) EXCEPT !.fault = f] :
                f \in {"long", "wild in", "wild out", "opcode", "malformed", "small"}}

(* What the context refuses: nothing bounds what a native reducer reads or emits. *)
OpError(op) ==
    IF op.fault = "unknown" THEN "not found"
    ELSE IF op.kind \in {"update", "delete"} /\ tick.writes.rows[op.row] = 0 THEN "invalid"
    ELSE None

(* Results and events over the limits of the ABI. *)
Oversized(op) ==
    LET rows == View(db[tick.world], tick.writes)
    IN  \/ op.kind = "scan" /\ Cardinality({r \in Row : rows[r] # 0}) > MaxScan
        \/ op.kind = "emit" /\ op.val > 1

(* What handle_op answers with an error, budget first. *)
AbiError(h, op) ==
    IF op.fault = "long" THEN "invalid"
    ELSE IF h.calls = 0 THEN "capacity"
    ELSE IF h.ctx = None THEN "internal"
    ELSE IF op.fault \in {"opcode", "malformed"} THEN "invalid"
    ELSE IF Oversized(op) THEN "capacity"
    ELSE OpError(op)

Spent(h) == [h EXCEPT !.calls = IF @ = 0 THEN 0 ELSE @ - 1]

HandleOp(h, op) ==
    IF AbiError(h, op) = None THEN Spent(h) ELSE Sticky(Spent(h), AbiError(h, op))
-----------------------------------------------------------------------------
(* Reducers *)

Emitted(events, op) == IF op.kind = "emit" THEN Append(events, run.call) ELSE events
Doing(op) ==
    /\ tick' = [tick EXCEPT !.writes = Buffered(@, op)]
    /\ own' = [own EXCEPT !.writes = Buffered(@, op), !.events = Emitted(@, op),
                           !.ops = @ + 1]

Running(kind) == run.kind = kind /\ run.exit = None
Fits(op) == op.kind = "insert" =>
                Len(tick.writes.inserts) < Cardinality(Free(db[tick.world]))   \* bound

(* A native reducer calls the context directly: an operation that fails    *)
(* does nothing, and what becomes of its error is the reducer's business.   *)
NativeCalls(op) ==
    /\ Running("native") /\ run.fuel > 0 /\ Fits(op)
    /\ IF OpError(op) = None
       THEN Doing(op) /\ run' = [run EXCEPT !.fuel = @ - 1, !.events = Emitted(@, op)]
       ELSE run' = [run EXCEPT !.fuel = @ - 1] /\ UNCHANGED <<tick, own>>
    /\ UNCHANGED <<modules, slot, db, queue, failed, answers, issued, good>>

(* A guest's operation.  A pointer outside its memory traps, before the     *)
(* operation or after it; a result that does not fit the guest's buffer is  *)
(* dropped after the operation ran.                                         *)
GuestCalls(op) ==
    LET h == run.inst.host
        refused == AbiError(h, op) # None
    IN  /\ Running("wasm") /\ run.fuel > 0 /\ Fits(op)
        /\ IF op.fault = "wild in"
           THEN /\ run' = [run EXCEPT !.fuel = @ - 1, !.exit = "trap"]
                /\ UNCHANGED <<tick, own>>
           ELSE /\ run' = [run EXCEPT !.fuel = @ - 1,
                               !.inst.host = HandleOp(h, op),
                               !.events = IF refused THEN @ ELSE Emitted(@, op),
                               !.exit = IF op.fault = "wild out" THEN "trap" ELSE @]
                /\ IF refused
                   THEN tick' = tick /\ own' = [own EXCEPT !.bad = TRUE]
                   ELSE Doing(op)
        /\ UNCHANGED <<modules, slot, db, queue, failed, answers, issued, good>>

(* The guest writes its memory and asks for another page of it. *)
GuestComputes ==
    /\ Running("wasm") /\ run.fuel > 0
    /\ run' = [run EXCEPT !.fuel = @ - 1,
                   !.inst.mem = [by |-> run.call,
                                 pages |-> IF @.pages < MaxPages THEN @.pages + 1 ELSE @.pages]]
    /\ UNCHANGED <<modules, slot, db, queue, failed, tick, answers, issued, own, good>>

(* Mutant: no fuel is consumed, or running out of it stops nothing. *)
ExitsWithoutFuel ==
    IF run.kind = None THEN {}
    ELSE IF run.exit # None THEN {run.exit}
    ELSE IF run.kind = "native" THEN {"value", "error", "panic"}
    ELSE IF run.fuel = 0 THEN {} ELSE {"value", "reject", "trap"}

(* Native reducers return a value or an error, or panic; a guest traps,     *)
(* runs out of fuel, rejects, or returns a value, one too long or one that  *)
(* does not decode.                                                         *)
Exits ==
    IF run.kind = None THEN {}
    ELSE IF run.exit # None THEN {run.exit}
    ELSE IF run.kind = "native" THEN {"value", "error", "panic"}
    ELSE IF run.fuel = 0 THEN {"fuel"}
    ELSE {"value", "reject", "oversized", "malformed", "trap"}
-----------------------------------------------------------------------------
(* Calls.  A tick takes a batch from the queue; a standalone invocation is  *)
(* a batch of one, with a transaction and no event limit of its own.        *)

NewTick(w, batch, alone) ==
    [world |-> w, batch |-> batch, alone |-> alone, writes |-> NoWrites,
     events |-> <<>>, results |-> <<>>]

(* Submitting takes the runtime exclusively: never during a tick. *)
Submit(w, n) ==
    /\ tick = NoTick /\ issued < MaxCalls /\ w \notin failed
    /\ issued' = issued + 1
    /\ queue' = [queue EXCEPT ![w] = Append(@, [id |-> issued', name |-> n])]
    /\ UNCHANGED <<modules, slot, db, failed, tick, run, answers, own, good>>

BeginTick(w) ==
    /\ tick = NoTick /\ w \notin failed /\ queue[w] # <<>>
    /\ LET n == IF Len(queue[w]) < PerTick THEN Len(queue[w]) ELSE PerTick
       IN  /\ tick' = NewTick(w, SubSeq(queue[w], 1, n), FALSE)
           /\ queue' = [queue EXCEPT ![w] = SubSeq(@, n + 1, Len(@))]
    /\ UNCHANGED <<modules, slot, db, failed, run, answers, issued, own, good>>

Invoke(w, n) ==
    /\ tick = NoTick /\ issued < MaxCalls
    /\ issued' = issued + 1
    /\ tick' = NewTick(w, <<[id |-> issued', name |-> n]>>, TRUE)
    /\ UNCHANGED <<modules, slot, db, queue, failed, run, answers, own, good>>

Left == tick # NoTick /\ Len(tick.results) < Len(tick.batch)
Next1 == tick.batch[Len(tick.results) + 1]
Result(ok) == Append(tick.results, [call |-> Next1.id, ok |-> ok])

Started(kind, name, pooled, inst) ==
    [kind |-> kind, call |-> Next1.id, name |-> name, pooled |-> pooled, inst |-> inst,
     fuel |-> IF kind = "wasm" THEN MaxFuel ELSE NativeOps, events |-> <<>>, exit |-> None, saved |-> tick.writes]

(* Native first, then WASM, then not found. *)
CallNative ==
    /\ Left /\ run = NoRun /\ Next1.name \in Native
    /\ run' = Started("native", Next1.name, FALSE, NoSlot)
    /\ own' = [good EXCEPT !.calls = @ \cup {Next1.id}]
    /\ UNCHANGED <<modules, slot, db, queue, failed, tick, answers, issued, good>>

CallUnknown ==
    /\ Left /\ run = NoRun
    /\ Next1.name \notin Native \cup DOMAIN modules[tick.world]
    /\ tick' = [tick EXCEPT !.results = Result(FALSE)]
    /\ UNCHANGED <<modules, slot, db, queue, failed, run, answers, issued, own, good>>

(* The slot is taken out for the call.  Arguments over the limit end the    *)
(* call before the guest runs.                                              *)
CallWasm(argsFit) ==
    LET w == tick.world
        n == Next1.name
    IN  /\ Left /\ run = NoRun /\ n \notin Native /\ n \in DOMAIN modules[w]
        /\ LET pooled == modules[w][n]
               inst == IF pooled
                       THEN [Taken(w, n) EXCEPT !.host = ResetForCall(@, w)]
                       ELSE [Instance(w, n) EXCEPT !.host = NewHost(w)]
           IN  /\ run' = [Started("wasm", n, pooled, inst) EXCEPT
                              !.exit = IF argsFit THEN None ELSE "args"]
               /\ slot' = IF pooled THEN NoSlot ELSE slot
        /\ own' = [good EXCEPT !.calls = @ \cup {Next1.id}]
        /\ UNCHANGED <<modules, db, queue, failed, tick, answers, issued, good>>

(* Mutant: only the return code decides. *)
SucceededByCode(exit) == exit = "value"

(* A guest succeeds when it returned a value and no operation failed. *)
Succeeded(exit) == exit = "value" /\ (run.kind = "wasm" => run.inst.host.error = None)

(* Mutant: the writes of a failed call stay in the transaction. *)
KeptWrites(ok) == tick.writes

(* A failed call is rolled back to the snapshot taken before it. *)
WritesAfter(ok) == IF ok THEN tick.writes ELSE run.saved

Returned(i) == IF run.pooled THEN Stashed(i) ELSE slot

(* A failed tick commits nothing: its calls go back to the front. *)
TickFails ==
    /\ queue' = [queue EXCEPT ![tick.world] = tick.batch \o @]
    /\ failed' = IF Policy = "FailWorld" THEN failed \cup {tick.world} ELSE failed
    /\ tick' = NoTick
    /\ good' = Nothing
    /\ UNCHANGED <<db, answers>>

EndCall(exit) ==
    LET ok == Succeeded(exit)
    IN  /\ exit \in Exits
        /\ slot' = Returned(run.inst)
        /\ run' = NoRun
        /\ IF ok /\ ~tick.alone /\ Len(tick.events \o run.events) > MaxEvents
           THEN TickFails
           ELSE /\ tick' = [tick EXCEPT !.writes = WritesAfter(ok),
                                       !.events = IF ok THEN @ \o run.events ELSE @,
                                       !.results = Result(ok)]
                /\ good' = IF exit = "value" /\ ~own.bad THEN [own EXCEPT !.ops = 0] ELSE good
                /\ UNCHANGED <<db, queue, failed, answers>>
        /\ own' = Nothing
        /\ UNCHANGED <<modules, issued>>

Answers(results) ==
    [c \in {results[i].call : i \in DOMAIN results} |->
        \E i \in DOMAIN results : results[i] = [call |-> c, ok |-> TRUE]]

Answered(new) ==
    [c \in DOMAIN answers \cup DOMAIN new |-> IF c \in DOMAIN answers THEN answers[c] ELSE new[c]]

CommitTick ==
    /\ tick # NoTick /\ ~Left /\ run = NoRun /\ ~tick.alone
    /\ IF CommitValid(db[tick.world], tick.writes)
       THEN /\ db' = [db EXCEPT ![tick.world] = Committed(@, tick.writes)]
            /\ answers' = Answered(Answers(tick.results))
            /\ tick' = NoTick
            /\ good' = Nothing
            /\ UNCHANGED <<queue, failed>>
       ELSE TickFails
    /\ UNCHANGED <<modules, slot, run, issued, own>>

(* Commit on a value, abort on an error. *)
FinishInvocation ==
    /\ tick # NoTick /\ ~Left /\ run = NoRun /\ tick.alone
    /\ LET ok == tick.results[1].ok /\ CommitValid(db[tick.world], tick.writes)
       IN  /\ db' = IF ok THEN [db EXCEPT ![tick.world] = Committed(@, tick.writes)] ELSE db
           /\ answers' = Answered([c \in {tick.results[1].call} |-> ok])
    /\ tick' = NoTick /\ good' = Nothing
    /\ UNCHANGED <<modules, slot, queue, failed, run, issued, own>>
-----------------------------------------------------------------------------
GuestStep ==
    \/ \E op \in GuestOp : GuestCalls(op)
    \/ GuestComputes
    \/ run.kind = "wasm" /\ \E exit \in Exits : EndCall(exit)

Setup ==
    \E w \in World, n \in Name \ Native :
        \/ \E b \in Bytecode : Register(w, n, b)
        \/ \E yes \in BOOLEAN : SetPoolable(w, n, yes)

HostNext ==
    \/ Setup
    \/ \E w \in World, n \in Name : Submit(w, n) \/ Invoke(w, n)
    \/ \E w \in World : BeginTick(w)
    \/ CallNative \/ CallUnknown \/ \E fit \in BOOLEAN : CallWasm(fit)
    \/ \E op \in NativeOp : NativeCalls(op)
    \/ GuestStep
    \/ run.kind = "native" /\ \E exit \in Exits : EndCall(exit)
    \/ CommitTick \/ FinishInvocation

HostSpec == HostInit /\ [][HostNext]_hostVars /\ WF_hostVars(GuestStep)

(* Fair ticks: every step ticks every running world that has calls, and runs its tick to the end. *)
TickStep ==
    \/ CallNative \/ CallUnknown \/ \E fit \in BOOLEAN : CallWasm(fit)
    \/ run.kind = "native" /\ \E exit \in Exits : EndCall(exit)
    \/ GuestStep \/ CommitTick \/ FinishInvocation
HostFairSpec ==
    /\ HostInit /\ [][HostNext]_hostVars
    /\ WF_hostVars(TickStep) /\ \A w \in World : SF_hostVars(BeginTick(w))
-----------------------------------------------------------------------------
(* A call acts as a whole or not at all: between the calls of a tick, the   *)
(* transaction, the events and the results are those of the calls that      *)
(* returned a value and, if they are guests, met no failed operation        *)
(* (rollback in tick_with_calls, the sticky ABI error, take_events).        *)
CallsAreAtomic ==
    tick # NoTick =>
        IF run = NoRun
        THEN /\ tick.writes = good.writes /\ tick.events = good.events
             /\ {r.call : r \in {q \in Range(tick.results) : q.ok}} = good.calls
        ELSE tick.writes = own.writes /\ tick.events \o run.events = own.events

(* The calls that a step answers with success. *)
NewlyOk == {c \in DOMAIN answers' \ DOMAIN answers : answers'[c]}
AnswerIsTrue ==
    /\ NewlyOk # {} => /\ NewlyOk = good.calls
                       /\ db'[tick.world] = Committed(db[tick.world], good.writes)
    /\ NewlyOk = {} => db' = db

(* A call is answered with success only by the commit that holds its        *)
(* effects, and the table changes only by what answered calls did           *)
(* (tick_with_calls, finish_invocation, reducer_results).                   *)
AnswersAreTrue == [][AnswerIsTrue]_hostVars

(* A guest that does not return is stopped: fuel bounds every invocation    *)
(* (consume_fuel, set_fuel on both paths).                                  *)
GuestsEnd == (run.kind = "wasm") ~> (run.kind = None)

(* Every accepted call is answered, unless its world fails (calls.rs: "a    *)
(* failed tick answers every still-pending call of its world").             *)
CallsGetAnswered ==
    \A c \in Call : (issued >= c) ~> (c \in DOMAIN answers \/ failed # {})
=============================================================================
