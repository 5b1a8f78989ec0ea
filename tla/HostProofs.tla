----------------------------- MODULE HostProofs -----------------------------
(***************************************************************************)
(* Proofs about reducer execution: a call acts as a whole or not at all,   *)
(* and a call is answered with success only by the commit that holds its   *)
(* effects.                                                                *)
(***************************************************************************)
EXTENDS Host, SequenceTheorems, TLAPS

-----------------------------------------------------------------------------
(* The inductive invariant.                                                *)

Req == [id : Nat, name : Name]
Res == [call : Nat, ok : BOOLEAN]

(* Records by their fields. *)
Tk(w, b, a, x, e, r) ==
    [world |-> w, batch |-> b, alone |-> a, writes |-> x, events |-> e, results |-> r]
Rn(k, c, n, p, i, f, e, x, s) ==
    [kind |-> k, call |-> c, name |-> n, pooled |-> p, inst |-> i, fuel |-> f,
     events |-> e, exit |-> x, saved |-> s]
Ow(c, x, e, o, b) == [calls |-> c, writes |-> x, events |-> e, ops |-> o, bad |-> b]
In(w, g, n, h, m) == [of |-> w, engine |-> g, module |-> n, host |-> h, mem |-> m]
Ho(x, c, e) == [ctx |-> x, calls |-> c, error |-> e]

TickShape(t) ==
    /\ t = Tk(t.world, t.batch, t.alone, t.writes, t.events, t.results)
    /\ t.world \in World /\ t.batch \in Seq(Req) /\ t.events \in Seq(Nat)
    /\ t.results \in Seq(Res) /\ Len(t.results) <= Len(t.batch)

RunShape(r) ==
    /\ r = Rn(r.kind, r.call, r.name, r.pooled, r.inst, r.fuel, r.events, r.exit, r.saved)
    /\ r.kind \in {"native", "wasm"} /\ r.call \in Nat /\ r.events \in Seq(Nat)
    /\ r.pooled => r.kind = "wasm"

InstShape(i) ==
    /\ i = In(i.of, "slot", i.module, i.host, i.mem)
    /\ i.of \in World
    /\ i.host = Ho(i.host.ctx, i.host.calls, i.host.error)

HistShape(o) ==
    /\ o = Ow(o.calls, o.writes, o.events, o.ops, o.bad)
    /\ o.events \in Seq(Nat) /\ o.ops \in Nat /\ o.bad \in BOOLEAN

Types ==
    /\ queue \in [World -> Seq(Req)] /\ issued \in Nat
    /\ tick # NoTick => TickShape(tick)
    /\ run # NoRun => RunShape(run)
    /\ HistShape(own) /\ HistShape(good)

(* The calls that succeeded. *)
Succ(results) == {r.call : r \in {q \in Range(results) : q.ok}}

(* Between calls, and during one. *)
Idle ==
    /\ tick = NoTick => run = NoRun /\ good = Nothing
    /\ run = NoRun => own = Nothing
    /\ good.ops = 0 /\ good.bad = FALSE
    /\ tick # NoTick => Succ(tick.results) = good.calls /\ tick.events = good.events
    /\ tick # NoTick /\ run = NoRun => tick.writes = good.writes

Busy ==
    run # NoRun =>
        /\ Len(tick.results) < Len(tick.batch) /\ run.call = Next1.id
        /\ run.saved = good.writes
        /\ own.calls = good.calls \cup {run.call}
        /\ tick.writes = own.writes /\ tick.events \o run.events = own.events
        /\ run.kind = "native" => own.bad = FALSE

(* The instance of a call in a world after so many operations, one of them refused or none. *)
GuestOf(i, w, call, ops, bad) ==
    /\ InstShape(i)
    /\ i.host.ctx = w
    /\ i.mem = Image \/ i.mem.by = call
    /\ i.host.calls \in Nat
    /\ i.host.calls + ops <= MaxHostCalls
    /\ i.host.error # None <=> bad

Guest ==
    /\ run.kind = "wasm" => GuestOf(run.inst, tick.world, run.call, own.ops, own.bad)
    /\ slot # NoSlot => InstShape(slot) /\ slot.host.ctx = None

HostInv == Types /\ Idle /\ Busy /\ Guest

-----------------------------------------------------------------------------
(* Records.                                                                *)

LEMMA TkFields ==
    ASSUME NEW w, NEW b, NEW a, NEW x, NEW e, NEW r, NEW t, t = Tk(w, b, a, x, e, r)
    PROVE  t.world = w /\ t.batch = b /\ t.alone = a /\ t.writes = x /\ t.events = e /\ t.results = r
BY DEF Tk

LEMMA TkWrites ==
    ASSUME NEW w, NEW b, NEW a, NEW x, NEW e, NEW r, NEW y
    PROVE  [Tk(w, b, a, x, e, r) EXCEPT !.writes = y] = Tk(w, b, a, y, e, r)
BY DEF Tk

LEMMA TkEvents ==
    ASSUME NEW w, NEW b, NEW a, NEW x, NEW e, NEW r, NEW y
    PROVE  [Tk(w, b, a, x, e, r) EXCEPT !.events = y] = Tk(w, b, a, x, y, r)
BY DEF Tk

LEMMA TkResults ==
    ASSUME NEW w, NEW b, NEW a, NEW x, NEW e, NEW r, NEW y
    PROVE  [Tk(w, b, a, x, e, r) EXCEPT !.results = y] = Tk(w, b, a, x, e, y)
BY DEF Tk

LEMMA RnFields ==
    ASSUME NEW k, NEW c, NEW n, NEW p, NEW i, NEW f, NEW e, NEW x, NEW s, NEW r,
           r = Rn(k, c, n, p, i, f, e, x, s)
    PROVE  /\ r.kind = k /\ r.call = c /\ r.name = n /\ r.pooled = p /\ r.inst = i /\ r.fuel = f
           /\ r.events = e /\ r.exit = x /\ r.saved = s
BY DEF Rn

LEMMA RnFuel ==
    ASSUME NEW k, NEW c, NEW n, NEW p, NEW i, NEW f, NEW e, NEW x, NEW s, NEW y
    PROVE  [Rn(k, c, n, p, i, f, e, x, s) EXCEPT !.fuel = y] = Rn(k, c, n, p, i, y, e, x, s)
BY DEF Rn

LEMMA RnInst ==
    ASSUME NEW k, NEW c, NEW n, NEW p, NEW i, NEW f, NEW e, NEW x, NEW s, NEW y
    PROVE  [Rn(k, c, n, p, i, f, e, x, s) EXCEPT !.inst = y] = Rn(k, c, n, p, y, f, e, x, s)
BY DEF Rn

LEMMA RnEvents ==
    ASSUME NEW k, NEW c, NEW n, NEW p, NEW i, NEW f, NEW e, NEW x, NEW s, NEW y
    PROVE  [Rn(k, c, n, p, i, f, e, x, s) EXCEPT !.events = y] = Rn(k, c, n, p, i, f, y, x, s)
BY DEF Rn

LEMMA RnExit ==
    ASSUME NEW k, NEW c, NEW n, NEW p, NEW i, NEW f, NEW e, NEW x, NEW s, NEW y
    PROVE  [Rn(k, c, n, p, i, f, e, x, s) EXCEPT !.exit = y] = Rn(k, c, n, p, i, f, e, y, s)
BY DEF Rn

LEMMA OwFields ==
    ASSUME NEW c, NEW x, NEW e, NEW o, NEW b, NEW h, h = Ow(c, x, e, o, b)
    PROVE  h.calls = c /\ h.writes = x /\ h.events = e /\ h.ops = o /\ h.bad = b
BY DEF Ow

LEMMA OwExcept ==
    ASSUME NEW c, NEW x, NEW e, NEW o, NEW b, NEW y
    PROVE  /\ [Ow(c, x, e, o, b) EXCEPT !.calls = y] = Ow(y, x, e, o, b)
           /\ [Ow(c, x, e, o, b) EXCEPT !.writes = y] = Ow(c, y, e, o, b)
           /\ [Ow(c, x, e, o, b) EXCEPT !.events = y] = Ow(c, x, y, o, b)
           /\ [Ow(c, x, e, o, b) EXCEPT !.ops = y] = Ow(c, x, e, y, b)
           /\ [Ow(c, x, e, o, b) EXCEPT !.bad = y] = Ow(c, x, e, o, y)
<1>1. [Ow(c, x, e, o, b) EXCEPT !.calls = y] = Ow(y, x, e, o, b)
  BY DEF Ow
<1>2. [Ow(c, x, e, o, b) EXCEPT !.writes = y] = Ow(c, y, e, o, b)
  BY DEF Ow
<1>3. [Ow(c, x, e, o, b) EXCEPT !.events = y] = Ow(c, x, y, o, b)
  BY DEF Ow
<1>4. [Ow(c, x, e, o, b) EXCEPT !.ops = y] = Ow(c, x, e, y, b)
  BY DEF Ow
<1>5. [Ow(c, x, e, o, b) EXCEPT !.bad = y] = Ow(c, x, e, o, y)
  BY DEF Ow
<1> QED BY <1>1, <1>2, <1>3, <1>4, <1>5

LEMMA InFields ==
    ASSUME NEW w, NEW g, NEW n, NEW h, NEW m, NEW i, i = In(w, g, n, h, m)
    PROVE  i.of = w /\ i.engine = g /\ i.module = n /\ i.host = h /\ i.mem = m
BY DEF In

LEMMA InExcept ==
    ASSUME NEW w, NEW g, NEW n, NEW h, NEW m, NEW y
    PROVE  /\ [In(w, g, n, h, m) EXCEPT !.host = y] = In(w, g, n, y, m)
           /\ [In(w, g, n, h, m) EXCEPT !.mem = y] = In(w, g, n, h, y)
<1>1. [In(w, g, n, h, m) EXCEPT !.host = y] = In(w, g, n, y, m)
  BY DEF In
<1>2. [In(w, g, n, h, m) EXCEPT !.mem = y] = In(w, g, n, h, y)
  BY DEF In
<1> QED BY <1>1, <1>2

LEMMA HoFields ==
    ASSUME NEW x, NEW c, NEW e, NEW h, h = Ho(x, c, e)
    PROVE  h.ctx = x /\ h.calls = c /\ h.error = e
BY DEF Ho

LEMMA HoExcept ==
    ASSUME NEW x, NEW c, NEW e, NEW y
    PROVE  /\ [Ho(x, c, e) EXCEPT !.ctx = y] = Ho(y, c, e)
           /\ [Ho(x, c, e) EXCEPT !.calls = y] = Ho(x, y, e)
           /\ [Ho(x, c, e) EXCEPT !.error = y] = Ho(x, c, y)
<1>1. [Ho(x, c, e) EXCEPT !.ctx = y] = Ho(y, c, e)
  BY DEF Ho
<1>2. [Ho(x, c, e) EXCEPT !.calls = y] = Ho(x, y, e)
  BY DEF Ho
<1>3. [Ho(x, c, e) EXCEPT !.error = y] = Ho(x, c, y)
  BY DEF Ho
<1> QED BY <1>1, <1>2, <1>3

(* A tick is not NoTick, a run is not NoRun, an instance is not NoSlot. *)
LEMMA NotNothing ==
    /\ \A w \in World : \A b, a, x, e, r : Tk(w, b, a, x, e, r) # NoTick
    /\ \A k \in {"native", "wasm"} : \A c, n, p, i, f, e, x, s : Rn(k, c, n, p, i, f, e, x, s) # NoRun
    /\ \A w \in World : \A g, n, h, m : In(w, g, n, h, m) # NoSlot
    /\ NoRun.kind = None /\ NoTick.world = None /\ NoSlot.of = None
<1>1. NoRun.kind = None /\ NoTick.world = None /\ NoSlot.of = None
  BY DEF NoRun, NoTick, NoSlot
<1>2. ASSUME NEW w \in World, NEW b, NEW a, NEW x, NEW e, NEW r PROVE Tk(w, b, a, x, e, r) # NoTick
  BY <1>1, TkFields, HostAssumption
<1>3. ASSUME NEW k \in {"native", "wasm"}, NEW c, NEW n, NEW p, NEW i, NEW f, NEW e, NEW x, NEW s
      PROVE  Rn(k, c, n, p, i, f, e, x, s) # NoRun
  <2>1. Rn(k, c, n, p, i, f, e, x, s).kind = k /\ k # None
    BY RnFields DEF None
  <2> QED BY <1>1, <2>1
<1>4. ASSUME NEW w \in World, NEW g, NEW n, NEW h, NEW m PROVE In(w, g, n, h, m) # NoSlot
  BY <1>1, InFields, HostAssumption
<1> QED BY <1>1, <1>2, <1>3, <1>4

LEMMA NothingFields ==
    /\ Nothing = Ow({}, NoWrites, <<>>, 0, FALSE) /\ HistShape(Nothing)
    /\ Nothing.calls = {} /\ Nothing.writes = NoWrites /\ Nothing.events = <<>>
    /\ Nothing.ops = 0 /\ Nothing.bad = FALSE
<1>1. Nothing = Ow({}, NoWrites, <<>>, 0, FALSE)
  BY DEF Nothing, Ow
<1>2. /\ Nothing.calls = {} /\ Nothing.writes = NoWrites /\ Nothing.events = <<>>
      /\ Nothing.ops = 0 /\ Nothing.bad = FALSE
  BY DEF Nothing
<1>3. <<>> \in Seq(Nat)
  OBVIOUS
<1>4. 0 \in Nat /\ FALSE \in BOOLEAN
  OBVIOUS
<1>5. HistShape(Nothing)
  BY <1>1, <1>2, <1>3, <1>4, Zenon DEF HistShape
<1> QED BY <1>1, <1>2, <1>5

(* The pool holds no instance that the next call would take. *)
LEMMA TakenIsNew ==
    ASSUME Guest, NEW w \in World, NEW n
    PROVE  Taken(w, n) = In(w, "slot", n, Ho(None, MaxHostCalls, None), Image)
<1>1. Instance(w, n) = In(w, "slot", n, Ho(None, MaxHostCalls, None), Image)
  BY DEF Instance, In, NewHost, Ho
<1>2. CASE slot = NoSlot
  BY <1>1, <1>2, NotNothing DEF Taken
<1>3. CASE slot # NoSlot
  <2>1. slot.engine = "slot"
    BY <1>3, InFields DEF Guest, InstShape
  <2>2. ~Matches(slot, w, n)
    BY <2>1, HostAssumption DEF Matches
  <2> QED BY <1>1, <2>2 DEF Taken
<1> QED BY <1>2, <1>3


(* The updates of several fields that the actions make. *)
Called(t, y, z, q) == [t EXCEPT !.writes = y, !.events = z, !.results = q]
Did(h, y, z, q) == [h EXCEPT !.writes = y, !.events = z, !.ops = q]
Fueled(r, y) == [r EXCEPT !.fuel = y]
Emitting(r, y, z) == [r EXCEPT !.fuel = y, !.events = z]
Trapped(r, y, q) == [r EXCEPT !.fuel = y, !.exit = q]
Computed(r, y, m) == [r EXCEPT !.fuel = y, !.inst.mem = m]
Handled(r, y, h, z, q) == [r EXCEPT !.fuel = y, !.inst.host = h, !.events = z, !.exit = q]

LEMMA RunUpdates ==
    ASSUME NEW r, NEW y, NEW z, NEW q, NEW h
    PROVE  /\ [r EXCEPT !.fuel = y, !.events = z] = [[r EXCEPT !.fuel = y] EXCEPT !.events = z]
           /\ [r EXCEPT !.fuel = y, !.exit = q] = [[r EXCEPT !.fuel = y] EXCEPT !.exit = q]
           /\ [r EXCEPT !.fuel = y, !.inst.mem = h] = [[r EXCEPT !.fuel = y] EXCEPT !.inst.mem = h]
<1>1. [r EXCEPT !.fuel = y, !.events = z] = [[r EXCEPT !.fuel = y] EXCEPT !.events = z]
  OBVIOUS
<1>2. [r EXCEPT !.fuel = y, !.exit = q] = [[r EXCEPT !.fuel = y] EXCEPT !.exit = q]
  OBVIOUS
<1>3. [r EXCEPT !.fuel = y, !.inst.mem = h] = [[r EXCEPT !.fuel = y] EXCEPT !.inst.mem = h]
  OBVIOUS
<1> QED BY <1>1, <1>2, <1>3

LEMMA TkCall ==
    ASSUME NEW w, NEW b, NEW a, NEW x, NEW e, NEW r, NEW t, t = Tk(w, b, a, x, e, r), NEW y, NEW z, NEW q
    PROVE  Called(t, y, z, q) = Tk(w, b, a, y, z, q)
<1>1. [t EXCEPT !.writes = y, !.events = z, !.results = q]
        = [[[t EXCEPT !.writes = y] EXCEPT !.events = z] EXCEPT !.results = q]
  OBVIOUS
<1>2. [t EXCEPT !.writes = y] = Tk(w, b, a, y, e, r)
  BY TkWrites
<1>3. [Tk(w, b, a, y, e, r) EXCEPT !.events = z] = Tk(w, b, a, y, z, r)
  BY TkEvents
<1>4. [Tk(w, b, a, y, z, r) EXCEPT !.results = q] = Tk(w, b, a, y, z, q)
  BY TkResults
<1> QED BY <1>1, <1>2, <1>3, <1>4 DEF Called

LEMMA OwCalls ==
    ASSUME NEW c, NEW x, NEW e, NEW o, NEW b, NEW h, h = Ow(c, x, e, o, b), NEW y, NEW k, k = [h EXCEPT !.calls = y]
    PROVE  k = Ow(y, x, e, o, b)
BY DEF Ow

LEMMA OwStep ==
    ASSUME NEW c, NEW x, NEW e, NEW o, NEW b, NEW h, h = Ow(c, x, e, o, b), NEW y, NEW z, NEW q
    PROVE  Did(h, y, z, q) = Ow(c, y, z, q, b)
<1>1. [h EXCEPT !.writes = y, !.events = z, !.ops = q]
        = [[[h EXCEPT !.writes = y] EXCEPT !.events = z] EXCEPT !.ops = q]
  OBVIOUS
<1>2. [h EXCEPT !.writes = y] = Ow(c, y, e, o, b)
  BY OwExcept
<1>3. [Ow(c, y, e, o, b) EXCEPT !.events = z] = Ow(c, y, z, o, b)
  BY DEF Ow
<1>4. [Ow(c, y, z, o, b) EXCEPT !.ops = q] = Ow(c, y, z, q, b)
  BY OwExcept
<1> QED BY <1>1, <1>2, <1>3, <1>4 DEF Did

LEMMA HostUpdates ==
    ASSUME NEW h, NEW x, NEW c, NEW e
    PROVE  [h EXCEPT !.ctx = x, !.calls = c, !.error = e]
              = [[[h EXCEPT !.ctx = x] EXCEPT !.calls = c] EXCEPT !.error = e]
OBVIOUS

LEMMA ResetIs ==
    ASSUME NEW x, NEW c, NEW e, NEW h, h = Ho(x, c, e), NEW w
    PROVE  ResetForCall(h, w) = Ho(w, MaxHostCalls, None)
<1>1. ResetForCall(h, w) = [[[h EXCEPT !.ctx = w] EXCEPT !.calls = MaxHostCalls] EXCEPT !.error = None]
  BY HostUpdates DEF ResetForCall
<1>2. [Ho(x, c, e) EXCEPT !.ctx = w] = Ho(w, c, e)
  BY DEF Ho
<1>3. [Ho(w, c, e) EXCEPT !.calls = MaxHostCalls] = Ho(w, MaxHostCalls, e)
  BY DEF Ho
<1>4. [Ho(w, MaxHostCalls, e) EXCEPT !.error = None] = Ho(w, MaxHostCalls, None)
  BY DEF Ho
<1> QED BY <1>1, <1>2, <1>3, <1>4

LEMMA FueledIs ==
    ASSUME NEW k, NEW c, NEW n, NEW p, NEW i, NEW f, NEW e, NEW x, NEW s, NEW r,
           r = Rn(k, c, n, p, i, f, e, x, s), NEW y
    PROVE  Fueled(r, y) = Rn(k, c, n, p, i, y, e, x, s)
BY RnFuel DEF Fueled

LEMMA EmittingIs ==
    ASSUME NEW k, NEW c, NEW n, NEW p, NEW i, NEW f, NEW e, NEW x, NEW s, NEW r,
           r = Rn(k, c, n, p, i, f, e, x, s), NEW y, NEW z
    PROVE  Emitting(r, y, z) = Rn(k, c, n, p, i, y, z, x, s)
<1>1. [r EXCEPT !.fuel = y] = Rn(k, c, n, p, i, y, e, x, s)
  BY RnFuel
<1>2. Emitting(r, y, z) = [[r EXCEPT !.fuel = y] EXCEPT !.events = z]
  BY RunUpdates DEF Emitting
<1>3. [Rn(k, c, n, p, i, y, e, x, s) EXCEPT !.events = z] = Rn(k, c, n, p, i, y, z, x, s)
  BY RnEvents
<1> QED BY <1>1, <1>2, <1>3

LEMMA TrappedIs ==
    ASSUME NEW k, NEW c, NEW n, NEW p, NEW i, NEW f, NEW e, NEW x, NEW s, NEW r,
           r = Rn(k, c, n, p, i, f, e, x, s), NEW y, NEW q
    PROVE  Trapped(r, y, q) = Rn(k, c, n, p, i, y, e, q, s)
<1>1. [r EXCEPT !.fuel = y] = Rn(k, c, n, p, i, y, e, x, s)
  BY RnFuel
<1>2. Trapped(r, y, q) = [[r EXCEPT !.fuel = y] EXCEPT !.exit = q]
  BY RunUpdates DEF Trapped
<1>3. [Rn(k, c, n, p, i, y, e, x, s) EXCEPT !.exit = q] = Rn(k, c, n, p, i, y, e, q, s)
  BY RnExit
<1> QED BY <1>1, <1>2, <1>3

LEMMA ComputedIs ==
    ASSUME NEW k, NEW c, NEW n, NEW p, NEW i, NEW f, NEW e, NEW x, NEW s, NEW r,
           r = Rn(k, c, n, p, i, f, e, x, s), NEW y, NEW h
    PROVE  Computed(r, y, h) = Rn(k, c, n, p, [i EXCEPT !.mem = h], y, e, x, s)
<1>1. PICK r1 : r1 = Rn(k, c, n, p, i, y, e, x, s)
  OBVIOUS
<1>2. [r EXCEPT !.fuel = y] = r1 /\ r1.inst = i
  BY <1>1, RnFuel, RnFields
<1>3. [r1 EXCEPT !.inst.mem = h] = [r1 EXCEPT !.inst = [r1.inst EXCEPT !.mem = h]]
  OBVIOUS
<1>4. PICK j : j = [i EXCEPT !.mem = h]
  OBVIOUS
<1>5. [r1 EXCEPT !.inst.mem = h] = Rn(k, c, n, p, j, y, e, x, s)
  BY <1>1, <1>2, <1>3, <1>4, RnInst
<1>6. Computed(r, y, h) = [[r EXCEPT !.fuel = y] EXCEPT !.inst.mem = h]
  BY RunUpdates DEF Computed
<1> QED BY <1>2, <1>4, <1>5, <1>6

LEMMA HandledIs ==
    ASSUME NEW k, NEW c, NEW n, NEW p, NEW i, NEW f, NEW e, NEW x, NEW s, NEW r,
           r = Rn(k, c, n, p, i, f, e, x, s), NEW y, NEW h, NEW z, NEW q
    PROVE  Handled(r, y, h, z, q) = Rn(k, c, n, p, [i EXCEPT !.host = h], y, z, q, s)
<1>1. PICK r1 : r1 = Rn(k, c, n, p, i, y, e, x, s)
  OBVIOUS
<1>2. [r EXCEPT !.fuel = y] = r1 /\ r1.inst = i
  BY <1>1, RnFuel, RnFields
<1>3. [r1 EXCEPT !.inst.host = h] = [r1 EXCEPT !.inst = [r1.inst EXCEPT !.host = h]]
  OBVIOUS
<1>4. PICK j : j = [i EXCEPT !.host = h]
  OBVIOUS
<1>5. [r1 EXCEPT !.inst.host = h] = Rn(k, c, n, p, j, y, e, x, s)
  BY <1>1, <1>2, <1>3, <1>4, RnInst
<1>6. Handled(r, y, h, z, q)
        = [[[[r EXCEPT !.fuel = y] EXCEPT !.inst.host = h] EXCEPT !.events = z] EXCEPT !.exit = q]
  BY DEF Handled
<1>7. [Rn(k, c, n, p, j, y, e, x, s) EXCEPT !.events = z] = Rn(k, c, n, p, j, y, z, x, s)
  BY RnEvents
<1>8. [Rn(k, c, n, p, j, y, z, x, s) EXCEPT !.exit = q] = Rn(k, c, n, p, j, y, z, q, s)
  BY RnExit
<1> QED BY <1>2, <1>4, <1>5, <1>6, <1>7, <1>8

(* Shapes from constructors. *)
LEMMA TickIs ==
    ASSUME NEW w \in World, NEW b \in Seq(Req), NEW a, NEW x, NEW e \in Seq(Nat), NEW r \in Seq(Res),
           Len(r) <= Len(b), NEW t, t = Tk(w, b, a, x, e, r)
    PROVE  /\ TickShape(t) /\ t # NoTick
           /\ t.world = w /\ t.batch = b /\ t.alone = a /\ t.writes = x /\ t.events = e /\ t.results = r
<1>1. t.world = w /\ t.batch = b /\ t.alone = a /\ t.writes = x /\ t.events = e /\ t.results = r
  BY TkFields
<1>2. t # NoTick
  BY NotNothing
<1> QED BY <1>1, <1>2 DEF TickShape

LEMMA RunIs ==
    ASSUME NEW k \in {"native", "wasm"}, NEW c \in Nat, NEW n, NEW p, p => k = "wasm", NEW i, NEW f,
           NEW e \in Seq(Nat), NEW x, NEW s, NEW r, r = Rn(k, c, n, p, i, f, e, x, s)
    PROVE  /\ RunShape(r) /\ r # NoRun
           /\ r.kind = k /\ r.call = c /\ r.name = n /\ r.pooled = p /\ r.inst = i /\ r.fuel = f
           /\ r.events = e /\ r.exit = x /\ r.saved = s
<1>1. /\ r.kind = k /\ r.call = c /\ r.name = n /\ r.pooled = p /\ r.inst = i /\ r.fuel = f
      /\ r.events = e /\ r.exit = x /\ r.saved = s
  BY RnFields
<1>2. r # NoRun
  BY NotNothing
<1> QED BY <1>1, <1>2 DEF RunShape

LEMMA HistIs ==
    ASSUME NEW c, NEW x, NEW e \in Seq(Nat), NEW o \in Nat, NEW b \in BOOLEAN, NEW h, h = Ow(c, x, e, o, b)
    PROVE  /\ HistShape(h)
           /\ h.calls = c /\ h.writes = x /\ h.events = e /\ h.ops = o /\ h.bad = b
<1>1. h.calls = c /\ h.writes = x /\ h.events = e /\ h.ops = o /\ h.bad = b
  BY OwFields
<1> QED BY <1>1 DEF HistShape

LEMMA InstIs ==
    ASSUME NEW w \in World, NEW n, NEW x, NEW c, NEW e, NEW h, h = Ho(x, c, e), NEW m, NEW i,
           i = In(w, "slot", n, h, m)
    PROVE  /\ InstShape(i) /\ i # NoSlot
           /\ i.of = w /\ i.module = n /\ i.host = h /\ i.mem = m
           /\ h.ctx = x /\ h.calls = c /\ h.error = e
<1>1. i.of = w /\ i.module = n /\ i.host = h /\ i.mem = m
  BY InFields
<1>2. h.ctx = x /\ h.calls = c /\ h.error = e
  BY HoFields
<1>3. i # NoSlot
  BY NotNothing
<1> QED BY <1>1, <1>2, <1>3 DEF InstShape

(* A result adds its call to those that succeeded, or nothing. *)
LEMMA SuccOfResult ==
    ASSUME NEW rs \in Seq(Res), NEW c \in Nat, NEW ok \in BOOLEAN
    PROVE  /\ Append(rs, [call |-> c, ok |-> ok]) \in Seq(Res)
           /\ Len(Append(rs, [call |-> c, ok |-> ok])) = Len(rs) + 1
           /\ Succ(Append(rs, [call |-> c, ok |-> ok])) = IF ok THEN Succ(rs) \cup {c} ELSE Succ(rs)
<1>1. PICK m \in Res : m = [call |-> c, ok |-> ok]
  BY DEF Res
<1>2. m.call = c /\ m.ok = ok
  BY <1>1
<1>3. PICK ss : ss = Append(rs, m)
  OBVIOUS
<1>4. ss \in Seq(Res) /\ Len(ss) = Len(rs) + 1
  BY <1>3
<1>5. Range(ss) = Range(rs) \cup {m}
  <2>1. DOMAIN rs = 1..Len(rs) /\ DOMAIN ss = 1..(Len(rs) + 1) /\ Len(rs) \in Nat
    BY <1>4
  <2>2. \A i \in 1..Len(rs) : ss[i] = rs[i]
    BY <1>3
  <2>3. ss[Len(rs) + 1] = m
    BY <1>3
  <2>4. Range(ss) \subseteq Range(rs) \cup {m}
    BY <2>1, <2>2, <2>3 DEF Range
  <2>5. Range(rs) \cup {m} \subseteq Range(ss)
    BY <2>1, <2>2, <2>3 DEF Range
  <2> QED BY <2>4, <2>5
<1>6. Succ(ss) = IF ok THEN Succ(rs) \cup {c} ELSE Succ(rs)
  BY <1>5, <1>2 DEF Succ
<1> QED BY <1>1, <1>3, <1>4, <1>6

-----------------------------------------------------------------------------
(* The invariant holds initially, and what happens between ticks keeps it. *)

LEMMA NoResults == <<>> \in Seq(Res) /\ <<>> \in Seq(Nat) /\ Len(<<>>) = 0 /\ Succ(<<>>) = {}
<1>1. Range(<<>>) = {}
  BY DEF Range
<1> QED BY <1>1 DEF Succ

LEMMA HostInvInitially == HostInit => HostInv
<1> SUFFICES ASSUME HostInit PROVE HostInv
  OBVIOUS
<1>1. queue \in [World -> Seq(Req)]
  <2>1. <<>> \in Seq(Req)
    OBVIOUS
  <2> QED BY <2>1 DEF HostInit
<1>2. tick = NoTick /\ run = NoRun /\ slot = NoSlot /\ own = Nothing /\ good = Nothing /\ issued \in Nat
  BY DEF HostInit
<1>3. run.kind # "wasm"
  BY <1>2, NotNothing DEF None
<1>4. Types
  BY <1>1, <1>2, NothingFields DEF Types
<1>5. Idle
  BY <1>2, NothingFields DEF Idle
<1>6. Busy
  BY <1>2 DEF Busy
<1>7. Guest
  BY <1>2, <1>3 DEF Guest
<1> QED BY <1>4, <1>5, <1>6, <1>7 DEF HostInv

LEMMA SameInv ==
    ASSUME HostInv, UNCHANGED <<slot, tick, run, own, good>>,
           queue' \in [World -> Seq(Req)], issued' \in Nat
    PROVE  HostInv'
<1>1. Types'
  BY DEF HostInv, Types
<1>2. Idle'
  BY DEF HostInv, Idle
<1>3. Busy'
  BY DEF HostInv, Busy, Next1
<1>4. Guest'
  BY DEF HostInv, Guest
<1> QED BY <1>1, <1>2, <1>3, <1>4 DEF HostInv

LEMMA TickBegins ==
    ASSUME HostInv, tick = NoTick, NEW w \in World, NEW b \in Seq(Req), NEW a,
           tick' = Tk(w, b, a, NoWrites, <<>>, <<>>), UNCHANGED <<slot, run, own, good>>,
           queue' \in [World -> Seq(Req)], issued' \in Nat
    PROVE  HostInv'
<1>1. /\ TickShape(tick') /\ tick' # NoTick
      /\ tick'.writes = NoWrites /\ tick'.events = <<>> /\ tick'.results = <<>>
  <2>1. Len(<<>>) <= Len(b)
    BY NoResults
  <2>2. PICK t : t = tick'
    OBVIOUS
  <2>3. PICK none \in Seq(Nat) : none = <<>>
    BY NoResults
  <2>4. PICK nores \in Seq(Res) : nores = <<>>
    BY NoResults
  <2>5. t = Tk(w, b, a, NoWrites, none, nores) /\ Len(nores) <= Len(b)
    BY <2>1, <2>2, <2>3, <2>4
  <2>6. TickShape(t) /\ t # NoTick /\ t.writes = NoWrites /\ t.events = none /\ t.results = nores
    BY <2>5, TickIs
  <2> QED BY <2>2, <2>3, <2>4, <2>6
<1>2. run = NoRun /\ good = Nothing /\ own = Nothing /\ run' = NoRun /\ run.kind # "wasm"
  BY NotNothing DEF HostInv, Idle, None
<1>3. Types'
  BY <1>1, <1>2 DEF HostInv, Types
<1>4. Idle'
  BY <1>1, <1>2, NoResults, NothingFields DEF HostInv, Idle
<1>5. Busy'
  BY <1>2 DEF Busy
<1>6. Guest'
  BY <1>2 DEF HostInv, Guest
<1> QED BY <1>3, <1>4, <1>5, <1>6 DEF HostInv

LEMMA SetupInv ==
    ASSUME HostInv, Setup PROVE HostInv'
<1>1. UNCHANGED <<slot, db, queue, failed, tick, run, answers, issued, own, good>>
  BY DEF Setup, Register, SetPoolable
<1> QED BY <1>1, SameInv DEF HostInv, Types

LEMMA SubmitInv ==
    ASSUME HostInv, NEW w \in World, NEW n \in Name, Submit(w, n) PROVE HostInv'
<1>1. issued' \in Nat
  BY DEF Submit, HostInv, Types
<1>2. PICK m \in Req : m = [id |-> issued', name |-> n]
  BY <1>1 DEF Req
<1>3. queue[w] \in Seq(Req)
  BY DEF HostInv, Types
<1>4. Append(queue[w], m) \in Seq(Req)
  BY <1>2, <1>3
<1>5. queue' \in [World -> Seq(Req)]
  BY <1>2, <1>4 DEF Submit, HostInv, Types
<1> QED BY <1>1, <1>5, SameInv DEF Submit

LEMMA BeginTickInv ==
    ASSUME HostInv, NEW w \in World, BeginTick(w) PROVE HostInv'
<1>1. PICK q \in Seq(Req) : q = queue[w]
  BY DEF HostInv, Types
<1>2. PICK n \in Nat : n = IF Len(q) < PerTick THEN Len(q) ELSE PerTick
  BY HostAssumption
<1>3. tick = NoTick /\ UNCHANGED <<slot, run, own, good, issued>>
  BY DEF BeginTick
<1>4. /\ tick' = NewTick(w, SubSeq(q, 1, n), FALSE)
      /\ queue' = [queue EXCEPT ![w] = SubSeq(q, n + 1, Len(q))]
  BY <1>1, <1>2 DEF BeginTick
<1>5. n <= Len(q)
  BY <1>2, HostAssumption
<1>6. PICK b \in Seq(Req) : b = SubSeq(q, 1, n)
  <2>1. 1 \in 1..(Len(q) + 1) /\ n \in (1 - 1)..Len(q)
    BY <1>5
  <2>2. SubSeq(q, 1, n) \in Seq(Req)
    BY <2>1, SubSeqProperties
  <2> QED BY <2>2
<1>7. SubSeq(q, n + 1, Len(q)) \in Seq(Req)
  BY SubSeqProperties, <1>5
<1>8. queue' \in [World -> Seq(Req)]
  BY <1>4, <1>7 DEF HostInv, Types
<1>9. tick' = Tk(w, b, FALSE, NoWrites, <<>>, <<>>)
  BY <1>4, <1>6 DEF NewTick, Tk
<1> QED BY <1>3, <1>8, <1>9, TickBegins DEF HostInv, Types

LEMMA InvokeInv ==
    ASSUME HostInv, NEW w \in World, NEW n \in Name, Invoke(w, n) PROVE HostInv'
<1>1. issued' \in Nat
  BY DEF Invoke, HostInv, Types
<1>2. PICK m \in Req : m = [id |-> issued', name |-> n]
  BY <1>1 DEF Req
<1>3. PICK b \in Seq(Req) : b = <<m>>
  <2>1. <<m>> \in Seq(Req)
    OBVIOUS
  <2> QED BY <2>1
<1>4. tick' = Tk(w, b, TRUE, NoWrites, <<>>, <<>>)
  BY <1>2, <1>3 DEF Invoke, NewTick, Tk
<1> QED BY <1>1, <1>4, TickBegins DEF Invoke, HostInv, Types

-----------------------------------------------------------------------------
(* A call begins.                                                          *)

LEMMA NextIsRequest ==
    ASSUME Types, Left
    PROVE  /\ TickShape(tick) /\ Len(tick.results) < Len(tick.batch)
           /\ Next1 \in Req /\ Next1.id \in Nat
<1>1. TickShape(tick) /\ Len(tick.results) < Len(tick.batch)
  BY DEF Types, Left
<1>2. PICK b \in Seq(Req) : b = tick.batch
  BY <1>1 DEF TickShape
<1>3. PICK r \in Seq(Res) : r = tick.results
  BY <1>1 DEF TickShape
<1>4. Len(r) + 1 \in 1..Len(b)
  BY <1>1, <1>2, <1>3
<1>5. b[Len(r) + 1] \in Req
  BY <1>4
<1>6. Next1 \in Req
  BY <1>2, <1>3, <1>5 DEF Next1
<1> QED BY <1>1, <1>6 DEF Req

LEMMA CallBegins ==
    ASSUME HostInv, Left, run = NoRun,
           NEW k \in {"native", "wasm"}, NEW n, NEW p, p => k = "wasm", NEW i, NEW f, NEW x,
           run' = Rn(k, Next1.id, n, p, i, f, <<>>, x, tick.writes),
           k = "wasm" => /\ InstShape(i) /\ i.host.ctx = tick.world /\ i.mem = Image
                         /\ i.host.calls = MaxHostCalls /\ i.host.error = None,
           own' = [good EXCEPT !.calls = good.calls \cup {Next1.id}],
           slot' = slot \/ slot' = NoSlot, UNCHANGED <<queue, tick, issued, good>>
    PROVE  HostInv'
<1>1. /\ TickShape(tick) /\ Len(tick.results) < Len(tick.batch) /\ Next1.id \in Nat
  BY NextIsRequest DEF HostInv
<1>2. tick # NoTick
  BY DEF Left
<1>3. PICK c \in Nat : c = Next1.id
  BY <1>1
<1>4. PICK none \in Seq(Nat) : none = <<>>
  BY NoResults
<1>5. PICK r : r = run'
  OBVIOUS
<1>6. /\ RunShape(r) /\ r # NoRun /\ r.kind = k /\ r.call = c /\ r.inst = i /\ r.events = <<>>
      /\ r.saved = tick.writes
  <2>1. PICK ws : ws = tick.writes
    OBVIOUS
  <2>2. r = Rn(k, c, n, p, i, f, none, x, ws)
    BY <2>1, <1>3, <1>4, <1>5
  <2>3. /\ RunShape(r) /\ r # NoRun /\ r.kind = k /\ r.call = c /\ r.inst = i /\ r.events = none
        /\ r.saved = ws
    BY <2>2, RunIs
  <2> QED BY <2>1, <2>3, <1>4
<1>7. /\ HistShape(good) /\ good.ops = 0 /\ good.bad = FALSE /\ tick.events = good.events
      /\ tick.writes = good.writes /\ Succ(tick.results) = good.calls
  BY <1>2 DEF HostInv, Types, Idle
<1>8. PICK o : o = own'
  OBVIOUS
<1>9. PICK gc, gw, ge : gc = good.calls /\ gw = good.writes /\ ge = good.events
  OBVIOUS
<1>10. good = Ow(gc, gw, ge, 0, FALSE) /\ ge \in Seq(Nat)
  BY <1>7, <1>9 DEF HistShape
<1>11. PICK oc : oc = gc \cup {c} /\ o = Ow(oc, gw, ge, 0, FALSE)
  <2>1. PICK oc : oc = gc \cup {c}
    OBVIOUS
  <2>2. o = [good EXCEPT !.calls = oc]
    BY <2>1, <1>3, <1>8, <1>9
  <2>3. PICK g : g = good
    OBVIOUS
  <2>4. PICK zero, no : zero = 0 /\ no = FALSE
    OBVIOUS
  <2>5. g = Ow(gc, gw, ge, zero, no) /\ o = [g EXCEPT !.calls = oc]
    BY <2>2, <2>3, <2>4, <1>10
  <2>6. o = Ow(oc, gw, ge, zero, no)
    BY ONLY <2>5, OwCalls
  <2> QED BY <2>1, <2>4, <2>6
<1>12. /\ HistShape(o) /\ o.calls = good.calls \cup {c} /\ o.writes = good.writes
       /\ o.events = good.events /\ o.ops = 0 /\ o.bad = FALSE
  <2>1. PICK zero \in Nat, no \in BOOLEAN : zero = 0 /\ no = FALSE
    OBVIOUS
  <2>2. o = Ow(oc, gw, ge, zero, no)
    BY <1>11, <2>1
  <2>3. HistShape(o) /\ o.calls = oc /\ o.writes = gw /\ o.events = ge /\ o.ops = zero /\ o.bad = no
    BY <1>10, <2>2, HistIs
  <2> QED BY <1>9, <1>11, <2>1, <2>3
<1>13. Types'
  BY <1>1, <1>5, <1>6, <1>8, <1>12 DEF HostInv, Types
<1>14. Idle'
  BY <1>2, <1>5, <1>6 DEF HostInv, Idle
<1>15. Busy'
  <2>1. tick.events \o <<>> = tick.events
    BY <1>1 DEF TickShape
  <2>2. tick.events \o r.events = o.events
    BY <2>1, <1>6, <1>7, <1>12
  <2>3. Next1' = Next1
    BY DEF Next1
  <2> QED BY <1>1, <1>3, <1>5, <1>6, <1>7, <1>8, <1>12, <2>2, <2>3 DEF Busy
<1>16. Guest'
  <2>1. slot' # NoSlot => InstShape(slot') /\ slot'.host.ctx = None
    BY DEF HostInv, Guest
  <2>2. MaxHostCalls \in Nat
    BY HostAssumption
  <2>3. r.kind = "wasm" =>
          /\ InstShape(r.inst) /\ r.inst.host.ctx = tick.world /\ r.inst.mem = Image
          /\ r.inst.host.calls = MaxHostCalls /\ r.inst.host.error = None
    BY <1>6
  <2>4. r.kind = "wasm" => r.inst.host.calls \in Nat /\ r.inst.host.calls + o.ops <= MaxHostCalls
    BY <2>2, <2>3, <1>12
  <2>5. r.kind = "wasm" => (r.inst.host.error # None <=> o.bad)
    BY <2>3, <1>12
  <2>6. r.kind = "wasm" => GuestOf(r.inst, tick.world, r.call, o.ops, o.bad)
    BY <2>3, <2>4, <2>5 DEF GuestOf
  <2> QED BY <1>5, <1>8, <2>1, <2>6 DEF Guest
<1> QED BY <1>13, <1>14, <1>15, <1>16 DEF HostInv

LEMMA CallNativeInv ==
    ASSUME HostInv, CallNative PROVE HostInv'
<1>1. run' = Rn("native", Next1.id, Next1.name, FALSE, NoSlot, NativeOps, <<>>, None, tick.writes)
  BY DEF CallNative, Started, Rn
<1>2. Left /\ run = NoRun /\ UNCHANGED <<slot, queue, tick, issued, good>>
  BY DEF CallNative
<1>3. own' = [good EXCEPT !.calls = good.calls \cup {Next1.id}]
  BY DEF CallNative
<1> QED BY <1>1, <1>2, <1>3, CallBegins

LEMMA CallWasmInv ==
    ASSUME HostInv, NEW fit \in BOOLEAN, CallWasm(fit) PROVE HostInv'
<1>1. Left /\ run = NoRun /\ UNCHANGED <<queue, tick, issued, good>> /\ tick.world \in World
  BY NextIsRequest DEF CallWasm, HostInv, TickShape
<1>2. PICK w \in World : w = tick.world
  BY <1>1
<1>3. PICK n, p : n = Next1.name /\ p = modules[w][n]
  OBVIOUS
<1>4. PICK i : i = IF p THEN [Taken(w, n) EXCEPT !.host = ResetForCall(Taken(w, n).host, w)]
                   ELSE [Instance(w, n) EXCEPT !.host = NewHost(w)]
  OBVIOUS
<1>5. /\ run' = [Started("wasm", n, p, i) EXCEPT !.exit = IF fit THEN None ELSE "args"]
      /\ slot' = IF p THEN NoSlot ELSE slot
  BY <1>2, <1>3, <1>4 DEF CallWasm
<1>6. own' = [good EXCEPT !.calls = good.calls \cup {Next1.id}]
  BY DEF CallWasm
<1>7. i = In(w, "slot", n, Ho(w, MaxHostCalls, None), Image)
  <2>1. PICK h0 : h0 = Ho(None, MaxHostCalls, None)
    OBVIOUS
  <2>2. PICK j : j = In(w, "slot", n, h0, Image)
    OBVIOUS
  <2>3. Taken(w, n) = j
    BY <2>1, <2>2, TakenIsNew DEF HostInv
  <2>4. Instance(w, n) = j
    BY <2>1, <2>2 DEF Instance, In, NewHost, Ho
  <2>5. j.host = h0
    BY <2>2, InFields
  <2>6. ResetForCall(h0, w) = Ho(w, MaxHostCalls, None)
    BY <2>1, ResetIs
  <2>7. NewHost(w) = Ho(w, MaxHostCalls, None)
    BY DEF NewHost, Ho
  <2>8. PICK h : h = Ho(w, MaxHostCalls, None)
    OBVIOUS
  <2>9. i = [j EXCEPT !.host = h]
    BY <1>4, <2>3, <2>4, <2>5, <2>6, <2>7, <2>8
  <2>10. [j EXCEPT !.host = h] = In(w, "slot", n, h, Image)
    <3>1. PICK g, m : g = "slot" /\ m = Image
      OBVIOUS
    <3>2. [In(w, g, n, h0, m) EXCEPT !.host = h] = In(w, g, n, h, m)
      BY InExcept
    <3> QED BY <2>2, <3>1, <3>2
  <2> QED BY <2>8, <2>9, <2>10
<1>8. /\ InstShape(i) /\ i.host.ctx = w /\ i.mem = Image
      /\ i.host.calls = MaxHostCalls /\ i.host.error = None
  <2>1. PICK h : h = Ho(w, MaxHostCalls, None)
    OBVIOUS
  <2> QED BY <1>7, <2>1, InstIs
<1>9. PICK x : x = IF fit THEN None ELSE "args"
  OBVIOUS
<1>10. run' = Rn("wasm", Next1.id, n, p, i, MaxFuel, <<>>, x, tick.writes)
  <2>1. Started("wasm", n, p, i) = Rn("wasm", Next1.id, n, p, i, MaxFuel, <<>>, None, tick.writes)
    BY DEF Started, Rn
  <2> QED BY <1>5, <1>9, <2>1, RnExit
<1>11. slot' = slot \/ slot' = NoSlot
  BY <1>5
<1>12. PICK kk \in {"native", "wasm"} : kk = "wasm"
  OBVIOUS
<1> QED BY <1>1, <1>2, <1>6, <1>8, <1>10, <1>11, <1>12, CallBegins

(* A tick that goes on with one more result, no call running. *)
LEMMA ResultIsRecorded ==
    ASSUME HostInv, Left, NEW ok \in BOOLEAN, NEW x, NEW e \in Seq(Nat), NEW g,
           tick' = Tk(tick.world, tick.batch, tick.alone, x, e, Result(ok)),
           run' = NoRun, own' = Nothing, good' = g, HistShape(g), g.ops = 0, g.bad = FALSE,
           g.writes = x, g.events = e,
           g.calls = IF ok THEN Succ(tick.results) \cup {Next1.id} ELSE Succ(tick.results),
           slot' # NoSlot => InstShape(slot') /\ slot'.host.ctx = None,
           UNCHANGED <<queue, issued>>
    PROVE  HostInv'
<1>1. /\ TickShape(tick) /\ Len(tick.results) < Len(tick.batch) /\ Next1.id \in Nat
  BY NextIsRequest DEF HostInv
<1>2. PICK w \in World : w = tick.world
  BY <1>1 DEF TickShape
<1>3. PICK b \in Seq(Req) : b = tick.batch
  BY <1>1 DEF TickShape
<1>4. PICK rs \in Seq(Res) : rs = tick.results
  BY <1>1 DEF TickShape
<1>5. PICK c \in Nat : c = Next1.id
  BY <1>1
<1>6. PICK q : q = Append(rs, [call |-> c, ok |-> ok])
  OBVIOUS
<1>7. /\ q \in Seq(Res) /\ Len(q) = Len(rs) + 1
      /\ Succ(q) = IF ok THEN Succ(rs) \cup {c} ELSE Succ(rs)
  BY <1>6, SuccOfResult
<1>8. q = Result(ok)
  BY <1>4, <1>5, <1>6 DEF Result
<1>9. Len(q) <= Len(b)
  BY <1>1, <1>3, <1>4, <1>7
<1>10. PICK t : t = tick'
  OBVIOUS
<1>11. PICK a : a = tick.alone
  OBVIOUS
<1>12. t = Tk(w, b, a, x, e, q)
  BY <1>2, <1>3, <1>8, <1>10, <1>11
<1>13. TickShape(t) /\ t # NoTick /\ t.writes = x /\ t.events = e /\ t.results = q
  BY <1>7, <1>9, <1>12, TickIs
<1>14. Types'
  BY <1>10, <1>13, NothingFields DEF HostInv, Types
<1>15. Idle'
  <2>1. Succ(q) = g.calls
    BY <1>4, <1>5, <1>7
  <2> QED BY <2>1, <1>10, <1>13 DEF Idle
<1>16. Busy'
  BY DEF Busy
<1>17. Guest'
  BY NotNothing DEF Guest, None
<1> QED BY <1>14, <1>15, <1>16, <1>17 DEF HostInv

LEMMA CallUnknownInv ==
    ASSUME HostInv, CallUnknown PROVE HostInv'
<1>1. Left /\ run = NoRun /\ UNCHANGED <<slot, queue, run, issued, own, good>>
  BY DEF CallUnknown
<1>2. tick # NoTick /\ TickShape(tick)
  BY <1>1, NextIsRequest DEF HostInv, Left
<1>3. /\ HistShape(good) /\ good.ops = 0 /\ good.bad = FALSE /\ tick.events = good.events
      /\ tick.writes = good.writes /\ Succ(tick.results) = good.calls /\ own = Nothing
  BY <1>1, <1>2 DEF HostInv, Types, Idle
<1>4. tick' = Tk(tick.world, tick.batch, tick.alone, tick.writes, tick.events, Result(FALSE))
  <2>1. tick' = [tick EXCEPT !.results = Result(FALSE)]
    BY DEF CallUnknown
  <2>2. PICK w, b, a, x, e : /\ w = tick.world /\ b = tick.batch /\ a = tick.alone
                             /\ x = tick.writes /\ e = tick.events
    OBVIOUS
  <2>3. PICK rs, q : rs = tick.results /\ q = Result(FALSE)
    OBVIOUS
  <2>4. [Tk(w, b, a, x, e, rs) EXCEPT !.results = q] = Tk(w, b, a, x, e, q)
    BY TkResults
  <2>5. tick = Tk(w, b, a, x, e, rs)
    BY <1>2, <2>2, <2>3 DEF TickShape
  <2> QED BY <2>1, <2>2, <2>3, <2>4, <2>5
<1>5. PICK e \in Seq(Nat) : e = tick.events
  BY <1>2 DEF TickShape
<1>6. PICK x, g : x = tick.writes /\ g = good
  OBVIOUS
<1>7. slot' # NoSlot => InstShape(slot') /\ slot'.host.ctx = None
  BY <1>1 DEF HostInv, Guest
<1>8. PICK no \in BOOLEAN : no = FALSE
  OBVIOUS
<1>9. tick' = Tk(tick.world, tick.batch, tick.alone, x, e, Result(no))
  BY <1>4, <1>5, <1>6, <1>8
<1>10. g.calls = IF no THEN Succ(tick.results) \cup {Next1.id} ELSE Succ(tick.results)
  BY <1>3, <1>6, <1>8
<1> QED BY <1>1, <1>3, <1>5, <1>6, <1>7, <1>9, <1>10, ResultIsRecorded

-----------------------------------------------------------------------------
(* A call runs.                                                            *)

(* The state during a call, by its fields. *)
LEMMA RunningState ==
    ASSUME HostInv, run # NoRun
    PROVE  /\ tick # NoTick /\ TickShape(tick) /\ RunShape(run) /\ HistShape(own)
           /\ tick.writes = own.writes /\ tick.events \o run.events = own.events
           /\ run.kind = "native" => own.bad = FALSE
<1>1. tick # NoTick
  BY DEF HostInv, Idle
<1>2. TickShape(tick) /\ RunShape(run) /\ HistShape(own)
  BY <1>1 DEF HostInv, Types
<1> QED BY <1>1, <1>2 DEF HostInv, Busy

LEMMA CallGoesOn ==
    ASSUME HostInv, run # NoRun,
           NEW x, NEW i, NEW f, NEW e \in Seq(Nat), NEW q, NEW oe \in Seq(Nat), NEW o \in Nat,
           NEW bad \in BOOLEAN,
           tick' = Tk(tick.world, tick.batch, tick.alone, x, tick.events, tick.results),
           run' = Rn(run.kind, run.call, run.name, run.pooled, i, f, e, q, run.saved),
           own' = Ow(own.calls, x, oe, o, bad),
           tick.events \o e = oe, run.kind = "native" => bad = FALSE,
           run.kind = "wasm" => GuestOf(i, tick.world, run.call, o, bad),
           UNCHANGED <<slot, queue, issued, good>>
    PROVE  HostInv'
<1>1. tick # NoTick /\ TickShape(tick) /\ RunShape(run) /\ HistShape(own)
  BY RunningState
<1>2. PICK t, r, h : t = tick' /\ r = run' /\ h = own'
  OBVIOUS
<1>3. /\ TickShape(t) /\ t # NoTick /\ t.world = tick.world /\ t.batch = tick.batch /\ t.writes = x
      /\ t.events = tick.events /\ t.results = tick.results
  <2>1. PICK w \in World, b \in Seq(Req) : w = tick.world /\ b = tick.batch
    BY <1>1 DEF TickShape
  <2>2. PICK te \in Seq(Nat), rs \in Seq(Res) : te = tick.events /\ rs = tick.results
    BY <1>1 DEF TickShape
  <2>3. PICK a : a = tick.alone
    OBVIOUS
  <2>4. Len(rs) <= Len(b)
    BY <1>1, <2>1, <2>2 DEF TickShape
  <2>5. t = Tk(w, b, a, x, te, rs)
    BY <1>2, <2>1, <2>2, <2>3
  <2>6. /\ TickShape(t) /\ t # NoTick /\ t.world = w /\ t.batch = b /\ t.writes = x
        /\ t.events = te /\ t.results = rs
    BY <2>4, <2>5, TickIs
  <2> QED BY <2>1, <2>2, <2>6
<1>4. /\ RunShape(r) /\ r # NoRun /\ r.kind = run.kind /\ r.call = run.call /\ r.inst = i
      /\ r.events = e /\ r.saved = run.saved
  <2>1. PICK k \in {"native", "wasm"}, c \in Nat : k = run.kind /\ c = run.call
    BY <1>1 DEF RunShape
  <2>2. PICK n, p, s : n = run.name /\ p = run.pooled /\ s = run.saved
    OBVIOUS
  <2>3. p => k = "wasm"
    BY <1>1, <2>1, <2>2 DEF RunShape
  <2>4. r = Rn(k, c, n, p, i, f, e, q, s)
    BY <1>2, <2>1, <2>2
  <2>5. /\ RunShape(r) /\ r # NoRun /\ r.kind = k /\ r.call = c /\ r.inst = i
        /\ r.events = e /\ r.saved = s
    BY <2>3, <2>4, RunIs
  <2> QED BY <2>1, <2>2, <2>5
<1>5. /\ HistShape(h) /\ h.calls = own.calls /\ h.writes = x /\ h.events = oe /\ h.ops = o
      /\ h.bad = bad
  <2>1. PICK oc : oc = own.calls
    OBVIOUS
  <2>2. h = Ow(oc, x, oe, o, bad)
    BY <1>2, <2>1
  <2> QED BY <2>1, <2>2, HistIs
<1>6. Types'
  BY <1>2, <1>3, <1>4, <1>5 DEF HostInv, Types
<1>7. Idle'
  BY <1>1, <1>2, <1>3, <1>4 DEF HostInv, Idle
<1>8. Busy'
  <2>1. Next1' = Next1
    BY <1>2, <1>3 DEF Next1
  <2> QED BY <1>2, <1>3, <1>4, <1>5, <2>1 DEF HostInv, Busy
<1>9. Guest'
  BY <1>2, <1>3, <1>4, <1>5 DEF HostInv, Guest
<1> QED BY <1>6, <1>7, <1>8, <1>9 DEF HostInv

LEMMA EmittedAfter ==
    ASSUME run.call \in Nat, NEW te \in Seq(Nat), NEW re \in Seq(Nat), NEW op
    PROVE  /\ Emitted(re, op) \in Seq(Nat)
           /\ te \o Emitted(re, op) = Emitted(te \o re, op)
<1>1. PICK c \in Nat : c = run.call
  OBVIOUS
<1>2. CASE op.kind = "emit"
  <2>1. Emitted(re, op) = Append(re, c) /\ Emitted(te \o re, op) = Append(te \o re, c)
    BY <1>1, <1>2 DEF Emitted
  <2>2. Append(re, c) \in Seq(Nat)
    OBVIOUS
  <2>3. te \o Append(re, c) = Append(te \o re, c)
    OBVIOUS
  <2> QED BY <2>1, <2>2, <2>3
<1>3. CASE op.kind # "emit"
  BY <1>3 DEF Emitted
<1> QED BY <1>2, <1>3

(* An operation adds the same writes and events to the tick and to its history. *)
LEMMA DoingIs ==
    ASSUME HostInv, run # NoRun, NEW op, Doing(op)
    PROVE  /\ tick' = Tk(tick.world, tick.batch, tick.alone, Buffered(tick.writes, op),
                         tick.events, tick.results)
           /\ own' = Ow(own.calls, Buffered(tick.writes, op), Emitted(own.events, op),
                        own.ops + 1, own.bad)
<1>1. TickShape(tick) /\ HistShape(own) /\ tick.writes = own.writes
  BY RunningState
<1>2. PICK y : y = Buffered(tick.writes, op)
  OBVIOUS
<1>3. tick' = Tk(tick.world, tick.batch, tick.alone, y, tick.events, tick.results)
  <2>1. tick' = [tick EXCEPT !.writes = y]
    BY <1>2 DEF Doing
  <2>2. PICK w, b, a, x, e, rs : /\ w = tick.world /\ b = tick.batch /\ a = tick.alone
                                 /\ x = tick.writes /\ e = tick.events /\ rs = tick.results
    OBVIOUS
  <2>3. tick = Tk(w, b, a, x, e, rs)
    BY <1>1, <2>2 DEF TickShape
  <2>4. [Tk(w, b, a, x, e, rs) EXCEPT !.writes = y] = Tk(w, b, a, y, e, rs)
    BY TkWrites
  <2> QED BY <2>1, <2>2, <2>3, <2>4
<1>4. own' = Ow(own.calls, y, Emitted(own.events, op), own.ops + 1, own.bad)
  <2>1. PICK z, q : z = Emitted(own.events, op) /\ q = own.ops + 1
    OBVIOUS
  <2>2. PICK h, g : h = own /\ g = own'
    OBVIOUS
  <2>3. g = Did(h, y, z, q)
    BY <1>1, <1>2, <2>1, <2>2 DEF Doing, Did
  <2>4. PICK c, x, e, o, b : /\ c = own.calls /\ x = own.writes /\ e = own.events
                             /\ o = own.ops /\ b = own.bad
    OBVIOUS
  <2>5. h = Ow(c, x, e, o, b)
    BY <1>1, <2>2, <2>4 DEF HistShape
  <2>6. g = Ow(c, y, z, q, b)
    BY <2>3, <2>5, OwStep
  <2> QED BY <2>1, <2>2, <2>4, <2>6
<1> QED BY <1>2, <1>3, <1>4

LEMMA NativeCallsInv ==
    ASSUME HostInv, NEW op, NativeCalls(op) PROVE HostInv'
<1>1. run.kind = "native" /\ run # NoRun /\ UNCHANGED <<slot, queue, issued, good>>
  BY NotNothing DEF NativeCalls, Running, None
<1>2. /\ TickShape(tick) /\ RunShape(run) /\ HistShape(own) /\ own.bad = FALSE
      /\ tick.writes = own.writes /\ tick.events \o run.events = own.events
  BY <1>1, RunningState
<1>3. PICK r : r = run
  OBVIOUS
<1>4. PICK k, c, n, p, i, f, e, x, s :
          /\ k = run.kind /\ c = run.call /\ n = run.name /\ p = run.pooled /\ i = run.inst
          /\ f = run.fuel /\ e = run.events /\ x = run.exit /\ s = run.saved
  OBVIOUS
<1>5. r = Rn(k, c, n, p, i, f, e, x, s) /\ e \in Seq(Nat) /\ c \in Nat
  BY <1>2, <1>3, <1>4 DEF RunShape
<1>6. PICK y : y = run.fuel - 1
  OBVIOUS
<1>7. PICK te \in Seq(Nat) : te = tick.events
  BY <1>2 DEF TickShape
<1>8. PICK oe \in Seq(Nat), o \in Nat, bad \in BOOLEAN : oe = own.events /\ o = own.ops /\ bad = FALSE
  BY <1>2 DEF HistShape
<1>9. CASE OpError(op) = None
  <2>1. Doing(op) /\ run' = [run EXCEPT !.fuel = y, !.events = Emitted(run.events, op)]
    BY <1>6, <1>9 DEF NativeCalls
  <2>2. PICK z : z = Emitted(run.events, op)
    OBVIOUS
  <2>3. z \in Seq(Nat) /\ te \o z = Emitted(oe, op)
    <3>1. run.call \in Nat /\ z = Emitted(e, op) /\ te \o e = oe
      BY <2>2, <1>2, <1>4, <1>5, <1>7, <1>8
    <3>2. Emitted(e, op) \in Seq(Nat) /\ te \o Emitted(e, op) = Emitted(te \o e, op)
      <4>1. run.call \in Nat /\ e \in Seq(Nat)
        BY <3>1, <1>5
      <4> QED BY <4>1, EmittedAfter
    <3> QED BY <3>1, <3>2
  <2>4. Emitted(oe, op) \in Seq(Nat)
    BY <1>4, <1>5, <1>7, EmittedAfter
  <2>5. run' = Emitting(r, y, z)
    BY <2>1, <2>2, <1>3 DEF Emitting
  <2>6. run' = Rn(run.kind, run.call, run.name, run.pooled, i, y, z, x, run.saved)
    <3>1. Emitting(r, y, z) = Rn(k, c, n, p, i, y, z, x, s)
      BY <1>5, EmittingIs
    <3> QED BY <2>5, <1>4, <3>1
  <2>7. PICK b : b = Buffered(tick.writes, op)
    OBVIOUS
  <2>8. PICK ne \in Seq(Nat), no \in Nat : ne = Emitted(oe, op) /\ no = o + 1
    BY <2>4
  <2>9. /\ tick' = Tk(tick.world, tick.batch, tick.alone, b, tick.events, tick.results)
        /\ own' = Ow(own.calls, b, ne, no, bad)
    BY <2>1, <2>7, <2>8, <1>1, <1>2, <1>8, DoingIs
  <2>10. tick.events \o z = ne
    BY <2>3, <2>8, <1>7
  <2> QED BY <2>3, <2>6, <2>9, <2>10, <1>1, <1>8, CallGoesOn
<1>10. CASE OpError(op) # None
  <2>1. run' = [run EXCEPT !.fuel = y] /\ UNCHANGED <<tick, own>>
    BY <1>6, <1>10 DEF NativeCalls
  <2>2. run' = Fueled(r, y)
    BY <2>1, <1>3 DEF Fueled
  <2>3. run' = Rn(run.kind, run.call, run.name, run.pooled, i, y, e, x, run.saved)
    <3>1. Fueled(r, y) = Rn(k, c, n, p, i, y, e, x, s)
      BY <1>5, FueledIs
    <3> QED BY <2>2, <1>4, <3>1
  <2>4. PICK b : b = tick.writes
    OBVIOUS
  <2>5. /\ tick' = Tk(tick.world, tick.batch, tick.alone, b, tick.events, tick.results)
        /\ own' = Ow(own.calls, b, oe, o, bad)
    BY <2>1, <2>4, <1>2, <1>8 DEF TickShape, HistShape
  <2>6. tick.events \o e = oe
    BY <1>2, <1>4, <1>8
  <2> QED BY <2>3, <2>5, <2>6, <1>1, <1>5, <1>8, CallGoesOn
<1> QED BY <1>9, <1>10

(* A call of the ABI spends one unit of the budget; an operation that is refused leaves an error. *)
LEMMA HandleOpIs ==
    ASSUME NEW x, NEW c \in Nat, NEW e, NEW h, h = Ho(x, c, e), NEW op
    PROVE  \E c2 \in Nat : \E e2 :
               /\ HandleOp(h, op) = Ho(x, c2, e2)
               /\ AbiError(h, op) = None => c2 + 1 = c /\ e2 = e
               /\ AbiError(h, op) # None => c2 <= c /\ e2 # None
<1>1. h.ctx = x /\ h.calls = c /\ h.error = e
  BY HoFields
<1>2. PICK c2 \in Nat : c2 = IF c = 0 THEN 0 ELSE c - 1
  OBVIOUS
<1>3. PICK s : s = Spent(h)
  OBVIOUS
<1>4. s = Ho(x, c2, e)
  <2>1. s = [h EXCEPT !.calls = c2]
    BY <1>1, <1>2, <1>3 DEF Spent
  <2> QED BY <2>1, HoExcept
<1>5. s.error = e
  BY <1>4, HoFields
<1>6. c2 <= c
  BY <1>2
<1>7. CASE AbiError(h, op) = None
  <2>1. c # 0
    BY <1>1, <1>7 DEF AbiError, None
  <2>2. c2 + 1 = c
    BY <2>1, <1>2
  <2>3. HandleOp(h, op) = Ho(x, c2, e)
    BY <1>3, <1>4, <1>7 DEF HandleOp
  <2> QED BY <2>2, <2>3, <1>7
<1>8. CASE AbiError(h, op) # None
  <2>1. PICK err : err = AbiError(h, op)
    OBVIOUS
  <2>2. HandleOp(h, op) = Sticky(s, err)
    BY <2>1, <1>3, <1>8 DEF HandleOp
  <2>3. CASE e = None
    <3>1. Sticky(s, err) = [s EXCEPT !.error = err]
      BY <2>3, <1>5 DEF Sticky
    <3>2. [Ho(x, c2, e) EXCEPT !.error = err] = Ho(x, c2, err)
      BY DEF Ho
    <3>3. HandleOp(h, op) = Ho(x, c2, err)
      BY <2>2, <3>1, <3>2, <1>4
    <3> QED BY <3>3, <2>1, <1>6, <1>8
  <2>4. CASE e # None
    <3>1. HandleOp(h, op) = Ho(x, c2, e)
      BY <2>2, <2>4, <1>4, <1>5 DEF Sticky
    <3> QED BY <3>1, <2>4, <1>6, <1>8
  <2> QED BY <2>3, <2>4
<1> QED BY <1>7, <1>8

(* The running guest, by its fields. *)
GuestParts(v, w, n, c, e, m) ==
    /\ w = tick.world /\ run.inst = In(v, "slot", n, Ho(w, c, e), m)
    /\ run.inst.host = Ho(w, c, e)
    /\ m = Image \/ m.by = run.call
    /\ c + own.ops <= MaxHostCalls /\ (e # None <=> own.bad)

LEMMA GuestState ==
    ASSUME HostInv, run.kind = "wasm"
    PROVE  \E v \in World, w \in World, c \in Nat : \E n, e, m : GuestParts(v, w, n, c, e, m)
<1>1. run # NoRun
  BY NotNothing DEF None
<1>2. tick.world \in World
  BY <1>1, RunningState DEF TickShape
<1>3. PICK w \in World : w = tick.world
  BY <1>2
<1>4. PICK i, h : i = run.inst /\ h = i.host
  OBVIOUS
<1>5. /\ InstShape(i) /\ h.ctx = w /\ h.calls \in Nat /\ h.calls + own.ops <= MaxHostCalls
      /\ h.error # None <=> own.bad
      /\ i.mem = Image \/ i.mem.by = run.call
  BY <1>3, <1>4 DEF HostInv, Guest, GuestOf
<1>6. PICK c \in Nat : c = h.calls
  BY <1>5
<1>7. PICK e, m, n, v : e = h.error /\ m = i.mem /\ n = i.module /\ v = i.of
  OBVIOUS
<1>8. h = Ho(w, c, e) /\ i = In(v, "slot", n, h, m) /\ v \in World
  BY <1>4, <1>5, <1>6, <1>7 DEF InstShape
<1>9. GuestParts(v, w, n, c, e, m)
  BY <1>3, <1>4, <1>5, <1>6, <1>7, <1>8 DEF GuestParts
<1> QED BY <1>8, <1>9

(* A guest's memory and host state stay its own. *)
LEMMA GuestGoesOn ==
    ASSUME NEW v \in World, NEW w \in World, NEW n, NEW c \in Nat, NEW e, NEW m,
           NEW rc, m = Image \/ m.by = rc, NEW o \in Nat, c + o <= MaxHostCalls,
           NEW bad \in BOOLEAN, e # None <=> bad,
           NEW i, i = In(v, "slot", n, Ho(w, c, e), m)
    PROVE  GuestOf(i, w, rc, o, bad)
<1>1. PICK h : h = Ho(w, c, e)
  OBVIOUS
<1>2. InstShape(i) /\ i.host = h /\ i.mem = m /\ h.ctx = w /\ h.calls = c /\ h.error = e
  BY <1>1, InstIs
<1> QED BY <1>2 DEF GuestOf

LEMMA GuestCallsInv ==
    ASSUME HostInv, NEW op, GuestCalls(op) PROVE HostInv'
<1>1. run.kind = "wasm" /\ run # NoRun /\ run.exit = None /\ UNCHANGED <<slot, queue, issued, good>>
  BY NotNothing DEF GuestCalls, Running, None
<1>2. /\ TickShape(tick) /\ RunShape(run) /\ HistShape(own)
      /\ tick.writes = own.writes /\ tick.events \o run.events = own.events
  BY <1>1, RunningState
<1>3. PICK r : r = run
  OBVIOUS
<1>4. PICK k, c, n, p, i, f, e, x, s :
          /\ k = run.kind /\ c = run.call /\ n = run.name /\ p = run.pooled /\ i = run.inst
          /\ f = run.fuel /\ e = run.events /\ x = run.exit /\ s = run.saved
  OBVIOUS
<1>5. r = Rn(k, c, n, p, i, f, e, x, s) /\ e \in Seq(Nat) /\ c \in Nat
  BY <1>2, <1>3, <1>4 DEF RunShape
<1>6. PICK y : y = run.fuel - 1
  OBVIOUS
<1>7. PICK te \in Seq(Nat) : te = tick.events
  BY <1>2 DEF TickShape
<1>8. PICK oe \in Seq(Nat), o \in Nat, bad \in BOOLEAN : oe = own.events /\ o = own.ops /\ bad = own.bad
  BY <1>2 DEF HistShape
<1>9. te \o e = oe
  BY <1>2, <1>4, <1>7, <1>8
<1>10. PICK v \in World, w \in World, hc \in Nat : \E mo, he, m : GuestParts(v, w, mo, hc, he, m)
  BY <1>1, GuestState
<1>10a. PICK mo, he, m : GuestParts(v, w, mo, hc, he, m)
  BY <1>10
<1>11. /\ w = tick.world /\ i = In(v, "slot", mo, Ho(w, hc, he), m)
       /\ i.host = Ho(w, hc, he)
       /\ m = Image \/ m.by = run.call
       /\ hc + o <= MaxHostCalls /\ (he # None <=> bad)
  BY <1>10a, <1>4, <1>8 DEF GuestParts
<1>12. CASE op.fault = "wild in"
  <2>1. run' = [run EXCEPT !.fuel = y, !.exit = "trap"] /\ UNCHANGED <<tick, own>>
    BY <1>6, <1>12 DEF GuestCalls
  <2>2. PICK q : q = "trap"
    OBVIOUS
  <2>3. run' = Trapped(r, y, q)
    BY <2>1, <2>2, <1>3 DEF Trapped
  <2>4. run' = Rn(run.kind, run.call, run.name, run.pooled, i, y, e, q, run.saved)
    <3>1. Trapped(r, y, q) = Rn(k, c, n, p, i, y, e, q, s)
      BY <1>5, TrappedIs
    <3> QED BY <2>3, <3>1, <1>4
  <2>5. PICK b : b = tick.writes
    OBVIOUS
  <2>6. /\ tick' = Tk(tick.world, tick.batch, tick.alone, b, tick.events, tick.results)
        /\ own' = Ow(own.calls, b, oe, o, bad)
    BY <2>1, <2>5, <1>2, <1>8 DEF TickShape, HistShape
  <2>7. GuestOf(i, tick.world, run.call, o, bad)
    BY <1>11, GuestGoesOn
  <2>8. run.kind # "native" /\ tick.events \o e = oe
    BY <1>1, <1>7, <1>9
  <2> QED BY <2>4, <2>6, <2>7, <2>8, <1>1, <1>5, CallGoesOn
<1>13. CASE op.fault # "wild in"
  <2>1. PICK h : h = i.host
    OBVIOUS
  <2>2a. PICK c2 \in Nat : \E e2 :
               /\ HandleOp(h, op) = Ho(w, c2, e2)
               /\ AbiError(h, op) = None => c2 + 1 = hc /\ e2 = he
               /\ AbiError(h, op) # None => c2 <= hc /\ e2 # None
    <3>1. h = Ho(w, hc, he)
      BY <2>1, <1>11
    <3> QED BY <3>1, HandleOpIs
  <2>2. PICK e2 :
               /\ HandleOp(h, op) = Ho(w, c2, e2)
               /\ AbiError(h, op) = None => c2 + 1 = hc /\ e2 = he
               /\ AbiError(h, op) # None => c2 <= hc /\ e2 # None
    BY <2>2a
  <2>3. PICK z, q : /\ z = IF AbiError(h, op) # None THEN run.events ELSE Emitted(run.events, op)
                    /\ q = IF op.fault = "wild out" THEN "trap" ELSE run.exit
    OBVIOUS
  <2>4. PICK h2 : h2 = HandleOp(h, op)
    OBVIOUS
  <2>5. run' = Handled(r, y, h2, z, q)
    BY <2>1, <2>3, <2>4, <1>3, <1>4, <1>6, <1>13 DEF GuestCalls, Handled
  <2>6. PICK j : j = In(v, "slot", mo, h2, m)
    OBVIOUS
  <2>7. [i EXCEPT !.host = h2] = j
    <3>1. PICK g, ho : g = "slot" /\ ho = Ho(w, hc, he)
      OBVIOUS
    <3>2. [In(v, g, mo, ho, m) EXCEPT !.host = h2] = In(v, g, mo, h2, m)
      BY InExcept
    <3> QED BY <2>6, <3>1, <3>2, <1>11
  <2>8. run' = Rn(run.kind, run.call, run.name, run.pooled, j, y, z, q, run.saved)
    <3>1. Handled(r, y, h2, z, q) = Rn(k, c, n, p, [i EXCEPT !.host = h2], y, z, q, s)
      BY <1>5, HandledIs
    <3> QED BY <2>5, <2>7, <3>1, <1>4
  <2>9. j = In(v, "slot", mo, Ho(w, c2, e2), m) /\ run.kind # "native"
    BY <2>2, <2>4, <2>6, <1>1
  <2>10. CASE AbiError(h, op) # None
    <3>1. tick' = tick /\ own' = [own EXCEPT !.bad = TRUE]
      BY <2>1, <2>10, <1>4, <1>13 DEF GuestCalls
    <3>2. PICK b : b = tick.writes
      OBVIOUS
    <3>3. PICK yes \in BOOLEAN : yes = TRUE
      OBVIOUS
    <3>4. PICK oc : oc = own.calls
      OBVIOUS
    <3>5. own = Ow(oc, b, oe, o, bad)
      BY <3>2, <3>4, <1>2, <1>8 DEF HistShape
    <3>6. [Ow(oc, b, oe, o, bad) EXCEPT !.bad = yes] = Ow(oc, b, oe, o, yes)
      BY ONLY DEF Ow
    <3>7. /\ tick' = Tk(tick.world, tick.batch, tick.alone, b, tick.events, tick.results)
          /\ own' = Ow(own.calls, b, oe, o, yes)
      BY <3>1, <3>2, <3>3, <3>4, <3>5, <3>6, <1>2 DEF TickShape
    <3>8. z = e /\ z \in Seq(Nat)
      BY <2>3, <2>10, <1>4, <1>5
    <3>9. c2 + o <= MaxHostCalls /\ e2 # None
      <4>1. MaxHostCalls \in Nat
        BY HostAssumption
      <4>2. c2 <= hc /\ e2 # None
        BY <2>2, <2>10
      <4>3. hc + o <= MaxHostCalls
        BY <1>11
      <4> QED BY <4>1, <4>2, <4>3
    <3>10. GuestOf(j, tick.world, run.call, o, yes)
      BY <3>3, <3>9, <2>9, <1>11, GuestGoesOn
    <3>11. tick.events \o z = oe
      BY <3>8, <1>7, <1>9
    <3> QED BY <2>8, <2>9, <3>7, <3>8, <3>10, <3>11, <1>1, CallGoesOn
  <2>11. CASE AbiError(h, op) = None
    <3>1. Doing(op)
      BY <2>1, <2>11, <1>4, <1>13 DEF GuestCalls
    <3>2. z = Emitted(e, op)
      BY <2>3, <2>11, <1>4
    <3>3. z \in Seq(Nat) /\ te \o z = Emitted(oe, op)
      <4>1. run.call \in Nat
        BY <1>4, <1>5
      <4>2. Emitted(e, op) \in Seq(Nat) /\ te \o Emitted(e, op) = Emitted(te \o e, op)
        BY <4>1, <1>5, EmittedAfter
      <4> QED BY <4>2, <3>2, <1>9
    <3>4. Emitted(oe, op) \in Seq(Nat)
      BY <1>4, <1>5, <1>7, EmittedAfter
    <3>5. PICK b : b = Buffered(tick.writes, op)
      OBVIOUS
    <3>6. PICK ne \in Seq(Nat), no \in Nat : ne = Emitted(oe, op) /\ no = o + 1
      BY <3>4
    <3>7. /\ tick' = Tk(tick.world, tick.batch, tick.alone, b, tick.events, tick.results)
          /\ own' = Ow(own.calls, b, ne, no, bad)
      BY <3>1, <3>5, <3>6, <1>1, <1>8, DoingIs
    <3>8. c2 + no <= MaxHostCalls /\ (e2 # None <=> bad)
      <4>1. MaxHostCalls \in Nat
        BY HostAssumption
      <4>2. c2 + 1 = hc /\ e2 = he
        BY <2>2, <2>11
      <4>3. hc + o <= MaxHostCalls /\ (he # None <=> bad)
        BY <1>11
      <4>4. c2 + no <= MaxHostCalls
        BY <4>1, <4>2, <4>3, <3>6
      <4> QED BY <4>2, <4>3, <4>4
    <3>9. GuestOf(j, tick.world, run.call, no, bad)
      BY <3>8, <2>9, <1>11, GuestGoesOn
    <3>10. tick.events \o z = ne
      BY <3>3, <3>6, <1>7
    <3> QED BY <2>8, <2>9, <3>3, <3>7, <3>9, <3>10, <1>1, CallGoesOn
  <2> QED BY <2>10, <2>11
<1> QED BY <1>12, <1>13

LEMMA GuestComputesInv ==
    ASSUME HostInv, GuestComputes PROVE HostInv'
<1>1. run.kind = "wasm" /\ run # NoRun /\ UNCHANGED <<slot, queue, tick, issued, own, good>>
  BY NotNothing DEF GuestComputes, Running, None
<1>2. /\ TickShape(tick) /\ RunShape(run) /\ HistShape(own)
      /\ tick.writes = own.writes /\ tick.events \o run.events = own.events
  BY <1>1, RunningState
<1>3. PICK r : r = run
  OBVIOUS
<1>4. PICK k, c, n, p, i, f, e, x, s :
          /\ k = run.kind /\ c = run.call /\ n = run.name /\ p = run.pooled /\ i = run.inst
          /\ f = run.fuel /\ e = run.events /\ x = run.exit /\ s = run.saved
  OBVIOUS
<1>5. r = Rn(k, c, n, p, i, f, e, x, s) /\ e \in Seq(Nat)
  BY <1>2, <1>3, <1>4 DEF RunShape
<1>6. PICK y : y = run.fuel - 1
  OBVIOUS
<1>7. PICK oe \in Seq(Nat), o \in Nat, bad \in BOOLEAN : oe = own.events /\ o = own.ops /\ bad = own.bad
  BY <1>2 DEF HistShape
<1>8. PICK v \in World, w \in World, hc \in Nat : \E mo, he, m : GuestParts(v, w, mo, hc, he, m)
  BY <1>1, GuestState
<1>8a. PICK mo, he, m : GuestParts(v, w, mo, hc, he, m)
  BY <1>8
<1>9. /\ w = tick.world /\ i = In(v, "slot", mo, Ho(w, hc, he), m)
      /\ hc + o <= MaxHostCalls /\ (he # None <=> bad)
  BY <1>8a, <1>4, <1>7 DEF GuestParts
<1>10. PICK m2 : m2 = [by |-> run.call, pages |-> IF run.inst.mem.pages < MaxPages
                                                  THEN run.inst.mem.pages + 1 ELSE run.inst.mem.pages]
  OBVIOUS
<1>11. m2.by = run.call
  BY <1>10
<1>12. run' = Computed(r, y, m2)
  BY <1>3, <1>6, <1>10 DEF GuestComputes, Computed
<1>13. PICK j : j = In(v, "slot", mo, Ho(w, hc, he), m2)
  OBVIOUS
<1>14. [i EXCEPT !.mem = m2] = j
  <2>1. PICK g, ho : g = "slot" /\ ho = Ho(w, hc, he)
    OBVIOUS
  <2>2. [In(v, g, mo, ho, m) EXCEPT !.mem = m2] = In(v, g, mo, ho, m2)
    BY DEF In
  <2> QED BY <2>1, <2>2, <1>9, <1>13
<1>15. run' = Rn(run.kind, run.call, run.name, run.pooled, j, y, e, x, run.saved)
  <2>1. Computed(r, y, m2) = Rn(k, c, n, p, [i EXCEPT !.mem = m2], y, e, x, s)
    BY <1>5, ComputedIs
  <2> QED BY <2>1, <1>4, <1>12, <1>14
<1>16. PICK b : b = tick.writes
  OBVIOUS
<1>17. /\ tick' = Tk(tick.world, tick.batch, tick.alone, b, tick.events, tick.results)
       /\ own' = Ow(own.calls, b, oe, o, bad)
  BY <1>1, <1>2, <1>7, <1>16 DEF TickShape, HistShape
<1>18. GuestOf(j, tick.world, run.call, o, bad)
  BY <1>9, <1>11, <1>13, GuestGoesOn
<1>19. tick.events \o e = oe /\ run.kind # "native"
  BY <1>1, <1>2, <1>4, <1>7
<1> QED BY <1>1, <1>5, <1>15, <1>17, <1>18, <1>19, CallGoesOn

-----------------------------------------------------------------------------
(* A call ends, and a tick.                                                *)

LEMMA TickEnds ==
    ASSUME HostInv, tick' = NoTick, run' = NoRun, own' = Nothing, good' = Nothing,
           queue' \in [World -> Seq(Req)], issued' = issued,
           slot' # NoSlot => InstShape(slot') /\ slot'.host.ctx = None
    PROVE  HostInv'
<1>1. Types'
  BY NothingFields DEF HostInv, Types
<1>2. Idle'
  BY NothingFields DEF Idle
<1>3. Busy'
  BY DEF Busy
<1>4. Guest'
  BY NotNothing DEF Guest, None
<1> QED BY <1>1, <1>2, <1>3, <1>4 DEF HostInv

LEMMA TickFailsTypes ==
    ASSUME HostInv, tick # NoTick, TickFails
    PROVE  tick' = NoTick /\ good' = Nothing /\ queue' \in [World -> Seq(Req)]
<1>1. TickShape(tick)
  BY DEF HostInv, Types
<1>2. PICK b \in Seq(Req), w \in World : b = tick.batch /\ w = tick.world
  BY <1>1 DEF TickShape
<1>3. queue[w] \in Seq(Req)
  BY DEF HostInv, Types
<1>4. b \o queue[w] \in Seq(Req)
  BY <1>3
<1>5. queue' = [queue EXCEPT ![w] = b \o queue[w]]
  BY <1>2 DEF TickFails
<1>6. queue' \in [World -> Seq(Req)]
  BY <1>4, <1>5 DEF HostInv, Types
<1> QED BY <1>6 DEF TickFails

(* A stashed instance holds no context. *)
LEMMA ReturnedSlot ==
    ASSUME HostInv, run # NoRun, NEW s, s = Returned(run.inst), s # NoSlot
    PROVE  InstShape(s) /\ s.host.ctx = None
<1>1. CASE run.pooled
  <2>1. run.kind = "wasm"
    BY <1>1, RunningState DEF RunShape
  <2>2. PICK v \in World, w \in World, hc \in Nat : \E mo, he, m : GuestParts(v, w, mo, hc, he, m)
    BY <2>1, GuestState
  <2>3. PICK mo, he, m : GuestParts(v, w, mo, hc, he, m)
    BY <2>2
  <2>4. PICK i, ho : i = run.inst /\ ho = Ho(w, hc, he)
    OBVIOUS
  <2>5. i = In(v, "slot", mo, ho, m) /\ i.host = ho
    BY <2>3, <2>4 DEF GuestParts
  <2>6. PICK rel : rel = ReleaseCtx(ho)
    OBVIOUS
  <2>7. rel = Ho(None, hc, he)
    <3>1. PICK no : no = None
      OBVIOUS
    <3>2. [Ho(w, hc, he) EXCEPT !.ctx = no] = Ho(no, hc, he)
      BY HoExcept
    <3> QED BY <2>4, <2>6, <3>1, <3>2 DEF ReleaseCtx
  <2>8. s = [i EXCEPT !.host = rel]
    BY <1>1, <2>4, <2>5, <2>6 DEF Returned, Stashed
  <2>9. s = In(v, "slot", mo, rel, m)
    <3>1. PICK g : g = "slot"
      OBVIOUS
    <3>2. [In(v, g, mo, ho, m) EXCEPT !.host = rel] = In(v, g, mo, rel, m)
      BY InExcept
    <3> QED BY <2>5, <2>8, <3>1, <3>2
  <2>10. PICK no : no = None
    OBVIOUS
  <2>11. rel = Ho(no, hc, he)
    BY <2>7, <2>10
  <2>12. InstShape(s) /\ s.host = rel /\ rel.ctx = no
    BY <2>9, <2>11, InstIs
  <2> QED BY <2>10, <2>12
<1>2. CASE ~run.pooled
  BY <1>2 DEF Returned, HostInv, Guest
<1> QED BY <1>1, <1>2

(* A call succeeded exactly when it returned a value and none of its operations was refused. *)
LEMMA SucceededIs ==
    ASSUME HostInv, run # NoRun, NEW exit
    PROVE  Succeeded(exit) <=> exit = "value" /\ ~own.bad
<1>1. RunShape(run) /\ (run.kind = "native" => own.bad = FALSE) /\ own.bad \in BOOLEAN
  BY RunningState DEF HistShape
<1>2. CASE run.kind = "native"
  BY <1>1, <1>2 DEF Succeeded
<1>3. CASE run.kind = "wasm"
  <2>1. run.inst.host.error # None <=> own.bad
    BY <1>3 DEF HostInv, Guest, GuestOf
  <2> QED BY <1>3, <2>1 DEF Succeeded
<1>4. run.kind = "native" \/ run.kind = "wasm"
  BY <1>1 DEF RunShape
<1> QED BY <1>2, <1>3, <1>4

LEMMA EndCallInv ==
    ASSUME HostInv, NEW exit, EndCall(exit) PROVE HostInv'
<1>1. run # NoRun
  <2>1. exit \in Exits
    BY DEF EndCall
  <2> QED BY <2>1, NotNothing DEF Exits
<1>2. /\ tick # NoTick /\ TickShape(tick) /\ RunShape(run) /\ HistShape(own) /\ HistShape(good)
      /\ tick.writes = own.writes /\ tick.events \o run.events = own.events
  BY <1>1, RunningState DEF HostInv, Types
<1>3. run' = NoRun /\ own' = Nothing /\ issued' = issued
  BY DEF EndCall
<1>4. slot' # NoSlot => InstShape(slot') /\ slot'.host.ctx = None
  <2>1. PICK s : s = slot'
    OBVIOUS
  <2>2. s = Returned(run.inst)
    BY <2>1 DEF EndCall
  <2> QED BY <1>1, <2>1, <2>2, ReturnedSlot
<1>5. PICK ok \in BOOLEAN : ok = Succeeded(exit)
  BY DEF Succeeded
<1>6. ok <=> exit = "value" /\ ~own.bad
  BY <1>1, <1>5, SucceededIs
<1>7. CASE ok /\ ~tick.alone /\ Len(tick.events \o run.events) > MaxEvents
  <2>1. TickFails
    BY <1>5, <1>7 DEF EndCall
  <2>2. tick' = NoTick /\ good' = Nothing /\ queue' \in [World -> Seq(Req)]
    BY <1>2, <2>1, TickFailsTypes
  <2> QED BY <1>3, <1>4, <2>2, TickEnds
<1>8. CASE ~(ok /\ ~tick.alone /\ Len(tick.events \o run.events) > MaxEvents)
  <2>1. PICK x, z, q : /\ x = WritesAfter(ok) /\ z = (IF ok THEN tick.events \o run.events ELSE tick.events)
                       /\ q = Result(ok)
    OBVIOUS
  <2>2. /\ tick' = [tick EXCEPT !.writes = x, !.events = z, !.results = q]
        /\ good' = IF exit = "value" /\ ~own.bad THEN [own EXCEPT !.ops = 0] ELSE good
        /\ UNCHANGED queue
    BY <1>5, <1>8, <2>1 DEF EndCall
  <2>3. Left /\ Next1.id = run.call
    BY <1>1, <1>2 DEF HostInv, Busy, Left
  <2>4. z \in Seq(Nat)
    <3>1. tick.events \in Seq(Nat) /\ own.events \in Seq(Nat)
      BY <1>2 DEF TickShape, HistShape
    <3> QED BY <1>2, <2>1, <3>1
  <2>5. tick' = Tk(tick.world, tick.batch, tick.alone, x, z, Result(ok))
    <3>1. PICK w, b, a, y, e, rs : /\ w = tick.world /\ b = tick.batch /\ a = tick.alone
                                   /\ y = tick.writes /\ e = tick.events /\ rs = tick.results
      OBVIOUS
    <3>2. PICK t, t2 : t = tick /\ t2 = tick'
      OBVIOUS
    <3>3. t = Tk(w, b, a, y, e, rs)
      BY <1>2, <3>1, <3>2 DEF TickShape
    <3>4. t2 = Called(t, x, z, q)
      BY <2>2, <3>2 DEF Called
    <3>5. Called(t, x, z, q) = Tk(w, b, a, x, z, q)
      BY <3>3, TkCall
    <3> QED BY <2>1, <3>1, <3>2, <3>4, <3>5
  <2>6. good.ops = 0 /\ good.bad = FALSE /\ Succ(tick.results) = good.calls /\ tick.events = good.events
    BY <1>2 DEF HostInv, Idle
  <2>7. run.saved = good.writes /\ own.calls = good.calls \cup {run.call}
    BY <1>1 DEF HostInv, Busy
  <2>8. PICK g : g = good'
    OBVIOUS
  <2>9. /\ HistShape(g) /\ g.ops = 0 /\ g.bad = FALSE /\ g.writes = x /\ g.events = z
        /\ g.calls = IF ok THEN Succ(tick.results) \cup {Next1.id} ELSE Succ(tick.results)
    <3>1. CASE ok
      <4>1. g = [own EXCEPT !.ops = 0] /\ own.bad = FALSE
        <5>1. exit = "value" /\ ~own.bad
          BY <1>6, <3>1
        <5>2. own.bad \in BOOLEAN
          BY <1>2 DEF HistShape
        <5> QED BY <5>1, <5>2, <2>2, <2>8
      <4>2a. PICK oe \in Seq(Nat) : oe = own.events
        BY <1>2 DEF HistShape
      <4>2b. PICK oc, ow, oo : oc = own.calls /\ ow = own.writes /\ oo = own.ops
        OBVIOUS
      <4>2. oc = own.calls /\ ow = own.writes /\ oe = own.events /\ oo = own.ops
        BY <4>2a, <4>2b
      <4>3. PICK zero \in Nat, no \in BOOLEAN : zero = 0 /\ no = FALSE
        OBVIOUS
      <4>4. PICK o : o = own
        OBVIOUS
      <4>5. o = Ow(oc, ow, oe, oo, no)
        BY <1>2, <4>1, <4>2, <4>3, <4>4 DEF HistShape
      <4>6. g = [o EXCEPT !.ops = zero]
        BY <4>1, <4>3, <4>4
      <4>7. g = Ow(oc, ow, oe, zero, no)
        BY ONLY <4>5, <4>6 DEF Ow
      <4>8. HistShape(g) /\ g.calls = oc /\ g.writes = ow /\ g.events = oe /\ g.ops = zero /\ g.bad = no
        BY <4>7, HistIs
      <4>9. x = ow /\ z = oe
        BY <1>2, <2>1, <3>1, <4>2 DEF WritesAfter
      <4> QED BY <2>3, <2>6, <2>7, <3>1, <4>2, <4>3, <4>8, <4>9
    <3>2. CASE ~ok
      <4>1. g = good
        BY <1>6, <2>2, <2>8, <3>2
      <4>2. x = good.writes /\ z = good.events
        BY <2>1, <2>6, <2>7, <3>2 DEF WritesAfter
      <4> QED BY <1>2, <2>6, <3>2, <4>1, <4>2
    <3> QED BY <3>1, <3>2
  <2>10. UNCHANGED <<queue, issued>> /\ good' = g /\ run' = NoRun /\ own' = Nothing
    BY <1>3, <2>2, <2>8
  <2> QED BY <1>4, <2>3, <2>4, <2>5, <2>9, <2>10, ResultIsRecorded
<1> QED BY <1>7, <1>8

LEMMA CommitTickInv ==
    ASSUME HostInv, CommitTick PROVE HostInv'
<1>1. tick # NoTick /\ run = NoRun /\ UNCHANGED <<slot, run, issued, own>>
  BY DEF CommitTick
<1>2. own = Nothing
  BY <1>1 DEF HostInv, Idle
<1>3. tick' = NoTick /\ good' = Nothing /\ queue' \in [World -> Seq(Req)]
  <2>1. CASE CommitValid(db[tick.world], tick.writes)
    BY <2>1 DEF CommitTick, HostInv, Types
  <2>2. CASE ~CommitValid(db[tick.world], tick.writes)
    <3>1. TickFails
      BY <2>2 DEF CommitTick
    <3> QED BY <3>1, <1>1, TickFailsTypes
  <2> QED BY <2>1, <2>2
<1> QED BY <1>1, <1>2, <1>3, TickEnds DEF HostInv, Guest

LEMMA FinishInvocationInv ==
    ASSUME HostInv, FinishInvocation PROVE HostInv'
<1>1. run = NoRun /\ UNCHANGED <<slot, queue, run, issued, own>> /\ tick' = NoTick /\ good' = Nothing
  BY DEF FinishInvocation
<1>2. own = Nothing
  BY <1>1 DEF HostInv, Idle
<1> QED BY <1>1, <1>2, TickEnds DEF HostInv, Guest, Types

-----------------------------------------------------------------------------
(* The invariant, and what follows from it.                                *)

LEMMA HostInvStep ==
    ASSUME HostInv, [HostNext]_hostVars PROVE HostInv'
<1>1. CASE Setup
  BY <1>1, SetupInv
<1>2. CASE \E w \in World, n \in Name : Submit(w, n) \/ Invoke(w, n)
  BY <1>2, SubmitInv, InvokeInv
<1>3. CASE \E w \in World : BeginTick(w)
  BY <1>3, BeginTickInv
<1>4. CASE CallNative
  BY <1>4, CallNativeInv
<1>5. CASE CallUnknown
  BY <1>5, CallUnknownInv
<1>6. CASE \E fit \in BOOLEAN : CallWasm(fit)
  BY <1>6, CallWasmInv
<1>7. CASE \E op \in NativeOp : NativeCalls(op)
  BY <1>7, NativeCallsInv
<1>8. CASE \E op \in GuestOp : GuestCalls(op)
  BY <1>8, GuestCallsInv
<1>9. CASE GuestComputes
  BY <1>9, GuestComputesInv
<1>10. CASE \E exit \in Exits : EndCall(exit)
  BY <1>10, EndCallInv
<1>11. CASE CommitTick
  BY <1>11, CommitTickInv
<1>12. CASE FinishInvocation
  BY <1>12, FinishInvocationInv
<1>13. CASE UNCHANGED hostVars
  BY <1>13, SameInv DEF hostVars, HostInv, Types
<1> QED
  BY <1>1, <1>2, <1>3, <1>4, <1>5, <1>6, <1>7, <1>8, <1>9, <1>10, <1>11, <1>12, <1>13
     DEF HostNext, GuestStep

LEMMA HostInvAlways == HostSpec => []HostInv
<1>1. HostInit => HostInv
  BY HostInvInitially
<1>2. HostInv /\ [HostNext]_hostVars => HostInv'
  BY HostInvStep
<1> QED BY <1>1, <1>2, PTL DEF HostSpec

(* Between the calls of a tick, the transaction, the events and the        *)
(* results are those of the calls that returned a value and met no failed  *)
(* operation; during a call, what it did so far is added to them           *)
(* (rollback in tick_with_calls, the sticky ABI error, take_events).       *)
THEOREM CallsActAsAWhole == HostSpec => []CallsAreAtomic
<1>1. HostInv => CallsAreAtomic
  <2> SUFFICES ASSUME HostInv, tick # NoTick
               PROVE  IF run = NoRun
                      THEN /\ tick.writes = good.writes /\ tick.events = good.events
                           /\ {r.call : r \in {q \in Range(tick.results) : q.ok}} = good.calls
                      ELSE tick.writes = own.writes /\ tick.events \o run.events = own.events
    BY DEF CallsAreAtomic
  <2>1. CASE run = NoRun
    BY <2>1 DEF HostInv, Idle, Succ
  <2>2. CASE run # NoRun
    BY <2>2 DEF HostInv, Busy
  <2> QED BY <2>1, <2>2
<1> QED BY <1>1, HostInvAlways, PTL

-----------------------------------------------------------------------------
(* Answers.  Every call is in one place: a queue, the batch, or answered.  *)

Distinct(s) == \A i, j \in DOMAIN s : s[i].id = s[j].id => i = j
IdsOf(s) == {s[i].id : i \in DOMAIN s}

QueueIds ==
    /\ \A w \in World : /\ Distinct(queue[w]) /\ IdsOf(queue[w]) \subseteq 1..issued
                        /\ IdsOf(queue[w]) \cap DOMAIN answers = {}
    /\ \A v, w \in World : v # w => IdsOf(queue[v]) \cap IdsOf(queue[w]) = {}

BatchIds ==
    tick # NoTick =>
        /\ Distinct(tick.batch) /\ IdsOf(tick.batch) \subseteq 1..issued
        /\ IdsOf(tick.batch) \cap DOMAIN answers = {}
        /\ \A w \in World : IdsOf(tick.batch) \cap IdsOf(queue[w]) = {}

(* Results are those of the batch, in its order. *)
ResultsInOrder ==
    tick # NoTick =>
        /\ \A i \in DOMAIN tick.results : tick.results[i].call = tick.batch[i].id
        /\ tick.alone => Len(tick.batch) = 1

TablesAre(d) == d = [w \in World |-> [r \in Row |-> d[w][r]]]
Tables == TablesAre(db)

AnswerInv ==
    /\ DOMAIN answers \subseteq 1..issued
    /\ QueueIds /\ BatchIds /\ ResultsInOrder /\ Tables
    /\ good.calls = {} => good.writes = NoWrites

LEMMA IdsOfAppend ==
    ASSUME NEW s \in Seq(Req), NEW m \in Req
    PROVE  /\ IdsOf(Append(s, m)) = IdsOf(s) \cup {m.id}
           /\ Distinct(s) /\ m.id \notin IdsOf(s) => Distinct(Append(s, m))
<1>1. PICK t : t = Append(s, m)
  OBVIOUS
<1>2. PICK n \in Nat : n = Len(s)
  OBVIOUS
<1>3. DOMAIN s = 1..n /\ DOMAIN t = 1..(n + 1) /\ t[n + 1] = m /\ \A i \in 1..n : t[i] = s[i]
  BY <1>1, <1>2
<1>4. 1..(n + 1) = 1..n \cup {n + 1} /\ n + 1 \notin 1..n
  OBVIOUS
<1>5. IdsOf(t) = IdsOf(s) \cup {m.id}
  BY <1>3, <1>4 DEF IdsOf
<1>6. ASSUME Distinct(s), m.id \notin IdsOf(s) PROVE Distinct(t)
  BY <1>3, <1>4, <1>6 DEF Distinct, IdsOf
<1> QED BY <1>1, <1>5, <1>6

LEMMA IdsOfConcat ==
    ASSUME NEW s \in Seq(Req), NEW t \in Seq(Req)
    PROVE  /\ IdsOf(s \o t) = IdsOf(s) \cup IdsOf(t)
           /\ Distinct(s) /\ Distinct(t) /\ IdsOf(s) \cap IdsOf(t) = {} => Distinct(s \o t)
<1>1. PICK u : u = s \o t
  OBVIOUS
<1>2. PICK m \in Nat, n \in Nat : m = Len(s) /\ n = Len(t)
  OBVIOUS
<1>3. /\ DOMAIN s = 1..m /\ DOMAIN t = 1..n /\ DOMAIN u = 1..(m + n)
      /\ \A i \in 1..m : u[i] = s[i]
      /\ \A i \in (m + 1)..(m + n) : u[i] = t[i - m]
  BY <1>1, <1>2
<1>4. \A i \in 1..(m + n) : i \in 1..m \/ (i \in (m + 1)..(m + n) /\ i - m \in 1..n)
  OBVIOUS
<1>5. \A j \in 1..n : j + m \in (m + 1)..(m + n) /\ (j + m) - m = j /\ j + m \in 1..(m + n)
  OBVIOUS
<1>6. \A j \in 1..n : j + m \in DOMAIN u /\ u[j + m] = t[j]
  BY <1>3, <1>5
<1>7. \A i \in 1..m : i \in 1..(m + n)
  OBVIOUS
<1>8. IdsOf(u) \subseteq IdsOf(s) \cup IdsOf(t)
  BY <1>3, <1>4 DEF IdsOf
<1>9. IdsOf(s) \cup IdsOf(t) \subseteq IdsOf(u)
  BY <1>3, <1>6, <1>7 DEF IdsOf
<1>10. ASSUME Distinct(s), Distinct(t), IdsOf(s) \cap IdsOf(t) = {} PROVE Distinct(u)
  <2> SUFFICES ASSUME NEW i \in 1..(m + n), NEW j \in 1..(m + n), u[i].id = u[j].id PROVE i = j
    BY <1>3 DEF Distinct
  <2>1. CASE i \in 1..m /\ j \in 1..m
    BY <1>3, <1>10, <2>1 DEF Distinct
  <2>2. CASE i \in (m + 1)..(m + n) /\ j \in (m + 1)..(m + n)
    <3>1. i - m \in 1..n /\ j - m \in 1..n
      BY <2>2
    <3>2. t[i - m].id = t[j - m].id
      BY <1>3, <2>2
    <3>3. i - m = j - m
      BY <1>3, <1>10, <3>1, <3>2 DEF Distinct
    <3> QED BY <3>3
  <2>3. CASE i \in 1..m /\ j \in (m + 1)..(m + n)
    <3>1. u[i] = s[i] /\ i \in DOMAIN s
      BY <1>3, <2>3
    <3>2. u[j] = t[j - m] /\ j - m \in DOMAIN t
      BY <1>3, <2>3
    <3>3. u[i].id \in IdsOf(s) /\ u[j].id \in IdsOf(t)
      BY <3>1, <3>2 DEF IdsOf
    <3> QED BY <1>10, <3>3
  <2>4. CASE i \in (m + 1)..(m + n) /\ j \in 1..m
    <3>1. u[j] = s[j] /\ j \in DOMAIN s
      BY <1>3, <2>4
    <3>2. u[i] = t[i - m] /\ i - m \in DOMAIN t
      BY <1>3, <2>4
    <3>3. u[j].id \in IdsOf(s) /\ u[i].id \in IdsOf(t)
      BY <3>1, <3>2 DEF IdsOf
    <3> QED BY <1>10, <3>3
  <2> QED BY <1>4, <2>1, <2>2, <2>3, <2>4
<1> QED BY <1>1, <1>8, <1>9, <1>10

(* A queue splits into the batch and the rest. *)
Splits(s, a, b) ==
    /\ Distinct(a) /\ Distinct(b)
    /\ IdsOf(a) \subseteq IdsOf(s) /\ IdsOf(b) \subseteq IdsOf(s)
    /\ IdsOf(a) \cap IdsOf(b) = {}

LEMMA IdsOfSplit ==
    ASSUME NEW s \in Seq(Req), Distinct(s), NEW n \in Nat, n <= Len(s)
    PROVE  Splits(s, SubSeq(s, 1, n), SubSeq(s, n + 1, Len(s)))
<1>0. PICK a, b : a = SubSeq(s, 1, n) /\ b = SubSeq(s, n + 1, Len(s))
  OBVIOUS
<1>1. PICK l \in Nat : l = Len(s)
  OBVIOUS
<1>2. DOMAIN s = 1..l /\ n <= l
  BY <1>1
<1>3. DOMAIN a = 1..n /\ \A i \in 1..n : a[i] = s[i]
  <2>1. 1 \in 1..(Len(s) + 1) /\ n \in (1 - 1)..Len(s)
    OBVIOUS
  <2>2. a \in Seq(Req) /\ Len(a) = n /\ \A i \in 1..n : a[i] = s[i]
    BY <1>0, <2>1, SubSeqProperties
  <2> QED BY <2>2
<1>4. DOMAIN b = 1..(l - n) /\ \A i \in 1..(l - n) : b[i] = s[n + i]
  <2>1. n + 1 \in 1..(Len(s) + 1) /\ Len(s) \in ((n + 1) - 1)..Len(s)
    OBVIOUS
  <2>2. /\ b \in Seq(Req) /\ Len(b) = Len(s) - (n + 1) + 1
        /\ \A i \in 1..(Len(s) - (n + 1) + 1) : b[i] = s[(n + 1) + i - 1]
    BY <1>0, <2>1, SubSeqProperties
  <2>3. Len(s) - (n + 1) + 1 = l - n
    BY <1>1
  <2>4. \A i \in 1..(l - n) : (n + 1) + i - 1 = n + i
    OBVIOUS
  <2> QED BY <2>2, <2>3, <2>4
<1>5. \A i \in 1..n : i \in 1..l
  BY <1>2
<1>6. \A i \in 1..(l - n) : n + i \in 1..l /\ n + i \notin 1..n
  BY <1>2
<1>7. Distinct(a) /\ IdsOf(a) \subseteq IdsOf(s)
  BY <1>2, <1>3, <1>5 DEF Distinct, IdsOf
<1>8. IdsOf(b) \subseteq IdsOf(s)
  BY <1>2, <1>4, <1>6 DEF IdsOf
<1>9. Distinct(b)
  <2> SUFFICES ASSUME NEW i \in 1..(l - n), NEW j \in 1..(l - n), b[i].id = b[j].id PROVE i = j
    BY <1>4 DEF Distinct
  <2>1. s[n + i].id = s[n + j].id /\ n + i \in DOMAIN s /\ n + j \in DOMAIN s
    BY <1>2, <1>4, <1>6
  <2>2. n + i = n + j
    BY <2>1 DEF Distinct
  <2> QED BY <2>2
<1>10. IdsOf(a) \cap IdsOf(b) = {}
  <2> SUFFICES ASSUME NEW x \in IdsOf(a), x \in IdsOf(b) PROVE FALSE
    OBVIOUS
  <2>2. PICK i \in 1..n : x = a[i].id
    BY <1>3 DEF IdsOf
  <2>3. PICK j \in 1..(l - n) : x = b[j].id
    BY <1>4 DEF IdsOf
  <2>1. s[i].id = s[n + j].id /\ i \in DOMAIN s /\ n + j \in DOMAIN s /\ i # n + j
    BY <1>2, <1>3, <1>4, <1>5, <1>6, <2>2, <2>3
  <2> QED BY <2>1 DEF Distinct
<1> QED BY <1>0, <1>7, <1>8, <1>9, <1>10 DEF Splits

(* Steps that leave the calls where they are. *)
LEMMA SameAnswers ==
    ASSUME AnswerInv, UNCHANGED <<queue, answers, issued, db>>,
           tick' = NoTick \/ (/\ tick # NoTick /\ tick'.batch = tick.batch /\ tick'.alone = tick.alone
                              /\ tick'.results = tick.results) \/ tick' = tick,
           good' = good \/ good'.writes = NoWrites
    PROVE  AnswerInv'
<1>1. QueueIds'
  BY DEF AnswerInv, QueueIds
<1>2. BatchIds'
  BY DEF AnswerInv, BatchIds
<1>3. ResultsInOrder'
  BY DEF AnswerInv, ResultsInOrder
<1>4. Tables'
  BY DEF AnswerInv, Tables
<1> QED BY <1>1, <1>2, <1>3, <1>4 DEF AnswerInv

LEMMA FreshId ==
    ASSUME HostInv, AnswerInv
    PROVE  /\ issued \in Nat /\ issued + 1 \in Nat /\ issued + 1 \notin 1..issued
           /\ 1..issued \subseteq 1..(issued + 1) /\ issued + 1 \in 1..(issued + 1)
BY DEF HostInv, Types

LEMMA SubmitAnswers ==
    ASSUME HostInv, AnswerInv, NEW w \in World, NEW n \in Name, Submit(w, n) PROVE AnswerInv'
<1>1. /\ issued \in Nat /\ issued + 1 \in Nat /\ issued + 1 \notin 1..issued
      /\ 1..issued \subseteq 1..(issued + 1) /\ issued + 1 \in 1..(issued + 1)
  BY FreshId
<1>2. PICK k \in Nat : k = issued + 1
  BY <1>1
<1>3. PICK m \in Req : m = [id |-> k, name |-> n]
  BY DEF Req
<1>4. m.id = k
  BY <1>3
<1>5. PICK q \in Seq(Req) : q = queue[w]
  BY DEF HostInv, Types
<1>6. PICK q2 : q2 = Append(q, m)
  OBVIOUS
<1>7. /\ tick = NoTick /\ tick' = NoTick /\ issued' = k /\ queue' = [queue EXCEPT ![w] = q2]
      /\ UNCHANGED <<answers, db, good>>
  BY <1>2, <1>3, <1>5, <1>6 DEF Submit
<1>8. /\ Distinct(q) /\ IdsOf(q) \subseteq 1..issued /\ IdsOf(q) \cap DOMAIN answers = {}
      /\ DOMAIN answers \subseteq 1..issued
  BY <1>5 DEF AnswerInv, QueueIds
<1>9. IdsOf(q2) = IdsOf(q) \cup {k} /\ Distinct(q2)
  BY <1>1, <1>2, <1>4, <1>6, <1>8, IdsOfAppend
<1>10. queue'[w] = q2 /\ \A v \in World : v # w => queue'[v] = queue[v]
  BY <1>7 DEF HostInv, Types
<1>11. QueueIds'
  <2>1. ASSUME NEW v \in World
        PROVE  /\ Distinct(queue'[v]) /\ IdsOf(queue'[v]) \subseteq 1..k
               /\ IdsOf(queue'[v]) \cap DOMAIN answers = {}
    <3>1. CASE v = w
      <4>1. IdsOf(q2) \subseteq 1..k /\ IdsOf(q2) \cap DOMAIN answers = {}
        BY <1>1, <1>2, <1>8, <1>9
      <4> QED BY <3>1, <4>1, <1>9, <1>10
    <3>2. CASE v # w
      BY <1>1, <1>2, <1>10, <3>2 DEF AnswerInv, QueueIds
    <3> QED BY <3>1, <3>2
  <2>2. \A v \in World : v # w => IdsOf(queue[v]) \cap IdsOf(q2) = {}
    BY <1>1, <1>2, <1>5, <1>9 DEF AnswerInv, QueueIds
  <2>3. ASSUME NEW u \in World, NEW v \in World, u # v
        PROVE  IdsOf(queue'[u]) \cap IdsOf(queue'[v]) = {}
    <3>1. CASE u = w
      BY <3>1, <2>2, <2>3, <1>10
    <3>2. CASE v = w
      BY <3>2, <2>2, <2>3, <1>10
    <3>3. CASE u # w /\ v # w
      BY <3>3, <2>3, <1>10 DEF AnswerInv, QueueIds
    <3> QED BY <3>1, <3>2, <3>3
  <2> QED BY <2>1, <2>3, <1>7 DEF QueueIds
<1>12. BatchIds' /\ ResultsInOrder'
  BY <1>7 DEF BatchIds, ResultsInOrder
<1>13. Tables'
  BY <1>7 DEF AnswerInv, Tables
<1>14. (DOMAIN answers)' \subseteq 1..issued'
  BY <1>1, <1>2, <1>7, <1>8
<1> QED BY <1>7, <1>11, <1>12, <1>13, <1>14 DEF AnswerInv

(* The other queues, when one of them changes. *)
LEMMA OtherQueues ==
    ASSUME HostInv, AnswerInv, NEW w \in World, NEW q2, queue' = [queue EXCEPT ![w] = q2],
           UNCHANGED <<answers, issued>>, Distinct(q2), IdsOf(q2) \subseteq 1..issued,
           IdsOf(q2) \cap DOMAIN answers = {},
           \A v \in World : v # w => IdsOf(queue[v]) \cap IdsOf(q2) = {}
    PROVE  QueueIds'
<1>1. queue'[w] = q2 /\ \A v \in World : v # w => queue'[v] = queue[v]
  BY DEF HostInv, Types
<1>2. ASSUME NEW v \in World
      PROVE  /\ Distinct(queue'[v]) /\ IdsOf(queue'[v]) \subseteq 1..issued
             /\ IdsOf(queue'[v]) \cap DOMAIN answers = {}
  <2>1. CASE v = w
    BY <1>1, <2>1
  <2>2. CASE v # w
    BY <1>1, <2>2 DEF AnswerInv, QueueIds
  <2> QED BY <2>1, <2>2
<1>3. ASSUME NEW u \in World, NEW v \in World, u # v
      PROVE  IdsOf(queue'[u]) \cap IdsOf(queue'[v]) = {}
  <2>1. CASE u = w
    BY <2>1, <1>1, <1>3
  <2>2. CASE v = w
    BY <2>2, <1>1, <1>3
  <2>3. CASE u # w /\ v # w
    BY <2>3, <1>1, <1>3 DEF AnswerInv, QueueIds
  <2> QED BY <2>1, <2>2, <2>3
<1> QED BY <1>2, <1>3 DEF QueueIds

LEMMA BeginTickAnswers ==
    ASSUME HostInv, AnswerInv, NEW w \in World, BeginTick(w) PROVE AnswerInv'
<1>1. PICK q \in Seq(Req) : q = queue[w]
  BY DEF HostInv, Types
<1>2. PICK n \in Nat : n = IF Len(q) < PerTick THEN Len(q) ELSE PerTick
  BY HostAssumption
<1>3. n <= Len(q)
  BY <1>2, HostAssumption
<1>4. PICK b, q2 : b = SubSeq(q, 1, n) /\ q2 = SubSeq(q, n + 1, Len(q))
  OBVIOUS
<1>5. /\ tick' = NewTick(w, b, FALSE) /\ queue' = [queue EXCEPT ![w] = q2]
      /\ UNCHANGED <<answers, db, good, issued>>
  BY <1>1, <1>2, <1>4 DEF BeginTick
<1>6. tick'.batch = b /\ tick'.alone = FALSE /\ tick'.results = <<>>
  BY <1>5 DEF NewTick
<1>7. /\ Distinct(q) /\ IdsOf(q) \subseteq 1..issued /\ IdsOf(q) \cap DOMAIN answers = {}
      /\ \A v \in World : v # w => IdsOf(queue[v]) \cap IdsOf(q) = {}
  BY <1>1 DEF AnswerInv, QueueIds
<1>8. /\ Distinct(b) /\ Distinct(q2) /\ IdsOf(b) \subseteq IdsOf(q) /\ IdsOf(q2) \subseteq IdsOf(q)
      /\ IdsOf(b) \cap IdsOf(q2) = {}
  <2>1. Splits(q, SubSeq(q, 1, n), SubSeq(q, n + 1, Len(q)))
    BY <1>3, <1>7, IdsOfSplit
  <2> QED BY <1>4, <2>1 DEF Splits
<1>9. QueueIds'
  <2>1. IdsOf(q2) \subseteq 1..issued /\ IdsOf(q2) \cap DOMAIN answers = {}
    BY <1>7, <1>8
  <2>2. \A v \in World : v # w => IdsOf(queue[v]) \cap IdsOf(q2) = {}
    BY <1>7, <1>8
  <2> QED BY <1>5, <1>8, <2>1, <2>2, OtherQueues
<1>10. BatchIds'
  <2>1. queue'[w] = q2 /\ \A v \in World : v # w => queue'[v] = queue[v]
    BY <1>5 DEF HostInv, Types
  <2>2. \A v \in World : IdsOf(b) \cap IdsOf(queue'[v]) = {}
    BY <1>7, <1>8, <2>1
  <2>3. IdsOf(b) \subseteq 1..issued /\ IdsOf(b) \cap DOMAIN answers = {}
    BY <1>7, <1>8
  <2> QED BY <1>5, <1>6, <1>8, <2>2, <2>3 DEF BatchIds
<1>11. ResultsInOrder'
  BY <1>6 DEF ResultsInOrder
<1>12. Tables'
  BY <1>5 DEF AnswerInv, Tables
<1> QED BY <1>5, <1>9, <1>10, <1>11, <1>12 DEF AnswerInv

LEMMA InvokeAnswers ==
    ASSUME HostInv, AnswerInv, NEW w \in World, NEW n \in Name, Invoke(w, n) PROVE AnswerInv'
<1>1. /\ issued \in Nat /\ issued + 1 \in Nat /\ issued + 1 \notin 1..issued
      /\ 1..issued \subseteq 1..(issued + 1) /\ issued + 1 \in 1..(issued + 1)
  BY FreshId
<1>2. PICK k \in Nat : k = issued + 1
  BY <1>1
<1>3. PICK m \in Req : m = [id |-> k, name |-> n]
  BY DEF Req
<1>4. m.id = k
  BY <1>3
<1>5. PICK b : b = <<m>>
  OBVIOUS
<1>6. DOMAIN b = {1} /\ b[1] = m /\ Len(b) = 1
  BY <1>5
<1>7. IdsOf(b) = {k} /\ Distinct(b)
  BY <1>4, <1>6 DEF IdsOf, Distinct
<1>8. issued' = k /\ tick' = NewTick(w, b, TRUE) /\ UNCHANGED <<queue, answers, db, good>>
  BY <1>2, <1>3, <1>5 DEF Invoke
<1>9. tick'.batch = b /\ tick'.results = <<>>
  BY <1>8 DEF NewTick
<1>10. DOMAIN answers \subseteq 1..issued /\ \A v \in World : IdsOf(queue[v]) \subseteq 1..issued
  BY DEF AnswerInv, QueueIds
<1>11. QueueIds'
  BY <1>1, <1>2, <1>8 DEF AnswerInv, QueueIds
<1>12. BatchIds'
  <2>1. k \notin DOMAIN answers /\ \A v \in World : k \notin IdsOf(queue[v])
    BY <1>1, <1>2, <1>10
  <2> QED BY <2>1, <1>1, <1>2, <1>7, <1>8, <1>9 DEF BatchIds
<1>13. ResultsInOrder'
  BY <1>6, <1>9 DEF ResultsInOrder
<1>14. Tables'
  BY <1>8 DEF AnswerInv, Tables
<1> QED BY <1>1, <1>2, <1>8, <1>10, <1>11, <1>12, <1>13, <1>14 DEF AnswerInv

LEMMA DoingAnswers ==
    ASSUME HostInv, AnswerInv, run # NoRun, NEW op, Doing(op), UNCHANGED <<queue, answers, issued, db, good>>
    PROVE  AnswerInv'
<1>1. tick # NoTick /\ tick' = Tk(tick.world, tick.batch, tick.alone, Buffered(tick.writes, op),
                                  tick.events, tick.results)
  BY RunningState, DoingIs
<1>2. tick'.batch = tick.batch /\ tick'.alone = tick.alone /\ tick'.results = tick.results
  BY <1>1 DEF Tk
<1> QED BY <1>1, <1>2, SameAnswers

LEMMA ResultAnswers ==
    ASSUME HostInv, AnswerInv, Left, NEW ok \in BOOLEAN, UNCHANGED <<queue, answers, issued, db>>,
           tick'.batch = tick.batch, tick'.alone = tick.alone, tick'.results = Result(ok),
           good' = good \/ good'.calls # {}
    PROVE  AnswerInv'
<1>1. tick # NoTick /\ TickShape(tick) /\ Next1 \in Req /\ Next1.id \in Nat
  BY NextIsRequest DEF Left, HostInv
<1>2. PICK rs \in Seq(Res) : rs = tick.results
  BY <1>1 DEF TickShape
<1>3. PICK c \in Nat : c = Next1.id
  BY <1>1
<1>4. PICK m \in Res : m = [call |-> c, ok |-> ok]
  BY DEF Res
<1>5. PICK n \in Nat : n = Len(rs)
  OBVIOUS
<1>6. PICK q : q = Append(rs, m)
  OBVIOUS
<1>7. DOMAIN rs = 1..n /\ DOMAIN q = 1..(n + 1) /\ q[n + 1] = m /\ \A i \in 1..n : q[i] = rs[i]
  BY <1>5, <1>6
<1>8. 1..(n + 1) = 1..n \cup {n + 1}
  OBVIOUS
<1>9. tick'.results = q /\ m.call = tick.batch[n + 1].id
  BY <1>2, <1>3, <1>4, <1>5, <1>6 DEF Result, Next1
<1>10. QueueIds'
  BY DEF AnswerInv, QueueIds
<1>11. BatchIds'
  BY <1>1 DEF AnswerInv, BatchIds
<1>12. ResultsInOrder'
  <2>1. \A i \in 1..n : rs[i].call = tick.batch[i].id
    BY <1>1, <1>2, <1>7 DEF AnswerInv, ResultsInOrder
  <2>2. \A i \in DOMAIN q : q[i].call = tick.batch[i].id
    BY <1>7, <1>8, <1>9, <2>1
  <2>3. tick.alone => Len(tick.batch) = 1
    BY <1>1 DEF AnswerInv, ResultsInOrder
  <2> QED BY <1>9, <2>2, <2>3 DEF ResultsInOrder
<1>13. Tables'
  BY DEF AnswerInv, Tables
<1> QED BY <1>10, <1>11, <1>12, <1>13 DEF AnswerInv

LEMMA EndCallIs ==
    ASSUME HostInv, NEW exit, EndCall(exit)
    PROVE  /\ tick # NoTick /\ issued' = issued
           /\ \/ TickFails
              \/ /\ Left /\ UNCHANGED <<db, queue, answers>>
                 /\ tick'.batch = tick.batch /\ tick'.alone = tick.alone
                 /\ \E ok \in BOOLEAN : tick'.results = Result(ok)
                 /\ good' = good \/ good'.calls # {}
<1>1. run # NoRun
  <2>1. exit \in Exits
    BY DEF EndCall
  <2> QED BY <2>1, NotNothing DEF Exits
<1>2. tick # NoTick /\ TickShape(tick) /\ HistShape(own) /\ own.calls = good.calls \cup {run.call}
  BY <1>1, RunningState DEF HostInv, Busy
<1>3. Left
  BY <1>1, <1>2 DEF HostInv, Busy, Left
<1>4. PICK ok \in BOOLEAN : ok = Succeeded(exit)
  BY DEF Succeeded
<1>5. CASE ok /\ ~tick.alone /\ Len(tick.events \o run.events) > MaxEvents
  BY <1>2, <1>4, <1>5 DEF EndCall
<1>6. CASE ~(ok /\ ~tick.alone /\ Len(tick.events \o run.events) > MaxEvents)
  <2>1. PICK x, z, q : /\ x = WritesAfter(ok) /\ z = (IF ok THEN tick.events \o run.events ELSE tick.events)
                       /\ q = Result(ok)
    OBVIOUS
  <2>2. /\ tick' = [tick EXCEPT !.writes = x, !.events = z, !.results = q]
        /\ good' = IF exit = "value" /\ ~own.bad THEN [own EXCEPT !.ops = 0] ELSE good
        /\ UNCHANGED <<db, queue, answers>>
    BY <1>4, <1>6, <2>1 DEF EndCall
  <2>3. tick'.batch = tick.batch /\ tick'.alone = tick.alone /\ tick'.results = q
    <3>1. PICK w, b, a, y, e, rs : /\ w = tick.world /\ b = tick.batch /\ a = tick.alone
                                   /\ y = tick.writes /\ e = tick.events /\ rs = tick.results
      OBVIOUS
    <3>2. PICK t, t2 : t = tick /\ t2 = tick'
      OBVIOUS
    <3>3. t = Tk(w, b, a, y, e, rs)
      BY <1>2, <3>1, <3>2 DEF TickShape
    <3>4. t2 = Called(t, x, z, q)
      BY <2>2, <3>2 DEF Called
    <3>5. Called(t, x, z, q) = Tk(w, b, a, x, z, q)
      BY <3>3, TkCall
    <3>6. t2.batch = b /\ t2.alone = a /\ t2.results = q
      BY <3>4, <3>5, TkFields
    <3> QED BY <3>1, <3>2, <3>6
  <2>4. good' = good \/ good'.calls # {}
    <3>1. PICK g, o : g = [o EXCEPT !.ops = 0] /\ o = own
      OBVIOUS
    <3>2. PICK oc, ow, oe, oo, ob : oc = own.calls /\ ow = own.writes /\ oe = own.events /\ oo = own.ops /\ ob = own.bad
      OBVIOUS
    <3>3. o = Ow(oc, ow, oe, oo, ob)
      BY <1>2, <3>1, <3>2 DEF HistShape
    <3>4. g.calls = oc
      BY ONLY <3>1, <3>3 DEF Ow
    <3>5. g.calls # {}
      BY <1>2, <3>2, <3>4
    <3> QED BY <2>2, <3>1, <3>5
  <2> QED BY <1>2, <1>3, <2>1, <2>2, <2>3, <2>4 DEF EndCall
<1> QED BY <1>5, <1>6

LEMMA TickFailsAnswers ==
    ASSUME HostInv, AnswerInv, tick # NoTick, TickFails, UNCHANGED issued PROVE AnswerInv'
<1>1. TickShape(tick)
  BY DEF HostInv, Types
<1>2. PICK b \in Seq(Req), w \in World : b = tick.batch /\ w = tick.world
  BY <1>1 DEF TickShape
<1>3. PICK q \in Seq(Req) : q = queue[w]
  BY DEF HostInv, Types
<1>4. PICK q2 : q2 = b \o q
  OBVIOUS
<1>5. /\ queue' = [queue EXCEPT ![w] = q2] /\ tick' = NoTick /\ good' = Nothing
      /\ UNCHANGED <<db, answers>>
  BY <1>2, <1>3, <1>4 DEF TickFails
<1>6. /\ Distinct(b) /\ IdsOf(b) \subseteq 1..issued /\ IdsOf(b) \cap DOMAIN answers = {}
      /\ \A v \in World : IdsOf(b) \cap IdsOf(queue[v]) = {}
  BY <1>2 DEF AnswerInv, BatchIds
<1>7. /\ Distinct(q) /\ IdsOf(q) \subseteq 1..issued /\ IdsOf(q) \cap DOMAIN answers = {}
      /\ \A v \in World : v # w => IdsOf(queue[v]) \cap IdsOf(q) = {}
  BY <1>3 DEF AnswerInv, QueueIds
<1>8. IdsOf(q2) = IdsOf(b) \cup IdsOf(q) /\ Distinct(q2)
  <2>1. IdsOf(b) \cap IdsOf(q) = {}
    BY <1>3, <1>6
  <2> QED BY <1>4, <1>6, <1>7, <2>1, IdsOfConcat
<1>9. QueueIds'
  <2>1. IdsOf(q2) \subseteq 1..issued /\ IdsOf(q2) \cap DOMAIN answers = {}
    BY <1>6, <1>7, <1>8
  <2>2. \A v \in World : v # w => IdsOf(queue[v]) \cap IdsOf(q2) = {}
    BY <1>6, <1>7, <1>8
  <2> QED BY <1>5, <1>8, <2>1, <2>2, OtherQueues
<1>10. BatchIds' /\ ResultsInOrder'
  BY <1>5 DEF BatchIds, ResultsInOrder
<1>11. Tables'
  BY <1>5 DEF AnswerInv, Tables
<1> QED BY <1>5, <1>9, <1>10, <1>11, NothingFields DEF AnswerInv

LEMMA AnsweredAnswers ==
    ASSUME HostInv, AnswerInv, tick # NoTick, tick' = NoTick, good' = Nothing,
           UNCHANGED <<queue, issued>>, Tables',
           DOMAIN answers' \subseteq DOMAIN answers \cup IdsOf(tick.batch)
    PROVE  AnswerInv'
<1>1. /\ IdsOf(tick.batch) \subseteq 1..issued
      /\ \A w \in World : IdsOf(tick.batch) \cap IdsOf(queue[w]) = {}
  BY DEF AnswerInv, BatchIds
<1>2. QueueIds'
  BY <1>1 DEF AnswerInv, QueueIds
<1>3. BatchIds' /\ ResultsInOrder'
  BY DEF BatchIds, ResultsInOrder
<1> QED BY <1>1, <1>2, <1>3, NothingFields DEF AnswerInv

(* What the results of a tick answer. *)
LEMMA AnswersOfResults ==
    ASSUME NEW rs \in Seq(Res)
    PROVE  /\ DOMAIN Answers(rs) = {rs[i].call : i \in DOMAIN rs}
           /\ Succ(rs) \subseteq DOMAIN Answers(rs)
           /\ \A c \in DOMAIN Answers(rs) : Answers(rs)[c] <=> c \in Succ(rs)
<1>1. DOMAIN Answers(rs) = {rs[i].call : i \in DOMAIN rs}
  BY DEF Answers
<1>2. \A i \in DOMAIN rs : rs[i] \in Res
  OBVIOUS
<1>3. \A q \in Res : q.ok \in BOOLEAN /\ q = [call |-> q.call, ok |-> q.ok]
  BY DEF Res
<1>4. Succ(rs) = {rs[i].call : i \in {j \in DOMAIN rs : rs[j].ok}}
  BY DEF Succ, Range
<1>5. ASSUME NEW c \in DOMAIN Answers(rs) PROVE Answers(rs)[c] <=> c \in Succ(rs)
  <2>1. Answers(rs)[c] <=> \E i \in DOMAIN rs : rs[i] = [call |-> c, ok |-> TRUE]
    BY <1>1, <1>5 DEF Answers
  <2>2. ASSUME NEW i \in DOMAIN rs, rs[i] = [call |-> c, ok |-> TRUE] PROVE c \in Succ(rs)
    BY <1>4, <2>2
  <2>3. ASSUME c \in Succ(rs) PROVE \E i \in DOMAIN rs : rs[i] = [call |-> c, ok |-> TRUE]
    <3>1. PICK i \in DOMAIN rs : rs[i].ok /\ rs[i].call = c
      BY <1>4, <2>3
    <3>2. PICK q \in Res : q = rs[i]
      BY <1>2
    <3>3. q.ok = TRUE /\ q.call = c /\ q = [call |-> q.call, ok |-> q.ok]
      BY <3>1, <3>2, <1>3
    <3> QED BY <3>2, <3>3
  <2> QED BY <2>1, <2>2, <2>3
<1> QED BY <1>1, <1>4, <1>5

(* A transaction without writes commits the table as it is. *)
LEMMA CommittedTable ==
    ASSUME NEW t, NEW ws PROVE Committed(t, ws) = [r \in Row |-> Committed(t, ws)[r]]
BY DEF Committed

LEMMA NothingCommitted ==
    ASSUME NEW t, t = [r \in Row |-> t[r]] PROVE Committed(t, NoWrites) = t
<1>1. NoWrites.inserts = <<>> /\ \A r \in Row : NoWrites.rows[r] = Keep
  BY DEF NoWrites
<1>2. PICK at : at = InsertedAt(t, NoWrites)
  OBVIOUS
<1>3. DOMAIN at = {}
  BY <1>1, <1>2 DEF InsertedAt
<1>4. \A r \in Row : Committed(t, NoWrites)[r] = t[r]
  BY <1>1, <1>2, <1>3 DEF Committed, View
<1>5. PICK u : u = Committed(t, NoWrites)
  OBVIOUS
<1>6. u = [r \in Row |-> u[r]] /\ \A r \in Row : u[r] = t[r]
  BY <1>4, <1>5, CommittedTable
<1> QED BY <1>5, <1>6

LEMMA CommittedTables ==
    ASSUME AnswerInv, NEW w \in World, NEW ws, NEW d, d = [db EXCEPT ![w] = Committed(db[w], ws)]
    PROVE  /\ TablesAre(d)
           /\ d[w] = Committed(db[w], ws)
           /\ ws = NoWrites => d = db
<1>1. db = [v \in World |-> db[v]] /\ \A v \in World : db[v] = [r \in Row |-> db[v][r]]
  BY DEF AnswerInv, Tables, TablesAre
<1>2. DOMAIN db = World /\ d[w] = Committed(db[w], ws) /\ \A v \in World : v # w => d[v] = db[v]
  BY <1>1
<1>3. d = [v \in World |-> d[v]]
  BY <1>2
<1>4. \A v \in World : d[v] = [r \in Row |-> d[v][r]]
  <2> TAKE v \in World
  <2>1. CASE v = w
    <3>1. PICK c : c = Committed(db[w], ws)
      OBVIOUS
    <3>2. c = [r \in Row |-> c[r]]
      BY <3>1, CommittedTable
    <3> QED BY <2>1, <3>1, <3>2, <1>2
  <2>2. CASE v # w
    BY <2>2, <1>1, <1>2
  <2> QED BY <2>1, <2>2
<1>5. d = [v \in World |-> [r \in Row |-> d[v][r]]]
  BY <1>3, <1>4
<1>6. ASSUME ws = NoWrites PROVE d = db
  <2>1. PICK t : t = db[w]
    OBVIOUS
  <2>2. t = [r \in Row |-> t[r]]
    BY <1>1, <2>1
  <2>3. Committed(t, NoWrites) = t
    BY <2>2, NothingCommitted
  <2>4. \A v \in World : d[v] = db[v]
    BY <1>2, <1>6, <2>1, <2>3
  <2> QED BY <1>1, <1>3, <2>4
<1> QED BY <1>2, <1>5, <1>6 DEF TablesAre

(* The calls that a commit answers are new. *)
LEMMA AnswersAreNew ==
    ASSUME AnswerInv, tick # NoTick, NEW a, DOMAIN a \subseteq IdsOf(tick.batch), answers' = Answered(a)
    PROVE  /\ DOMAIN answers' = DOMAIN answers \cup DOMAIN a
           /\ NewlyOk = {c \in DOMAIN a : a[c]}
<1>1. IdsOf(tick.batch) \cap DOMAIN answers = {}
  BY DEF AnswerInv, BatchIds
<1>2. answers' = [c \in DOMAIN answers \cup DOMAIN a |-> IF c \in DOMAIN answers THEN answers[c] ELSE a[c]]
  BY DEF Answered
<1>3. DOMAIN answers' = DOMAIN answers \cup DOMAIN a
  BY <1>2
<1>4. DOMAIN answers' \ DOMAIN answers = DOMAIN a
  BY <1>1, <1>3
<1>5. \A c \in DOMAIN a : answers'[c] = a[c]
  BY <1>1, <1>2
<1> QED BY <1>3, <1>4, <1>5 DEF NewlyOk

(* The results of a tick are about its batch. *)
LEMMA ResultsOfBatch ==
    ASSUME HostInv, AnswerInv, tick # NoTick
    PROVE  {tick.results[i].call : i \in DOMAIN tick.results} \subseteq IdsOf(tick.batch)
<1>1. TickShape(tick)
  BY DEF HostInv, Types
<1>2. PICK rs \in Seq(Res), b \in Seq(Req) : rs = tick.results /\ b = tick.batch
  BY <1>1 DEF TickShape
<1>3. Len(rs) <= Len(b)
  BY <1>1, <1>2 DEF TickShape
<1>4. \A i \in DOMAIN rs : i \in DOMAIN b
  BY <1>3
<1>5. \A i \in DOMAIN rs : rs[i].call = b[i].id
  BY <1>2 DEF AnswerInv, ResultsInOrder
<1> QED BY <1>2, <1>4, <1>5 DEF IdsOf

LEMMA CommitAnswers ==
    ASSUME HostInv, AnswerInv, CommitTick PROVE AnswerInv' /\ AnswerIsTrue
<1>1. tick # NoTick /\ run = NoRun /\ issued' = issued
  BY DEF CommitTick
<1>2. TickShape(tick) /\ Succ(tick.results) = good.calls /\ tick.writes = good.writes
  BY <1>1 DEF HostInv, Types, Idle
<1>3. PICK w \in World : w = tick.world
  BY <1>2 DEF TickShape
<1>4. PICK rs \in Seq(Res) : rs = tick.results
  BY <1>2 DEF TickShape
<1>5. CASE CommitValid(db[w], tick.writes)
  <2>1. PICK a : a = Answers(rs)
    OBVIOUS
  <2>2. /\ db' = [db EXCEPT ![w] = Committed(db[w], tick.writes)] /\ answers' = Answered(a)
        /\ tick' = NoTick /\ good' = Nothing /\ UNCHANGED queue
    BY <1>3, <1>4, <1>5, <2>1 DEF CommitTick
  <2>3. /\ DOMAIN a = {rs[i].call : i \in DOMAIN rs}
        /\ \A c \in DOMAIN a : a[c] <=> c \in Succ(rs)
        /\ Succ(rs) \subseteq DOMAIN a
    BY <2>1, AnswersOfResults
  <2>4. DOMAIN a \subseteq IdsOf(tick.batch)
    BY <1>1, <1>4, <2>3, ResultsOfBatch
  <2>5. DOMAIN answers' = DOMAIN answers \cup DOMAIN a /\ NewlyOk = {c \in DOMAIN a : a[c]}
    BY <1>1, <2>2, <2>4, AnswersAreNew
  <2>6. NewlyOk = good.calls
    BY <1>2, <1>4, <2>3, <2>5
  <2>7. PICK d, ws : d = db' /\ ws = tick.writes
    OBVIOUS
  <2>8. /\ TablesAre(d) /\ d[w] = Committed(db[w], ws)
        /\ ws = NoWrites => d = db
    <3>1. d = [db EXCEPT ![w] = Committed(db[w], ws)]
      BY <2>2, <2>7
    <3> QED BY <3>1, CommittedTables
  <2>9. Tables'
    BY <2>7, <2>8 DEF Tables
  <2>10. AnswerInv'
    BY <1>1, <2>2, <2>4, <2>5, <2>9, AnsweredAnswers
  <2>11. good.calls = {} => ws = NoWrites
    BY <1>2, <2>7 DEF AnswerInv
  <2>12. AnswerIsTrue
    BY <1>2, <1>3, <2>6, <2>7, <2>8, <2>11 DEF AnswerIsTrue
  <2> QED BY <2>10, <2>12
<1>6. CASE ~CommitValid(db[w], tick.writes)
  <2>1. TickFails
    BY <1>3, <1>6 DEF CommitTick
  <2>2. UNCHANGED <<db, answers>>
    BY <2>1 DEF TickFails
  <2> QED BY <1>1, <2>1, <2>2, TickFailsAnswers DEF AnswerIsTrue, NewlyOk
<1> QED BY <1>5, <1>6

LEMMA FinishAnswers ==
    ASSUME HostInv, AnswerInv, FinishInvocation PROVE AnswerInv' /\ AnswerIsTrue
<1>1. tick # NoTick /\ ~Left /\ run = NoRun /\ tick.alone /\ UNCHANGED <<queue, issued>>
      /\ tick' = NoTick /\ good' = Nothing
  BY DEF FinishInvocation
<1>2. TickShape(tick) /\ Succ(tick.results) = good.calls /\ tick.writes = good.writes
  BY <1>1 DEF HostInv, Types, Idle
<1>3. PICK w \in World : w = tick.world
  BY <1>2 DEF TickShape
<1>4. PICK rs \in Seq(Res), b \in Seq(Req) : rs = tick.results /\ b = tick.batch
  BY <1>2 DEF TickShape
<1>5. Len(b) = 1 /\ Len(rs) = 1 /\ DOMAIN rs = {1}
  <2>1. Len(b) = 1 /\ Len(rs) <= Len(b)
    BY <1>1, <1>2, <1>4 DEF AnswerInv, ResultsInOrder, TickShape
  <2>2. ~(Len(rs) < Len(b))
    BY <1>1, <1>4 DEF Left
  <2>3. Len(rs) = 1
    BY <2>1, <2>2
  <2> QED BY <2>1, <2>3
<1>6. PICK m \in Res : m = rs[1]
  BY <1>5
<1>7. PICK c \in Nat : c = m.call
  BY DEF Res
<1>8. PICK ok \in BOOLEAN : ok = (m.ok /\ CommitValid(db[w], tick.writes))
  BY DEF Res, CommitValid
<1>9. PICK a : a = [x \in {c} |-> ok]
  OBVIOUS
<1>10. /\ db' = (IF ok THEN [db EXCEPT ![w] = Committed(db[w], tick.writes)] ELSE db)
       /\ answers' = Answered(a)
  BY <1>3, <1>4, <1>6, <1>7, <1>8, <1>9 DEF FinishInvocation
<1>11. DOMAIN a = {c} /\ a[c] = ok
  BY <1>9
<1>12. DOMAIN a \subseteq IdsOf(tick.batch)
  BY <1>1, <1>4, <1>5, <1>6, <1>7, <1>11, ResultsOfBatch
<1>13. DOMAIN answers' = DOMAIN answers \cup DOMAIN a /\ NewlyOk = {x \in DOMAIN a : a[x]}
  BY <1>1, <1>10, <1>12, AnswersAreNew
<1>14. CASE ok
  <2>1. NewlyOk = {c}
    BY <1>11, <1>13, <1>14
  <2>2. Range(rs) = {m} /\ m.ok
    BY <1>5, <1>6, <1>8, <1>14 DEF Range
  <2>3. Succ(rs) = {c}
    BY <2>2, <1>7 DEF Succ
  <2>4. PICK d, ws : d = db' /\ ws = tick.writes
    OBVIOUS
  <2>5. d = [db EXCEPT ![w] = Committed(db[w], ws)]
    BY <2>4, <1>10, <1>14
  <2>6. TablesAre(d) /\ d[w] = Committed(db[w], ws)
    BY <2>5, CommittedTables
  <2>7. Tables'
    BY <2>4, <2>6 DEF Tables
  <2>8. AnswerInv'
    BY <1>1, <1>12, <1>13, <2>7, AnsweredAnswers
  <2>9. AnswerIsTrue
    BY <1>2, <1>3, <1>4, <2>1, <2>3, <2>4, <2>6 DEF AnswerIsTrue
  <2> QED BY <2>8, <2>9
<1>15. CASE ~ok
  <2>1. NewlyOk = {} /\ db' = db
    BY <1>10, <1>11, <1>13, <1>15
  <2>2. Tables'
    BY <2>1 DEF AnswerInv, Tables
  <2>3. AnswerInv'
    BY <1>1, <1>12, <1>13, <2>2, AnsweredAnswers
  <2> QED BY <2>1, <2>3 DEF AnswerIsTrue
<1> QED BY <1>14, <1>15

LEMMA AnswerInvInitially == HostInit => AnswerInv
<1> SUFFICES ASSUME HostInit PROVE AnswerInv
  OBVIOUS
<1>1. /\ tick = NoTick /\ good = Nothing /\ issued = 0 /\ DOMAIN answers = {}
      /\ \A w \in World : queue[w] = <<>>
      /\ db = [w \in World |-> [r \in Row |-> IF r = 1 THEN 1 ELSE 0]]
  BY DEF HostInit
<1>2. IdsOf(<<>>) = {} /\ Distinct(<<>>)
  BY DEF IdsOf, Distinct
<1>3. QueueIds
  BY <1>1, <1>2 DEF QueueIds
<1>4. BatchIds /\ ResultsInOrder
  BY <1>1 DEF BatchIds, ResultsInOrder
<1>5. Tables
  BY <1>1 DEF Tables, TablesAre
<1> QED BY <1>1, <1>3, <1>4, <1>5, NothingFields DEF AnswerInv

(* A step that answers no call and changes no table says nothing false. *)
LEMMA QuietStep ==
    ASSUME UNCHANGED <<answers, db>> PROVE AnswerIsTrue
BY DEF AnswerIsTrue, NewlyOk

LEMMA AnswerStep ==
    ASSUME HostInv, AnswerInv, [HostNext]_hostVars PROVE AnswerInv' /\ AnswerIsTrue
<1>1. CASE Setup
  <2>1. UNCHANGED <<db, queue, tick, answers, issued, good>>
    BY <1>1 DEF Setup, Register, SetPoolable
  <2> QED BY <2>1, SameAnswers, QuietStep
<1>2. ASSUME NEW w \in World, NEW n \in Name, Submit(w, n) PROVE AnswerInv' /\ AnswerIsTrue
  <2>1. UNCHANGED <<answers, db>>
    BY <1>2 DEF Submit
  <2> QED BY <1>2, <2>1, SubmitAnswers, QuietStep
<1>3. ASSUME NEW w \in World, NEW n \in Name, Invoke(w, n) PROVE AnswerInv' /\ AnswerIsTrue
  <2>1. UNCHANGED <<answers, db>>
    BY <1>3 DEF Invoke
  <2> QED BY <1>3, <2>1, InvokeAnswers, QuietStep
<1>4. ASSUME NEW w \in World, BeginTick(w) PROVE AnswerInv' /\ AnswerIsTrue
  <2>1. UNCHANGED <<answers, db>>
    BY <1>4 DEF BeginTick
  <2> QED BY <1>4, <2>1, BeginTickAnswers, QuietStep
<1>5. CASE CallNative
  <2>1. UNCHANGED <<db, queue, tick, answers, issued, good>>
    BY <1>5 DEF CallNative
  <2> QED BY <2>1, SameAnswers, QuietStep
<1>6. CASE CallUnknown
  <2>1. Left /\ UNCHANGED <<db, queue, answers, issued, good>> /\ tick' = [tick EXCEPT !.results = Result(FALSE)]
    BY <1>6 DEF CallUnknown
  <2>2. TickShape(tick)
    BY <2>1, NextIsRequest DEF HostInv
  <2>3. PICK t, q : t = tick /\ q = Result(FALSE)
    OBVIOUS
  <2>4. PICK w, b, a, x, e, rs : /\ w = tick.world /\ b = tick.batch /\ a = tick.alone
                                 /\ x = tick.writes /\ e = tick.events /\ rs = tick.results
    OBVIOUS
  <2>5. t = Tk(w, b, a, x, e, rs)
    BY <2>2, <2>3, <2>4 DEF TickShape
  <2>6. tick' = Tk(w, b, a, x, e, q)
    <3>1. [Tk(w, b, a, x, e, rs) EXCEPT !.results = q] = Tk(w, b, a, x, e, q)
      BY TkResults
    <3> QED BY <2>1, <2>3, <2>5, <3>1
  <2>7. tick'.batch = tick.batch /\ tick'.alone = tick.alone /\ tick'.results = q
    BY <2>4, <2>6 DEF Tk
  <2>8. PICK no \in BOOLEAN : no = FALSE
    OBVIOUS
  <2>9. tick'.results = Result(no)
    BY <2>3, <2>7, <2>8
  <2> QED BY <2>1, <2>7, <2>9, ResultAnswers, QuietStep
<1>7. ASSUME NEW fit \in BOOLEAN, CallWasm(fit) PROVE AnswerInv' /\ AnswerIsTrue
  <2>1. UNCHANGED <<db, queue, tick, answers, issued, good>>
    BY <1>7 DEF CallWasm
  <2> QED BY <2>1, SameAnswers, QuietStep
<1>8. ASSUME NEW op, NativeCalls(op) PROVE AnswerInv' /\ AnswerIsTrue
  <2>1. UNCHANGED <<db, queue, answers, issued, good>> /\ run # NoRun
    BY <1>8, NotNothing DEF NativeCalls, Running, None
  <2>2. Doing(op) \/ tick' = tick
    BY <1>8 DEF NativeCalls
  <2> QED BY <2>1, <2>2, DoingAnswers, SameAnswers, QuietStep
<1>9. ASSUME NEW op, GuestCalls(op) PROVE AnswerInv' /\ AnswerIsTrue
  <2>1. UNCHANGED <<db, queue, answers, issued, good>> /\ run # NoRun
    BY <1>9, NotNothing DEF GuestCalls, Running, None
  <2>2. Doing(op) \/ tick' = tick
    BY <1>9 DEF GuestCalls
  <2> QED BY <2>1, <2>2, DoingAnswers, SameAnswers, QuietStep
<1>10. CASE GuestComputes
  <2>1. UNCHANGED <<db, queue, tick, answers, issued, good>>
    BY <1>10 DEF GuestComputes
  <2> QED BY <2>1, SameAnswers, QuietStep
<1>11. ASSUME NEW exit, EndCall(exit) PROVE AnswerInv' /\ AnswerIsTrue
  <2>1. /\ tick # NoTick /\ issued' = issued
        /\ \/ TickFails
           \/ /\ Left /\ UNCHANGED <<db, queue, answers>>
              /\ tick'.batch = tick.batch /\ tick'.alone = tick.alone
              /\ \E ok \in BOOLEAN : tick'.results = Result(ok)
              /\ good' = good \/ good'.calls # {}
    BY <1>11, EndCallIs
  <2>2. CASE TickFails
    <3>1. UNCHANGED <<db, answers>>
      BY <2>2 DEF TickFails
    <3> QED BY <2>1, <2>2, <3>1, TickFailsAnswers, QuietStep
  <2>3. CASE ~TickFails
    <3>1. PICK ok \in BOOLEAN : tick'.results = Result(ok)
      BY <2>1, <2>3
    <3>2. /\ Left /\ UNCHANGED <<db, queue, answers, issued>>
          /\ tick'.batch = tick.batch /\ tick'.alone = tick.alone
          /\ good' = good \/ good'.calls # {}
      BY <2>1, <2>3
    <3> QED BY <3>1, <3>2, ResultAnswers, QuietStep
  <2> QED BY <2>2, <2>3
<1>12. CASE CommitTick
  BY <1>12, CommitAnswers
<1>13. CASE FinishInvocation
  BY <1>13, FinishAnswers
<1>14. CASE UNCHANGED hostVars
  <2>1. UNCHANGED <<db, queue, tick, answers, issued, good>>
    BY <1>14 DEF hostVars
  <2> QED BY <2>1, SameAnswers, QuietStep
<1> QED
  BY <1>1, <1>2, <1>3, <1>4, <1>5, <1>6, <1>7, <1>8, <1>9, <1>10, <1>11, <1>12, <1>13, <1>14
     DEF HostNext, GuestStep

(* A call is answered with success only by the commit that holds its       *)
(* effects, and the table changes only by what answered calls did: no step *)
(* reports success for a rolled-back call or commits an unanswered one     *)
(* (tick_with_calls, finish_invocation, reducer_results).                  *)
THEOREM SuccessMeansCommitted == HostSpec => AnswersAreTrue
<1>1. HostInit => AnswerInv
  BY AnswerInvInitially
<1>2. HostInv /\ AnswerInv /\ [HostNext]_hostVars => AnswerInv'
  BY AnswerStep
<1>3. HostInv /\ AnswerInv /\ [HostNext]_hostVars => [AnswerIsTrue]_hostVars
  BY AnswerStep
<1> QED BY <1>1, <1>2, <1>3, HostInvAlways, PTL DEF HostSpec, AnswersAreTrue
=============================================================================
