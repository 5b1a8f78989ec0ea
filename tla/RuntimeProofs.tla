---------------------------- MODULE RuntimeProofs ----------------------------
(***************************************************************************)
(* Proofs about the runtime coordinator: its queues stay within their      *)
(* bounds, no accepted reducer call is lost, and, where a host binds each  *)
(* world to one address, workers, entries and the registry agree.          *)
(***************************************************************************)
EXTENDS Runtime, Induction, SequenceTheorems, FiniteSetTheorems

-----------------------------------------------------------------------------
(* The inductive invariant. *)

BoundedRoute == {r \in Route : Len(r.inbound) <= MaxQueuedMessages}
Routes == [Address -> BoundedRoute \cup {None}]
BoundedEntry == {e \in Entry : Len(e.inputs) <= MaxQueuedInputs /\ Len(e.calls) <= MaxQueuedCalls}
Calls == [accepted : Seq(Nat), answered : Seq(Nat), unanswered : Seq(Nat)]

WorldTypes ==
    /\ workers \in [Worker -> [state : {"Running", "Failed", "Stopped"},
                               worlds : SUBSET World]]
    /\ worlds \in [World -> BoundedEntry \cup {None}]
    /\ assignNext \in Worker
    /\ nextCall \in Nat
    /\ hist \in [World -> Calls]

(* While a step is in progress its worlds exist, and the ones that have    *)
(* not been ticked yet are running.                                        *)
StepTypes ==
    step # None =>
        /\ step = [order |-> step.order, due |-> step.due, finished |-> step.finished,
                   delivered |-> step.delivered, sent |-> step.sent]
        /\ \E V : step.order \in Seq(V)
        /\ step.due \in SUBSET World
        /\ step.finished \in Seq(World)
        /\ step.sent \in [step.due -> Seq(Message)]
        /\ \A w \in step.due :
              Exists(w) /\ (~Finished(w) => worlds[w].state = "Running")

(* Workers and entries agree, and a failed worker owns no other worlds     *)
(* than failed ones.                                                       *)
WorkersAgree ==
    /\ \A k \in Worker, w \in World :
          w \in workers[k].worlds <=> Exists(w) /\ worlds[w].worker = k
    /\ \A w \in World : Exists(w) /\ worlds[w].state # "Failed" =>
          workers[worlds[w].worker].state # "Failed"

WorldInv == WorldTypes /\ StepTypes /\ WorkersAgree /\ CallsAreConserved

(* No two addresses lead to one world. *)
OneAddress ==
    \A a, b \in Address :
        routing[a] # None /\ routing[b] # None /\ routing[a].world = routing[b].world => a = b

BusInv ==
    /\ routing \in Routes /\ sentSeq \in [Address -> Nat]
    /\ OneAddress /\ OwnershipAgrees /\ RoutingIsCurrent

-----------------------------------------------------------------------------
(* Queues of messages. *)

(* The registry with other messages in its queues. *)
SameRoutes(r, s) ==
    /\ s \in Routes
    /\ \A a \in Address :
          /\ s[a] = None <=> r[a] = None
          /\ r[a] # None => s[a].world = r[a].world /\ s[a].worker = r[a].worker

LEMMA EnqueueKeeps ==
    ASSUME NEW r \in Routes, NEW m \in Message
    PROVE  SameRoutes(r, Enqueue(r, m))
<1>1. CASE r[m.to] = None \/ Len(r[m.to].inbound) >= MaxQueuedMessages
  BY <1>1 DEF SameRoutes, Enqueue
<1>2. CASE ~(r[m.to] = None \/ Len(r[m.to].inbound) >= MaxQueuedMessages)
  <2>1. m.to \in Address /\ r[m.to] \in BoundedRoute
    BY <1>2 DEF Routes, Message
  <2> DEFINE old == r[m.to]
             new == [old EXCEPT !.inbound = Append(@, m)]
  <2>2. /\ old \in Route /\ old.inbound \in Seq(Message) /\ Len(old.inbound) < MaxQueuedMessages
        /\ MaxQueuedMessages \in Nat
    BY <1>2, <2>1, LenProperties, RuntimeAssumption DEF BoundedRoute, Route
  <2>3. Append(old.inbound, m) \in Seq(Message) /\ Len(Append(old.inbound, m)) = Len(old.inbound) + 1
    BY <2>2, AppendProperties
  <2>4. new \in Route /\ new.world = old.world /\ new.worker = old.worker
        /\ new.inbound = Append(old.inbound, m)
    BY <2>2, <2>3 DEF Route
  <2>5. new \in BoundedRoute
    <3>1. Len(old.inbound) \in Nat
      BY <2>2, LenProperties
    <3> HIDE DEF new, old
    <3> QED BY <2>2, <2>3, <2>4, <3>1 DEF BoundedRoute
  <2>6. new # None
    BY <2>4, NoneAssumption
  <2>7. Enqueue(r, m) = [r EXCEPT ![m.to] = new]
    BY <1>2 DEF Enqueue
  <2> HIDE DEF new
  <2> QED BY <1>2, <2>1, <2>4, <2>5, <2>6, <2>7 DEF SameRoutes, Routes
<1> QED BY <1>1, <1>2

LEMMA SameRoutesTransitive ==
    ASSUME NEW r, NEW s, NEW t, SameRoutes(r, s), SameRoutes(s, t)
    PROVE  SameRoutes(r, t)
BY DEF SameRoutes

(* The messages of M, behind the ones that were there. *)
Grows(r, s, M) ==
    \A a \in Address : r[a] # None =>
        LET old == r[a].inbound
            new == s[a].inbound
        IN  /\ Len(old) <= Len(new) /\ \A i \in 1 .. Len(old) : new[i] = old[i]
            /\ \A i \in Len(old) + 1 .. Len(new) : new[i] \in M

LEMMA InboundTyped ==
    ASSUME NEW r \in Routes, NEW a \in Address, r[a] # None
    PROVE  r[a].inbound \in Seq(Message) /\ Len(r[a].inbound) \in Nat
<1>1. r[a].inbound \in Seq(Message)
  BY DEF Routes, BoundedRoute, Route
<1> QED BY <1>1, LenProperties

LEMMA EnqueueGrows ==
    ASSUME NEW r \in Routes, NEW m \in Message, NEW M, m \in M
    PROVE  Grows(r, Enqueue(r, m), M)
<1> SUFFICES ASSUME NEW a \in Address, r[a] # None
             PROVE  LET old == r[a].inbound
                        new == Enqueue(r, m)[a].inbound
                    IN  /\ Len(old) <= Len(new) /\ \A i \in 1 .. Len(old) : new[i] = old[i]
                        /\ \A i \in Len(old) + 1 .. Len(new) : new[i] \in M
  BY DEF Grows
<1> DEFINE old == r[a].inbound
           new == Enqueue(r, m)[a].inbound
<1>1. old \in Seq(Message) /\ Len(old) \in Nat
  BY InboundTyped
<1> DEFINE Good == /\ Len(old) <= Len(new) /\ \A i \in 1 .. Len(old) : new[i] = old[i]
                   /\ \A i \in Len(old) + 1 .. Len(new) : new[i] \in M
<1>2. ASSUME new = old PROVE Good
  BY <1>1, <1>2
<1>3. ASSUME new = Append(old, m) PROVE Good
  <2>1. Len(new) = Len(old) + 1 /\ new[Len(old) + 1] = m /\ \A i \in 1 .. Len(old) : new[i] = old[i]
    BY <1>1, <1>3, AppendProperties
  <2> HIDE DEF old, new
  <2> QED BY <1>1, <2>1
<1>4. new = old \/ new = Append(old, m)
  <2>1. CASE Enqueue(r, m) = r
    BY <2>1
  <2>2. CASE r[m.to] # None /\ Enqueue(r, m) = [r EXCEPT ![m.to].inbound = Append(@, m)]
    <3>1. CASE a # m.to
      BY <2>2, <3>1 DEF Routes
    <3>2. CASE a = m.to
      <4> DEFINE e == r[a]
      <4>1. Enqueue(r, m)[a] = [e EXCEPT !.inbound = Append(@, m)]
        BY <2>2, <3>2 DEF Routes
      <4>2. e \in Route
        BY DEF Routes, BoundedRoute
      <4> HIDE DEF e
      <4>3. [e EXCEPT !.inbound = Append(@, m)].inbound = Append(e.inbound, m)
        BY <4>2 DEF Route
      <4> QED BY <4>1, <4>3 DEF e
    <3> QED BY <3>1, <3>2
  <2> QED BY <2>1, <2>2 DEF Enqueue
<1>5. Good
  <2> HIDE DEF Good
  <2> QED BY <1>2, <1>3, <1>4
<1> QED BY <1>5

LEMMA GrowsMore ==
    ASSUME NEW r \in Routes, NEW s \in Routes, NEW t \in Routes, NEW M,
           SameRoutes(r, s), SameRoutes(s, t), Grows(r, s, M), Grows(s, t, M)
    PROVE  Grows(r, t, M)
<1> SUFFICES ASSUME NEW a \in Address, r[a] # None
             PROVE  LET old == r[a].inbound
                        new == t[a].inbound
                    IN  /\ Len(old) <= Len(new) /\ \A i \in 1 .. Len(old) : new[i] = old[i]
                        /\ \A i \in Len(old) + 1 .. Len(new) : new[i] \in M
  BY DEF Grows
<1> DEFINE old == r[a].inbound
           mid == s[a].inbound
           new == t[a].inbound
<1>1. s[a] # None /\ t[a] # None
  BY DEF SameRoutes
<1>2. Len(old) \in Nat /\ Len(mid) \in Nat /\ Len(new) \in Nat
  BY <1>1, InboundTyped
<1>3. /\ Len(old) <= Len(mid) /\ \A i \in 1 .. Len(old) : mid[i] = old[i]
      /\ \A i \in Len(old) + 1 .. Len(mid) : mid[i] \in M
  BY DEF Grows
<1>4. /\ Len(mid) <= Len(new) /\ \A i \in 1 .. Len(mid) : new[i] = mid[i]
      /\ \A i \in Len(mid) + 1 .. Len(new) : new[i] \in M
  BY <1>1 DEF Grows
<1> HIDE DEF old, mid, new
<1>5. \A i \in 1 .. Len(old) : new[i] = old[i]
  BY <1>2, <1>3, <1>4
<1>6. ASSUME NEW i \in Len(old) + 1 .. Len(new) PROVE new[i] \in M
  <2>1. i \in Len(old) + 1 .. Len(mid) \/ i \in Len(mid) + 1 .. Len(new)
    BY <1>2
  <2>2. CASE i \in Len(old) + 1 .. Len(mid)
    <3>1. i \in 1 .. Len(mid)
      BY <1>2, <2>2
    <3> QED BY <1>3, <1>4, <2>2, <3>1
  <2>3. CASE i \in Len(mid) + 1 .. Len(new)
    BY <1>4, <2>3
  <2> QED BY <2>1, <2>2, <2>3
<1>7. Len(old) <= Len(new)
  BY <1>2, <1>3, <1>4
<1> QED BY <1>5, <1>6, <1>7 DEF old, new

(* enqueue_outbound: the loop over the messages is well defined, and leaves *)
(* the routes as they are.                                                  *)
LEMMA OutboundKeeps ==
    ASSUME NEW r \in Routes, NEW ms \in Seq(Message)
    PROVE  SameRoutes(r, Outbound(r, ms)) /\ Grows(r, Outbound(r, ms), ToSet(ms))
<1> DEFINE n == Len(ms)
           Runs(f) == f = [i \in 0..n |-> IF i = 0 THEN r ELSE Enqueue(f[i - 1], ms[i])]
           after == CHOOSE f : Runs(f)
<1>1. n \in Nat /\ \A i \in 1..n : ms[i] \in Message
  BY LenProperties, ElementOfSeq
<1> DEFINE g == [i \in 1..n |-> [s \in Routes |-> Enqueue(s, ms[i])]]
<1>2. g \in [1..n -> [Routes -> Routes]]
  BY <1>1, EnqueueKeeps DEF SameRoutes
<1>3. PICK f : Iterates(f, n, Routes, r, g)
  <2> HIDE DEF g, n
  <2> QED BY <1>1, <1>2, IterationExists
<1>4. ASSUME NEW i \in 1..n PROVE f[i] = Enqueue(f[i - 1], ms[i])
  <2>1. i - 1 \in 0..n
    BY <1>1
  <2>2. f[i - 1] \in Routes
    BY <1>3, <2>1 DEF Iterates
  <2> QED BY <1>3, <2>2 DEF Iterates
<1>5. Runs(f)
  <2>1. ASSUME NEW i \in 0..n PROVE f[i] = IF i = 0 THEN r ELSE Enqueue(f[i - 1], ms[i])
    <3>1. i = 0 \/ i \in 1..n
      BY <1>1
    <3> QED BY <1>3, <1>4, <3>1 DEF Iterates
  <2> HIDE DEF n
  <2> QED BY <1>3, <2>1 DEF Iterates
<1>6. Runs(after)
  <2> HIDE DEF Runs
  <2> QED BY <1>5
<1>7. Outbound(r, ms) = after[n]
  BY DEF Outbound
<1> HIDE DEF after
<1> DEFINE M == ToSet(ms)
           S == {i \in 0..n : SameRoutes(r, after[i]) /\ Grows(r, after[i], M)}
<1>8. 0 \in S
  <2>1. after[0] = r
    BY <1>1, <1>6
  <2>2. Grows(r, r, M)
    BY InboundTyped DEF Grows
  <2> QED BY <1>1, <2>1, <2>2 DEF SameRoutes
<1>9. ASSUME NEW i \in 1..n, i - 1 \in S PROVE i \in S
  <2>1. after[i] = Enqueue(after[i - 1], ms[i]) /\ i \in 0..n
    BY <1>1, <1>6
  <2>2. SameRoutes(r, after[i - 1]) /\ Grows(r, after[i - 1], M)
    BY <1>9
  <2>3. after[i - 1] \in Routes /\ ms[i] \in Message /\ ms[i] \in M
    <3>1. i \in DOMAIN ms
      BY LenProperties
    <3> QED BY <1>1, <2>2, <3>1 DEF SameRoutes, ToSet
  <2> HIDE DEF M
  <2>4. SameRoutes(after[i - 1], after[i]) /\ Grows(after[i - 1], after[i], M)
    BY <2>1, <2>3, EnqueueKeeps, EnqueueGrows
  <2>5. after[i] \in Routes
    BY <2>4 DEF SameRoutes
  <2>6. SameRoutes(r, after[i])
    BY <2>2, <2>4, SameRoutesTransitive
  <2>7. Grows(r, after[i], M)
    BY <2>2, <2>3, <2>4, <2>5, GrowsMore
  <2> QED BY <2>1, <2>6, <2>7
<1>10. n \in S
  <2> HIDE DEF S, n
  <2>1. 0..n \subseteq S
    BY <1>1, <1>8, <1>9, InductionOnInterval
  <2> QED BY <1>1, <2>1
<1> QED BY <1>7, <1>10

(* take_deliverable leaves a queue of messages, no longer than before. *)
LEMMA RemainingKeeps ==
    ASSUME NEW q \in Seq(Message), NEW t
    PROVE  Remaining(q, t) \in Seq(Message) /\ Len(Remaining(q, t)) <= Len(q)
<1> DEFINE n == Len(q)
           D == Seq(Message)
           Step(s, i) == IF q[i].tick < t THEN s ELSE Append(s, q[i])
           Runs(f) == f = [i \in 0..n |-> IF i = 0 THEN <<>>
                                          ELSE IF q[i].tick < t THEN f[i - 1]
                                          ELSE Append(f[i - 1], q[i])]
           kept == CHOOSE f : Runs(f)
<1>1. n \in Nat /\ (\A i \in 1..n : q[i] \in Message) /\ <<>> \in D
  BY LenProperties, ElementOfSeq, EmptySeq
<1>2. ASSUME NEW i \in 1..n, NEW s \in D
      PROVE  Step(s, i) \in D /\ Len(Step(s, i)) <= Len(s) + 1 /\ Len(s) \in Nat
  BY <1>1, AppendProperties, LenProperties
<1> DEFINE g == [i \in 1..n |-> [s \in D |-> Step(s, i)]]
<1>3. g \in [1..n -> [D -> D]]
  BY <1>2
<1>4. PICK f : Iterates(f, n, D, <<>>, g)
  <2> HIDE DEF g, n, D
  <2> QED BY <1>1, <1>3, IterationExists
<1>5. ASSUME NEW i \in 1..n PROVE f[i] = Step(f[i - 1], i)
  <2>1. i - 1 \in 0..n
    BY <1>1
  <2>2. f[i - 1] \in D
    BY <1>4, <2>1 DEF Iterates
  <2> HIDE DEF Step, D
  <2> QED BY <1>4, <2>2 DEF Iterates
<1>6. Runs(f)
  <2>1. ASSUME NEW i \in 0..n PROVE f[i] = IF i = 0 THEN <<>> ELSE Step(f[i - 1], i)
    <3>1. i = 0 \/ i \in 1..n
      BY <1>1
    <3> HIDE DEF Step
    <3> QED BY <1>4, <1>5, <3>1 DEF Iterates
  <2> HIDE DEF n, D
  <2> QED BY <1>4, <2>1 DEF Iterates
<1>7. Runs(kept)
  <2> HIDE DEF Runs
  <2> QED BY <1>6
<1>8. Remaining(q, t) = kept[n]
  BY DEF Remaining
<1> HIDE DEF kept
<1> DEFINE S == {i \in 0..n : kept[i] \in D /\ Len(kept[i]) <= i}
<1>9. 0 \in S
  <2>1. kept[0] = <<>>
    BY <1>1, <1>7
  <2>2. Len(<<>>) = 0 /\ 0 \in 0..n
    BY <1>1
  <2> HIDE DEF n, D
  <2> QED BY <1>1, <2>1, <2>2
<1>10. ASSUME NEW i \in 1..n, i - 1 \in S PROVE i \in S
  <2>1. kept[i] = Step(kept[i - 1], i) /\ i \in 0..n
    <3>1. i \in 0..n /\ i # 0
      BY <1>1
    <3>2. PICK k : k = [j \in 0..n |-> IF j = 0 THEN <<>>
                                       ELSE IF q[j].tick < t THEN kept[j - 1]
                                       ELSE Append(kept[j - 1], q[j])]
      OBVIOUS
    <3>3. kept = k
      BY <1>7, <3>2
    <3>4. k[i] = Step(kept[i - 1], i)
      BY <3>1, <3>2
    <3> QED BY <3>1, <3>3, <3>4
  <2>2. kept[i - 1] \in D /\ Len(kept[i - 1]) <= i - 1
    BY <1>10
  <2> HIDE DEF Step, D
  <2>3. kept[i] \in D /\ Len(kept[i]) <= Len(kept[i - 1]) + 1 /\ Len(kept[i - 1]) \in Nat
    BY <1>2, <2>1, <2>2
  <2>4. Len(kept[i]) \in Nat
    BY <2>3, LenProperties DEF D
  <2> QED BY <2>1, <2>2, <2>3, <2>4, <1>1
<1>11. n \in S
  <2> HIDE DEF S, n
  <2>1. 0..n \subseteq S
    BY <1>1, <1>9, <1>10, InductionOnInterval
  <2> QED BY <1>1, <2>1
<1> QED BY <1>8, <1>11

LEMMA UndeliveredKeeps ==
    ASSUME routing \in Routes, NEW set
    PROVE  SameRoutes(routing, Undelivered(set))
<1> DEFINE new(a) == [routing[a] EXCEPT !.inbound = Remaining(@, worlds[routing[a].world].tick)]
<1>1. ASSUME NEW a \in Address, routing[a] # None
      PROVE  /\ new(a) \in BoundedRoute /\ new(a) # None
             /\ new(a).world = routing[a].world /\ new(a).worker = routing[a].worker
  <2>1. PICK q : q = routing[a].inbound
    OBVIOUS
  <2>2. PICK t : t = worlds[routing[a].world].tick
    OBVIOUS
  <2>3. routing[a] \in Route /\ q \in Seq(Message) /\ Len(q) <= MaxQueuedMessages /\ Len(q) \in Nat
        /\ MaxQueuedMessages \in Nat
    BY <1>1, <2>1, LenProperties, RuntimeAssumption DEF Routes, BoundedRoute, Route
  <2>4. PICK p : p = Remaining(q, t)
    OBVIOUS
  <2>5. p \in Seq(Message) /\ Len(p) <= Len(q) /\ Len(p) \in Nat
    BY <2>3, <2>4, RemainingKeeps, LenProperties
  <2>6. new(a) = [routing[a] EXCEPT !.inbound = p]
    BY <2>1, <2>2, <2>4
  <2>7. new(a) \in Route /\ new(a).world = routing[a].world /\ new(a).worker = routing[a].worker
        /\ new(a).inbound = p
    <3> HIDE DEF new
    <3> QED BY <2>3, <2>5, <2>6 DEF Route
  <2> HIDE DEF new
  <2> QED BY <2>3, <2>5, <2>7, NoneAssumption DEF BoundedRoute
<1>2. \A a \in Address :
        Undelivered(set)[a] = IF routing[a] # None /\ routing[a].world \in set
                                    /\ AddressOf(routing[a].world) = a
                              THEN new(a) ELSE routing[a]
  BY DEF Undelivered
<1>3. Undelivered(set) = [a \in Address |-> Undelivered(set)[a]]
  BY DEF Undelivered
<1> HIDE DEF new
<1>4. Undelivered(set) \in Routes
  BY <1>1, <1>2, <1>3 DEF Routes
<1> QED BY <1>1, <1>2, <1>4 DEF SameRoutes, Routes

(* A queue before a step and after the outcomes of the first k worlds: what *)
(* was added is what those worlds sent, in their order.                     *)
Behind(old, new, k) ==
    /\ Len(old) <= Len(new) /\ \A i \in 1 .. Len(old) : new[i] = old[i]
    /\ \E sender \in [Len(old) + 1 .. Len(new) -> 1 .. k] :
          /\ \A i, j \in Len(old) + 1 .. Len(new) : i < j => sender[i] <= sender[j]
          /\ \A i \in Len(old) + 1 .. Len(new) :
                /\ step.order[sender[i]] \in step.due
                /\ new[i] \in ToSet(step.sent[step.order[sender[i]]])

Merged(r, s, k) ==
    \A a \in Address : r[a] # None => Behind(r[a].inbound, s[a].inbound, k)

(* What the k-th world sends goes behind what the earlier ones sent. *)
LEMMA BehindMore ==
    ASSUME NEW k \in Nat \ {0}, NEW old, NEW mid, NEW new,
           Len(old) \in Nat, Len(mid) \in Nat, Len(new) \in Nat,
           Behind(old, mid, k - 1),
           Len(mid) <= Len(new), \A i \in 1 .. Len(mid) : new[i] = mid[i],
           \A i \in Len(mid) + 1 .. Len(new) :
              step.order[k] \in step.due /\ new[i] \in ToSet(step.sent[step.order[k]])
    PROVE  Behind(old, new, k)
<1> DEFINE before == Len(old) + 1 .. Len(mid)
           added == Len(old) + 1 .. Len(new)
<1>1. Len(old) <= Len(mid) /\ \A i \in 1 .. Len(old) : mid[i] = old[i]
  BY DEF Behind
<1>2. PICK first \in [before -> 1 .. k - 1] :
        /\ \A i, j \in before : i < j => first[i] <= first[j]
        /\ \A i \in before :
              /\ step.order[first[i]] \in step.due
              /\ mid[i] \in ToSet(step.sent[step.order[first[i]]])
  BY DEF Behind
<1> DEFINE sender == [i \in added |-> IF i \in before THEN first[i] ELSE k]
<1>3. ASSUME NEW i \in before PROVE first[i] \in 1 .. k - 1
  BY <1>2, <1>3
<1>4. sender \in [added -> 1 .. k]
  <2>1. ASSUME NEW i \in added PROVE (IF i \in before THEN first[i] ELSE k) \in 1 .. k
    <3>1. CASE i \in before
      <4>1. first[i] \in 1 .. k - 1
        BY <1>3, <3>1
      <4> HIDE DEF before
      <4> QED BY <3>1, <4>1
    <3> QED BY <3>1
  <2> HIDE DEF added, before
  <2> QED BY <2>1
<1>5. ASSUME NEW i \in added PROVE i \in before \/ i \in Len(mid) + 1 .. Len(new)
  BY <1>5
<1>6. ASSUME NEW i \in added, NEW j \in added, i < j PROVE sender[i] <= sender[j]
  <2>1. CASE j \in before
    <3>1. i \in before
      BY <1>6, <2>1
    <3>2. first[i] <= first[j]
      BY <1>2, <1>6, <2>1, <3>1
    <3> HIDE DEF before, added
    <3> QED BY <2>1, <3>1, <3>2
  <2>2. CASE j \notin before
    <3>1. sender[j] = k
      BY <2>2
    <3>2. sender[i] \in 1 .. k
      <4> HIDE DEF sender, added
      <4> QED BY <1>4
    <3> HIDE DEF sender
    <3> QED BY <3>1, <3>2
  <2> QED BY <2>1, <2>2
<1>7. ASSUME NEW i \in added
      PROVE  /\ step.order[sender[i]] \in step.due
             /\ new[i] \in ToSet(step.sent[step.order[sender[i]]])
  <2>1. CASE i \in before
    <3>1. sender[i] = first[i]
      BY <2>1
    <3>2. i \in 1 .. Len(mid)
      BY <2>1
    <3>3. new[i] = mid[i]
      BY <3>2
    <3> HIDE DEF sender, before
    <3> QED BY <1>2, <2>1, <3>1, <3>3
  <2>2. CASE i \notin before
    <3>1. sender[i] = k
      BY <2>2
    <3>2. i \in Len(mid) + 1 .. Len(new)
      BY <1>5, <2>2
    <3> HIDE DEF sender, before
    <3> QED BY <3>1, <3>2
  <2> QED BY <2>1, <2>2
<1>8. Len(old) <= Len(new)
  BY <1>1
<1>9. \A i \in 1 .. Len(old) : new[i] = old[i]
  BY <1>1
<1> HIDE DEF sender
<1> QED BY <1>4, <1>6, <1>7, <1>8, <1>9 DEF Behind

LEMMA MergedMore ==
    ASSUME NEW k \in Nat \ {0}, NEW r \in Routes, NEW s \in Routes, NEW t \in Routes,
           SameRoutes(r, s), SameRoutes(s, t), Merged(r, s, k - 1),
           t = s \/ (step.order[k] \in step.due /\ Grows(s, t, ToSet(step.sent[step.order[k]])))
    PROVE  Merged(r, t, k)
<1> SUFFICES ASSUME NEW a \in Address, r[a] # None
             PROVE  Behind(r[a].inbound, t[a].inbound, k)
  BY DEF Merged
<1>1. s[a] # None /\ t[a] # None
  BY DEF SameRoutes
<1>2. Len(r[a].inbound) \in Nat /\ Len(s[a].inbound) \in Nat /\ Len(t[a].inbound) \in Nat
  BY <1>1, InboundTyped
<1>3. Behind(r[a].inbound, s[a].inbound, k - 1)
  BY DEF Merged
<1> DEFINE mid == s[a].inbound
           new == t[a].inbound
<1>4. /\ Len(mid) <= Len(new) /\ \A i \in 1 .. Len(mid) : new[i] = mid[i]
      /\ \A i \in Len(mid) + 1 .. Len(new) :
            step.order[k] \in step.due /\ new[i] \in ToSet(step.sent[step.order[k]])
  <2>1. CASE t = s
    BY <1>2, <2>1
  <2>2. CASE step.order[k] \in step.due /\ Grows(s, t, ToSet(step.sent[step.order[k]]))
    BY <1>1, <2>2 DEF Grows
  <2> QED BY <2>1, <2>2
<1> QED BY <1>2, <1>3, <1>4, BehindMore

(* The end of a step: one tick's messages after the other. *)
LEMMA AppliedKeeps ==
    ASSUME StepTypes, routing \in Routes, step # None
    PROVE  SameRoutes(routing, Applied) /\ Merged(routing, Applied, Len(step.order))
<1>1. PICK V : step.order \in Seq(V)
  BY DEF StepTypes
<1> DEFINE n == Len(MergeOrder)
           Step(s, i) == IF MergeOrder[i] \in step.due THEN Outbound(s, step.sent[MergeOrder[i]]) ELSE s
           Runs(f) == f = [i \in 0..n |-> IF i = 0 THEN routing
                                          ELSE IF MergeOrder[i] \in step.due
                                          THEN Outbound(f[i - 1], step.sent[MergeOrder[i]])
                                          ELSE f[i - 1]]
           after == CHOOSE f : Runs(f)
<1>2. n \in Nat /\ routing \in Routes
  BY <1>1, LenProperties DEF MergeOrder
<1>3. ASSUME NEW i \in 1..n, NEW s \in Routes
      PROVE  /\ SameRoutes(s, Step(s, i))
             /\ \/ Step(s, i) = s
                \/ /\ step.order[i] \in step.due
                   /\ Grows(s, Step(s, i), ToSet(step.sent[step.order[i]]))
  <2>1. CASE MergeOrder[i] \in step.due
    BY <2>1, OutboundKeeps DEF StepTypes, MergeOrder
  <2>2. CASE MergeOrder[i] \notin step.due
    BY <2>2 DEF SameRoutes
  <2> QED BY <2>1, <2>2
<1> DEFINE g == [i \in 1..n |-> [s \in Routes |-> Step(s, i)]]
<1>4. g \in [1..n -> [Routes -> Routes]]
  <2> HIDE DEF Step, n
  <2> QED BY <1>3 DEF SameRoutes
<1>5. PICK f : Iterates(f, n, Routes, routing, g)
  <2> HIDE DEF g, n
  <2> QED BY <1>2, <1>4, IterationExists
<1>6. ASSUME NEW i \in 1..n PROVE f[i] = Step(f[i - 1], i)
  <2>1. i - 1 \in 0..n
    BY <1>2
  <2>2. f[i - 1] \in Routes
    BY <1>5, <2>1 DEF Iterates
  <2> HIDE DEF Step
  <2> QED BY <1>5, <2>2 DEF Iterates
<1>7. Runs(f)
  <2>1. ASSUME NEW i \in 0..n PROVE f[i] = IF i = 0 THEN routing ELSE Step(f[i - 1], i)
    <3>1. i = 0 \/ i \in 1..n
      BY <1>2
    <3> HIDE DEF Step
    <3> QED BY <1>5, <1>6, <3>1 DEF Iterates
  <2> HIDE DEF n
  <2> QED BY <1>5, <2>1 DEF Iterates
<1>8. Runs(after)
  <2> HIDE DEF Runs
  <2> QED BY <1>7
<1>9. Applied = after[n]
  BY DEF Applied
<1> HIDE DEF after
<1> DEFINE S == {i \in 0..n : SameRoutes(routing, after[i]) /\ Merged(routing, after[i], i)}
<1>10. 0 \in S
  <2>1. after[0] = routing
    BY <1>2, <1>8
  <2>2. ASSUME NEW a \in Address, routing[a] # None
        PROVE  Behind(routing[a].inbound, routing[a].inbound, 0)
    <3> DEFINE q == routing[a].inbound
    <3>1. Len(q) \in Nat
      BY <1>2, <2>2, InboundTyped
    <3> HIDE DEF q
    <3>2. Len(q) + 1 .. Len(q) = {}
      BY <3>1
    <3> DEFINE none == [x \in Len(q) + 1 .. Len(q) |-> 1]
    <3>3. none \in [Len(q) + 1 .. Len(q) -> 1 .. 0]
      BY <3>2
    <3> HIDE DEF none
    <3>4. Behind(q, q, 0)
      <4>1. ~ \E i \in Len(q) + 1 .. Len(q) : TRUE
        BY <3>2
      <4> QED BY <3>1, <3>3, <4>1 DEF Behind
    <3> QED BY <3>4 DEF q
  <2> QED BY <1>2, <2>1, <2>2 DEF SameRoutes, Merged
<1>11. ASSUME NEW i \in 1..n, i - 1 \in S PROVE i \in S
  <2>1. after[i] = Step(after[i - 1], i) /\ i \in 0..n /\ i \in Nat \ {0}
    <3>1. i \in 0..n /\ i \in Nat \ {0}
      BY <1>2
    <3>2. after[i] = Step(after[i - 1], i)
      BY <1>8, <3>1
    <3> QED BY <3>1, <3>2
  <2>2. SameRoutes(routing, after[i - 1]) /\ Merged(routing, after[i - 1], i - 1)
    BY <1>11
  <2> HIDE DEF Step
  <2>3. after[i - 1] \in Routes
    BY <2>2 DEF SameRoutes
  <2>4. SameRoutes(after[i - 1], after[i])
    BY <1>3, <2>1, <2>3
  <2>5. after[i] \in Routes
    BY <2>4 DEF SameRoutes
  <2>6. \/ after[i] = after[i - 1]
        \/ step.order[i] \in step.due /\ Grows(after[i - 1], after[i], ToSet(step.sent[step.order[i]]))
    BY <1>3, <2>1, <2>3
  <2>7. Merged(routing, after[i], i)
    BY <1>2, <2>1, <2>2, <2>3, <2>4, <2>5, <2>6, MergedMore
  <2> QED BY <2>1, <2>2, <2>4, <2>7, SameRoutesTransitive
<1>12. n \in S
  <2> HIDE DEF S, n
  <2>1. 0..n \subseteq S
    BY <1>2, <1>10, <1>11, InductionOnInterval
  <2> QED BY <1>2, <2>1
<1> QED BY <1>9, <1>12 DEF MergeOrder

-----------------------------------------------------------------------------
(* What the coordinator chooses. *)

(* assign_worker never gives a world to a worker that is not running. *)
LEMMA AssignsRunning ==
    ASSUME WorldTypes, RunningWorkers # {}
    PROVE  AssignWorker \in RunningWorkers
<1>1. \A k \in RunningWorkers : Offset(k) \in Nat
  BY RuntimeAssumption DEF RunningWorkers, Worker, Offset, WorldTypes
<1> DEFINE T == {Offset(k) : k \in RunningWorkers}
<1>2. T \subseteq Nat /\ T # {}
  BY <1>1
<1>3. PICK x \in T : \A y \in T : x <= y
  <2> HIDE DEF T
  <2> QED BY <1>2, LeastNatural
<1>4. \E k \in RunningWorkers : \A j \in RunningWorkers : Offset(k) <= Offset(j)
  BY <1>3
<1> QED BY <1>4 DEF AssignWorker

(* partition_for_world finds one of the addresses of the world. *)
LEMMA FindsAddress ==
    ASSUME NEW w, Bound(w) # {}
    PROVE  AddressOf(w) \in Bound(w)
<1>1. Bound(w) \subseteq Nat
  BY RuntimeAssumption DEF Bound, Address, World
<1>2. \E a \in Bound(w) : \A b \in Bound(w) : a <= b
  BY <1>1, LeastNatural
<1> QED BY <1>2 DEF AddressOf

(* The frames a tick takes are frames of the queue. *)
LEMMA TakesFrames ==
    ASSUME NEW e \in Entry
    PROVE  Taken(e) \in Nat /\ Taken(e) <= Len(e.inputs)
<1> DEFINE n == Len(e.inputs)
           Same(m) == \A i \in 1..m : e.inputs[i].tick = e.tick
           Good(m) == /\ m > 1 => Same(m)
                      /\ \/ m = n
                         \/ e.inputs[1].tick # e.tick
                         \/ e.inputs[m + 1].tick # e.tick
<1>1. e.inputs \in Seq(Frame) /\ n \in Nat
  BY LenProperties DEF Entry
<1>2. CASE e.inputs = <<>>
  BY <1>1, <1>2 DEF Taken
<1>3. CASE e.inputs # <<>>
  <2>1. n \in Nat \ {0}
    BY <1>1, <1>3, EmptySeq, LenProperties
  <2>2. \E m \in 1..n : Good(m)
    <3>1. CASE e.inputs[1].tick # e.tick
      <4>1. Good(1) /\ 1 \in 1..n
        BY <2>1, <3>1
      <4> QED BY <4>1
    <3>2. CASE e.inputs[1].tick = e.tick
      <4> DEFINE T == {k \in Nat : k < n /\ Same(n - k)}
      <4>1. n - 1 \in T
        BY <2>1, <3>2
      <4>2. PICK k \in T : \A j \in T : k <= j
        <5>1. T \subseteq Nat /\ T # {}
          BY <4>1
        <5> HIDE DEF T
        <5> QED BY <5>1, LeastNatural
      <4>3. n - k \in 1..n /\ Same(n - k) /\ k \in Nat
        BY <2>1
      <4>4. CASE k = 0
        <5>1. n - k = n
          BY <2>1, <4>4
        <5> QED BY <4>3, <5>1
      <4>5. CASE k > 0
        <5>1. k - 1 \in Nat /\ k - 1 < n /\ n - (k - 1) = (n - k) + 1
          BY <2>1, <4>3, <4>5
        <5>2. k - 1 \notin T
          BY <4>2, <4>3, <5>1
        <5>3. ~Same((n - k) + 1)
          BY <5>1, <5>2
        <5>4. PICK i \in 1..((n - k) + 1) : e.inputs[i].tick # e.tick
          BY <5>3
        <5>5. i = (n - k) + 1
          <6>1. i \notin 1..(n - k)
            BY <4>3, <5>4
          <6>2. PICK d : d = n - k
            OBVIOUS
          <6>3. d \in Nat
            BY <2>1, <4>3, <6>2
          <6>4. i \in 1..(d + 1) /\ i \notin 1..d
            BY <5>4, <6>1, <6>2
          <6>5. i = d + 1
            BY ONLY <6>3, <6>4
          <6> QED BY <6>2, <6>5
        <5>6. e.inputs[(n - k) + 1].tick # e.tick
          BY <5>4, <5>5
        <5> QED BY <4>3, <5>6
      <4> QED BY <4>3, <4>4, <4>5
    <3> QED BY <3>1, <3>2
  <2>3. Taken(e) = CHOOSE m \in 1..n : Good(m)
    BY <1>3 DEF Taken
  <2> HIDE DEF Good
  <2>4. Taken(e) \in 1..n
    BY <2>2, <2>3
  <2> QED BY <2>1, <2>4
<1> QED BY <1>2, <1>3

-----------------------------------------------------------------------------
(* The ways a tick can end. *)

LEMMA IdsOfCalls ==
    ASSUME NEW s \in Seq(Call), NEW t \in Seq(Call)
    PROVE  /\ CallIds(s) \in Seq(Nat) /\ Len(CallIds(s)) = Len(s)
           /\ CallIds(s \o t) = CallIds(s) \o CallIds(t)
<1>1. ASSUME NEW c \in Seq(Call)
      PROVE  CallIds(c) \in Seq(Nat) /\ Len(CallIds(c)) = Len(c)
             /\ \A i \in 1..Len(c) : CallIds(c)[i] = c[i].id
  <2>1. DOMAIN c = 1..Len(c) /\ Len(c) \in Nat /\ \A i \in 1..Len(c) : c[i].id \in Nat
    <3>1. \A i \in 1..Len(c) : c[i] \in Call
      BY ElementOfSeq
    <3>2. \A x \in Call : x.id \in Nat
      BY DEF Call
    <3> QED BY <3>1, <3>2, LenProperties
  <2>2. CallIds(c) \in [1..Len(c) -> Nat]
    BY <2>1 DEF CallIds
  <2>3. CallIds(c) \in Seq(Nat)
    <3>1. PICK k \in Nat : k = Len(c)
      BY <2>1
    <3>2. CallIds(c) \in [1..k -> Nat]
      BY <2>2, <3>1
    <3> QED BY <3>2, SeqDef
  <2>4. DOMAIN CallIds(c) = 1..Len(CallIds(c))
    BY <2>3, LenProperties
  <2>5. Len(CallIds(c)) = Len(c)
    BY <2>1, <2>2, <2>3, <2>4, LenProperties
  <2>6. \A i \in 1..Len(c) : CallIds(c)[i] = c[i].id
    BY <2>1 DEF CallIds
  <2> QED BY <2>3, <2>5, <2>6
<1>2. s \o t \in Seq(Call) /\ Len(s \o t) = Len(s) + Len(t)
      /\ Len(s) \in Nat /\ Len(t) \in Nat
  BY ConcatProperties, LenProperties
<1>3. PICK u \in Seq(Nat) : u = CallIds(s) /\ Len(u) = Len(s) /\ \A i \in 1..Len(s) : u[i] = s[i].id
  BY <1>1
<1>4. PICK v \in Seq(Nat) : v = CallIds(t) /\ Len(v) = Len(t) /\ \A i \in 1..Len(t) : v[i] = t[i].id
  BY <1>1
<1>5. PICK x \in Seq(Nat) : x = CallIds(s \o t) /\ Len(x) = Len(s) + Len(t)
                            /\ \A i \in 1..(Len(s) + Len(t)) : x[i] = (s \o t)[i].id
  BY <1>1, <1>2
<1>6. u \o v \in Seq(Nat) /\ Len(u \o v) = Len(s) + Len(t)
  <2>1. u \o v \in Seq(Nat) /\ Len(u \o v) = Len(u) + Len(v)
    BY ConcatProperties
  <2> QED BY <1>3, <1>4, <2>1
<1>7. ASSUME NEW i \in 1..(Len(s) + Len(t)) PROVE x[i] = (u \o v)[i]
  <2>1. CASE i <= Len(s)
    <3>1. (s \o t)[i] = s[i] /\ i \in 1..Len(s)
      BY <1>2, <2>1, ConcatProperties
    <3>2. (u \o v)[i] = u[i]
      BY <1>2, <1>3, <1>4, <2>1, ConcatProperties
    <3> QED BY <1>3, <1>5, <3>1, <3>2
  <2>2. CASE i > Len(s)
    <3>1. PICK j : j = i - Len(s)
      OBVIOUS
    <3>2. PICK y : y = (s \o t)[i]
      OBVIOUS
    <3>9. y = t[j] /\ j \in 1..Len(t)
      BY <1>2, <2>2, <3>1, <3>2, ConcatProperties
    <3>3. (u \o v)[i] = v[j]
      BY <1>2, <1>3, <1>4, <2>2, <3>1, ConcatProperties
    <3>4. v[j] = t[j].id
      BY <1>4, <3>9
    <3>5. x[i] = y.id
      BY <1>5, <3>2
    <3> QED BY <3>3, <3>4, <3>5, <3>9
  <2>3. i <= Len(s) \/ i > Len(s)
    BY <1>2
  <2> QED BY <2>1, <2>2, <2>3, Zenon
<1>8. x = u \o v
  BY <1>5, <1>6, <1>7, SeqEqual
<1> QED BY <1>3, <1>4, <1>5, <1>8

(* What every end of a tick of entry e is like: its queues hold no more    *)
(* than before, its address, topology and worker are as before, and the    *)
(* calls it executed and those it keeps are, in order, the ones it had.    *)
Outcome(e, o) ==
    /\ o = [entry |-> o.entry, calls |-> o.calls, ok |-> o.ok, sent |-> o.sent]
    /\ o.entry \in Entry
    /\ o.entry.part = e.part /\ o.entry.known = e.known /\ o.entry.worker = e.worker
    /\ o.entry.state \in {e.state, "Failed"}
    /\ Len(o.entry.inputs) <= Len(e.inputs)
    /\ Len(o.entry.calls) = Len(e.calls) - Len(o.calls)
    /\ o.sent \in Seq(Message)
    /\ o.calls \in Seq(Nat)
    /\ CallIds(e.calls) = o.calls \o CallIds(o.entry.calls)
    /\ o.ok \in BOOLEAN
    /\ ~o.ok /\ o.calls # <<>> => o.entry.state = "Failed"

LEMMA SentMessages ==
    ASSUME NEW e \in Entry, NEW s \in Sends(e)
    PROVE  s \in Seq(Message)
<1>1. CASE s = <<>>
  BY <1>1, EmptySeq
<1>2. ASSUME NEW a \in e.known, s = <<[from |-> e.part, to |-> a, tick |-> e.tick, seq |-> 0]>>
      PROVE  s \in Seq(Message)
  <2>1. [from |-> e.part, to |-> a, tick |-> e.tick, seq |-> 0] \in Message
    BY DEF Entry, Message
  <2> HIDE DEF Message
  <2> QED BY <1>2, <2>1
<1> QED BY <1>1, <1>2 DEF Sends

(* A world entry by its fields. *)
Fields(p, k, t, w, s, i, c) ==
    [part |-> p, known |-> k, tick |-> t, worker |-> w, state |-> s, inputs |-> i, calls |-> c]

LEMMA NewTick ==
    ASSUME NEW p, NEW k, NEW t, NEW w, NEW s, NEW i, NEW c, NEW x
    PROVE  [Fields(p, k, t, w, s, i, c) EXCEPT !.tick = x] = Fields(p, k, x, w, s, i, c)
BY DEF Fields

LEMMA NewState ==
    ASSUME NEW p, NEW k, NEW t, NEW w, NEW s, NEW i, NEW c, NEW x
    PROVE  [Fields(p, k, t, w, s, i, c) EXCEPT !.state = x] = Fields(p, k, t, w, x, i, c)
BY DEF Fields

LEMMA NewInputs ==
    ASSUME NEW p, NEW k, NEW t, NEW w, NEW s, NEW i, NEW c, NEW x
    PROVE  [Fields(p, k, t, w, s, i, c) EXCEPT !.inputs = x] = Fields(p, k, t, w, s, x, c)
BY DEF Fields

LEMMA NewCalls ==
    ASSUME NEW p, NEW k, NEW t, NEW w, NEW s, NEW i, NEW c, NEW x
    PROVE  [Fields(p, k, t, w, s, i, c) EXCEPT !.calls = x] = Fields(p, k, t, w, s, i, x)
BY DEF Fields

LEMMA FieldsOf ==
    ASSUME NEW e \in Entry
    PROVE  /\ e.part \in Address /\ e.known \in SUBSET Address /\ e.tick \in Nat /\ e.worker \in Worker
           /\ e.state \in {"Created", "Running", "Stopped", "Failed"}
           /\ e.inputs \in Seq(Frame) /\ e.calls \in Seq(Call)
           /\ e = Fields(e.part, e.known, e.tick, e.worker, e.state, e.inputs, e.calls)
BY DEF Entry, Fields

LEMMA FieldTypes ==
    ASSUME NEW p \in Address, NEW k \in SUBSET Address, NEW t \in Nat, NEW w \in Worker,
           NEW s \in {"Created", "Running", "Stopped", "Failed"}, NEW i \in Seq(Frame), NEW c \in Seq(Call)
    PROVE  Fields(p, k, t, w, s, i, c) \in Entry
BY DEF Entry, Fields

LEMMA FieldValues ==
    ASSUME NEW p, NEW k, NEW t, NEW w, NEW s, NEW i, NEW c, NEW e, e = Fields(p, k, t, w, s, i, c)
    PROVE  /\ e.part = p /\ e.known = k /\ e.tick = t /\ e.worker = w /\ e.state = s
           /\ e.inputs = i /\ e.calls = c
BY DEF Fields

LEMMA TickEnds ==
    ASSUME NEW e \in Entry, NEW batch, NEW o \in TickOutcomes(e, batch)
    PROVE  Outcome(e, o)
<1> DEFINE n == IF Len(e.calls) < MaxCallsPerTick THEN Len(e.calls) ELSE MaxCallsPerTick
           popped == [e EXCEPT !.inputs = SubSeq(@, Taken(e) + 1, Len(@))]
<1>1. PICK passes \in BOOLEAN : passes = Gate(e, batch, SubSeq(e.calls, 1, n))
  BY DEF Gate
<1>2. e.calls \in Seq(Call) /\ Len(e.calls) \in Nat /\ n \in 0..Len(e.calls)
  BY LenProperties, RuntimeAssumption DEF Entry
<1>3. PICK taken \in Seq(Call), left \in Seq(Call) :
        /\ taken = SubSeq(e.calls, 1, n) /\ left = SubSeq(e.calls, n + 1, Len(e.calls))
        /\ Len(left) = Len(e.calls) - Len(taken)
        /\ taken \o left = e.calls
  <2> HIDE DEF n
  <2>1. \A i \in 1..Len(e.calls) : e.calls[i] \in Call
    BY <1>2, ElementOfSeq
  <2>2. SubSeq(e.calls, 1, n) \in Seq(Call) /\ Len(SubSeq(e.calls, 1, n)) = n
    BY <1>2, <2>1, SubSeqProperties
  <2>3. /\ SubSeq(e.calls, n + 1, Len(e.calls)) \in Seq(Call)
        /\ Len(SubSeq(e.calls, n + 1, Len(e.calls))) = Len(e.calls) - n
    BY <1>2, <2>1, SubSeqProperties
  <2>4. SubSeq(e.calls, 1, n) \o SubSeq(e.calls, n + 1, Len(e.calls)) = SubSeq(e.calls, 1, Len(e.calls))
    <3>1. 1 \in 1..(Len(e.calls) + 1) /\ n \in (1 - 1)..Len(e.calls) /\ Len(e.calls) \in n..Len(e.calls)
      BY <1>2
    <3> QED BY <1>2, <3>1, ConcatAdjacentSubSeq
  <2>5. SubSeq(e.calls, 1, Len(e.calls)) = e.calls
    BY <1>2, SubSeqFull
  <2> QED BY <2>2, <2>3, <2>4, <2>5
<1> DEFINE done == [popped EXCEPT !.calls = left, !.tick = @ + 1]
           failed == [popped EXCEPT
                         !.calls = Requeued(left, taken),
                         !.tick  = IF passes THEN @ + 1 ELSE @,
                         !.state = IF Policy = "FailWorld" THEN "Failed" ELSE @]
           unlogged == [done EXCEPT !.state = "Failed"]
<1>4. \/ o = [entry |-> failed, calls |-> <<>>, ok |-> FALSE, sent |-> <<>>]
      \/ \E s \in Sends(e) : o = [entry |-> done, calls |-> CallIds(taken), ok |-> TRUE, sent |-> s]
      \/ o = [entry |-> unlogged, calls |-> CallIds(taken), ok |-> FALSE, sent |-> <<>>]
  BY <1>1, <1>3 DEF TickOutcomes
<1>5. PICK rest \in Seq(Frame) : rest = SubSeq(e.inputs, Taken(e) + 1, Len(e.inputs)) /\ Len(rest) <= Len(e.inputs)
  <2>1. e.inputs \in Seq(Frame) /\ Len(e.inputs) \in Nat
    BY LenProperties DEF Entry
  <2>2. Taken(e) \in Nat /\ Taken(e) <= Len(e.inputs)
    BY TakesFrames
  <2>3. \A i \in (Taken(e) + 1)..Len(e.inputs) : e.inputs[i] \in Frame
    BY <2>1, <2>2, ElementOfSeq
  <2>4. PICK m : m = Taken(e)
    OBVIOUS
  <2>5. SubSeq(e.inputs, m + 1, Len(e.inputs)) \in Seq(Frame)
        /\ Len(SubSeq(e.inputs, m + 1, Len(e.inputs)))
             = IF m + 1 <= Len(e.inputs) THEN Len(e.inputs) - (m + 1) + 1 ELSE 0
    BY <2>1, <2>2, <2>3, <2>4, SubSeqProperties
  <2>6. Len(SubSeq(e.inputs, m + 1, Len(e.inputs))) <= Len(e.inputs)
    BY <2>1, <2>2, <2>4, <2>5
  <2> QED BY <2>4, <2>5, <2>6
<1>6. popped = [e EXCEPT !.inputs = rest]
  BY <1>5
<1>7. PICK p, k, t, w, s, i, c :
        /\ e.part = p /\ e.known = k /\ e.tick = t /\ e.worker = w /\ e.state = s
        /\ e.inputs = i /\ e.calls = c
  OBVIOUS
<1>12. /\ p \in Address /\ k \in SUBSET Address /\ t \in Nat /\ t + 1 \in Nat /\ w \in Worker
       /\ s \in {"Created", "Running", "Stopped", "Failed"} /\ c \in Seq(Call)
       /\ e = Fields(p, k, t, w, s, i, c)
  BY <1>7, FieldsOf
<1> HIDE DEF popped, n
<1>8. popped = Fields(p, k, t, w, s, rest, c) /\ popped.tick = t /\ popped.state = s
  <2>1. popped = Fields(p, k, t, w, s, rest, c)
    BY <1>6, <1>12, NewInputs
  <2> QED BY <2>1, FieldValues
<1>9. done = Fields(p, k, t + 1, w, s, rest, left)
  <2>1. PICK d : d = [popped EXCEPT !.calls = left]
    OBVIOUS
  <2>2. done = [d EXCEPT !.tick = t + 1]
    BY <1>8, <2>1
  <2>3. d = Fields(p, k, t, w, s, rest, left)
    BY <1>8, <2>1, NewCalls
  <2> HIDE DEF done
  <2> QED BY <2>2, <2>3, NewTick
<1>10. unlogged = Fields(p, k, t + 1, w, "Failed", rest, left)
  <2>1. unlogged = [done EXCEPT !.state = "Failed"]
    OBVIOUS
  <2> HIDE DEF done, unlogged
  <2> QED BY <1>9, <2>1, NewState
<1>11. PICK tt \in Nat, ss \in {s, "Failed"} : failed = Fields(p, k, tt, w, ss, rest, c)
  <2>1. PICK tt, ss : /\ tt = IF passes THEN popped.tick + 1 ELSE popped.tick
                      /\ ss = IF Policy = "FailWorld" THEN "Failed" ELSE popped.state
    OBVIOUS
  <2>2. Requeued(left, taken) = c
    BY <1>3, <1>7 DEF Requeued
  <2>3. PICK d1 : d1 = [popped EXCEPT !.calls = c]
    OBVIOUS
  <2>6. PICK d2 : d2 = [d1 EXCEPT !.tick = tt]
    OBVIOUS
  <2>4. failed = Fields(p, k, tt, w, ss, rest, c)
    <3>1. failed = [d2 EXCEPT !.state = ss]
      BY <2>1, <2>2, <2>3, <2>6
    <3>2. d1 = Fields(p, k, t, w, s, rest, c)
      BY <1>8, <2>3, NewCalls
    <3>3. d2 = Fields(p, k, tt, w, s, rest, c)
      BY <3>2, <2>6, NewTick
    <3> HIDE DEF failed
    <3> QED BY <3>1, <3>3, NewState
  <2>5. tt \in Nat /\ ss \in {s, "Failed"}
    BY <1>8, <1>12, <2>1
  <2> QED BY <2>4, <2>5
<1> HIDE DEF done, failed, unlogged
<1>13. done \in Entry /\ failed \in Entry /\ unlogged \in Entry
  <2>1. done \in Entry
    BY <1>9, <1>12, FieldTypes
  <2>2. failed \in Entry
    BY <1>11, <1>12, FieldTypes
  <2>3. unlogged \in Entry
    BY <1>10, <1>12, FieldTypes
  <2> QED BY <2>1, <2>2, <2>3
<1>14. /\ <<>> \in Seq(Nat) /\ Len(<<>>) = 0 /\ CallIds(taken) \in Seq(Nat)
       /\ CallIds(e.calls) = CallIds(taken) \o CallIds(left)
       /\ CallIds(e.calls) = <<>> \o CallIds(e.calls)
       /\ <<>> \in Seq(Message)
  <2>1. <<>> \in Seq(Nat) /\ Len(<<>>) = 0 /\ <<>> \in Seq(Message)
    BY EmptySeq
  <2>2. CallIds(taken) \in Seq(Nat) /\ CallIds(e.calls) \in Seq(Nat)
    BY <1>2, <1>3, IdsOfCalls
  <2>3. CallIds(e.calls) = CallIds(taken) \o CallIds(left)
    BY <1>2, <1>3, IdsOfCalls
  <2>4. CallIds(e.calls) = <<>> \o CallIds(e.calls)
    BY <2>2, ConcatEmptySeq
  <2> QED BY <2>1, <2>2, <2>3, <2>4
<1>15. Len(CallIds(taken)) = Len(taken)
  BY <1>3, IdsOfCalls
<1>16. ASSUME NEW en \in Entry, NEW cs \in Seq(Nat), NEW ok \in BOOLEAN, NEW sent \in Seq(Message),
              NEW t2, NEW s2 \in {s, "Failed"}, NEW left2 \in Seq(Call),
              en = Fields(p, k, t2, w, s2, rest, left2),
              Len(left2) = Len(e.calls) - Len(cs),
              CallIds(e.calls) = cs \o CallIds(left2),
              ~ok /\ cs # <<>> => s2 = "Failed",
              o = [entry |-> en, calls |-> cs, ok |-> ok, sent |-> sent]
       PROVE  Outcome(e, o)
  <2>1. /\ e.part = p /\ e.known = k /\ e.worker = w /\ e.state = s
        /\ en.part = p /\ en.known = k /\ en.worker = w /\ en.state = s2
        /\ en.inputs = rest /\ en.calls = left2
    BY <1>7, <1>16, FieldValues
  <2>2. /\ o = [entry |-> o.entry, calls |-> o.calls, ok |-> o.ok, sent |-> o.sent]
        /\ o.entry = en /\ o.calls = cs /\ o.ok = ok /\ o.sent = sent
    BY <1>16
  <2> QED BY <1>5, <1>16, <2>1, <2>2 DEF Outcome
<1>17. CASE o = [entry |-> failed, calls |-> <<>>, ok |-> FALSE, sent |-> <<>>]
  <2>1. e.calls = c /\ Len(c) = Len(c) - 0
    BY <1>2, <1>7
  <2> QED BY <1>11, <1>12, <1>13, <1>14, <1>16, <1>17, <2>1
<1>18. CASE \E x \in Sends(e) : o = [entry |-> done, calls |-> CallIds(taken), ok |-> TRUE, sent |-> x]
  <2>1. PICK x \in Seq(Message) : o = [entry |-> done, calls |-> CallIds(taken), ok |-> TRUE, sent |-> x]
    BY <1>18, SentMessages
  <2> QED BY <2>1, <1>3, <1>9, <1>13, <1>14, <1>15, <1>16
<1>19. CASE o = [entry |-> unlogged, calls |-> CallIds(taken), ok |-> FALSE, sent |-> <<>>]
  BY <1>3, <1>10, <1>13, <1>14, <1>15, <1>16, <1>19
<1> QED BY <1>4, <1>17, <1>18, <1>19

-----------------------------------------------------------------------------
(* The worlds: types, and the worlds of a step. *)

States == {"Created", "Running", "Stopped", "Failed"}

LEMMA EntryFields ==
    ASSUME NEW e \in BoundedEntry
    PROVE  /\ e # None
           /\ \A s \in States :
                 /\ [e EXCEPT !.state = s] \in BoundedEntry
                 /\ [e EXCEPT !.state = s].state = s /\ [e EXCEPT !.state = s].calls = e.calls
                 /\ [e EXCEPT !.state = s].worker = e.worker /\ [e EXCEPT !.state = s].part = e.part
                 /\ [e EXCEPT !.state = s].known = e.known
           /\ \A k \in Worker :
                 /\ [e EXCEPT !.worker = k] \in BoundedEntry
                 /\ [e EXCEPT !.worker = k].worker = k /\ [e EXCEPT !.worker = k].calls = e.calls
                 /\ [e EXCEPT !.worker = k].state = e.state /\ [e EXCEPT !.worker = k].part = e.part
                 /\ [e EXCEPT !.worker = k].known = e.known
           /\ \A a \in Address :
                 /\ [e EXCEPT !.part = a] \in BoundedEntry
                 /\ [e EXCEPT !.part = a].part = a /\ [e EXCEPT !.part = a].calls = e.calls
                 /\ [e EXCEPT !.part = a].state = e.state /\ [e EXCEPT !.part = a].worker = e.worker
                 /\ [e EXCEPT !.part = a].known = e.known
           /\ \A t \in SUBSET Address :
                 /\ [e EXCEPT !.known = t] \in BoundedEntry
                 /\ [e EXCEPT !.known = t].known = t /\ [e EXCEPT !.known = t].calls = e.calls
                 /\ [e EXCEPT !.known = t].state = e.state /\ [e EXCEPT !.known = t].worker = e.worker
                 /\ [e EXCEPT !.known = t].part = e.part
<1>1. e \in Entry /\ Len(e.inputs) <= MaxQueuedInputs /\ Len(e.calls) <= MaxQueuedCalls
  BY DEF BoundedEntry
<1>2. e # None
  BY <1>1, NoneAssumption
<1>3. ASSUME NEW s \in States PROVE [e EXCEPT !.state = s] \in BoundedEntry
  <2>1. [e EXCEPT !.state = s] \in Entry /\ [e EXCEPT !.state = s].calls = e.calls
        /\ [e EXCEPT !.state = s].inputs = e.inputs
    BY <1>1 DEF Entry, States
  <2> QED BY <1>1, <2>1 DEF BoundedEntry
<1>4. ASSUME NEW k \in Worker PROVE [e EXCEPT !.worker = k] \in BoundedEntry
  <2>1. [e EXCEPT !.worker = k] \in Entry /\ [e EXCEPT !.worker = k].calls = e.calls
        /\ [e EXCEPT !.worker = k].inputs = e.inputs
    BY <1>1 DEF Entry
  <2> QED BY <1>1, <2>1 DEF BoundedEntry
<1>5. ASSUME NEW a \in Address PROVE [e EXCEPT !.part = a] \in BoundedEntry
  <2>1. [e EXCEPT !.part = a] \in Entry /\ [e EXCEPT !.part = a].calls = e.calls
        /\ [e EXCEPT !.part = a].inputs = e.inputs
    BY <1>1 DEF Entry
  <2> QED BY <1>1, <2>1 DEF BoundedEntry
<1>6. ASSUME NEW t \in SUBSET Address PROVE [e EXCEPT !.known = t] \in BoundedEntry
  <2>1. [e EXCEPT !.known = t] \in Entry /\ [e EXCEPT !.known = t].calls = e.calls
        /\ [e EXCEPT !.known = t].inputs = e.inputs
    BY <1>1 DEF Entry
  <2> QED BY <1>1, <2>1 DEF BoundedEntry
<1>7. DOMAIN e = {"part", "known", "tick", "worker", "state", "inputs", "calls"}
  BY <1>1 DEF Entry
<1> QED BY <1>2, <1>3, <1>4, <1>5, <1>6, <1>7

LEMMA NewEntries ==
    ASSUME NEW w \in World, NEW k \in Worker, NEW t \in Nat
    PROVE  /\ NewEntry(w, k, t) \in BoundedEntry
           /\ NewEntry(w, k, t).worker = k /\ NewEntry(w, k, t).calls = <<>>
           /\ NewEntry(w, k, t).state = "Created" /\ NewEntry(w, k, t).part = w
<1>1. PICK e : e = NewEntry(w, k, t)
  OBVIOUS
<1>2. /\ e.worker = k /\ e.calls = <<>> /\ e.inputs = <<>> /\ e.state = "Created"
      /\ e.part = w /\ e \in Entry
  <2>1. <<>> \in Seq(Frame) /\ <<>> \in Seq(Call)
    BY EmptySeq
  <2> QED BY <1>1, <2>1 DEF NewEntry, Entry, Address
<1>3. Len(<<>>) <= MaxQueuedInputs /\ Len(<<>>) <= MaxQueuedCalls
  BY RuntimeAssumption
<1> QED BY <1>1, <1>2, <1>3 DEF BoundedEntry

LEMMA Propagates ==
    ASSUME NEW es \in [World -> BoundedEntry \cup {None}], NEW rs
    PROVE  /\ Propagated(es, rs) \in [World -> BoundedEntry \cup {None}]
           /\ \A w \in World :
                 /\ Propagated(es, rs)[w] = None <=> es[w] = None
                 /\ es[w] # None =>
                       /\ Propagated(es, rs)[w].known = Topology(rs) \ {es[w].part}
                       /\ Propagated(es, rs)[w].part = es[w].part
                       /\ Propagated(es, rs)[w].worker = es[w].worker
                       /\ Propagated(es, rs)[w].state = es[w].state
                       /\ Propagated(es, rs)[w].calls = es[w].calls
<1>1. \A w \in World : Topology(rs) \ {es[w].part} \in SUBSET Address
  BY DEF Topology
<1>2. ASSUME NEW w \in World, es[w] # None
      PROVE  /\ Propagated(es, rs)[w] = [es[w] EXCEPT !.known = Topology(rs) \ {es[w].part}]
             /\ Propagated(es, rs)[w] \in BoundedEntry /\ Propagated(es, rs)[w] # None
             /\ Propagated(es, rs)[w].known = Topology(rs) \ {es[w].part}
             /\ Propagated(es, rs)[w].part = es[w].part
             /\ Propagated(es, rs)[w].worker = es[w].worker
             /\ Propagated(es, rs)[w].state = es[w].state
             /\ Propagated(es, rs)[w].calls = es[w].calls
  <2>1. PICK e \in BoundedEntry : e = es[w]
    BY <1>2
  <2>2. PICK t \in SUBSET Address : t = Topology(rs) \ {es[w].part}
    BY <1>1
  <2>3. Propagated(es, rs)[w] = [e EXCEPT !.known = t]
    BY <1>2, <2>1, <2>2 DEF Propagated
  <2>4. [e EXCEPT !.known = t] \in BoundedEntry
    BY EntryFields
  <2> QED BY <2>1, <2>2, <2>3, <2>4, EntryFields
<1>3. \A w \in World : es[w] = None => Propagated(es, rs)[w] = None
  BY DEF Propagated
<1>4. Propagated(es, rs) = [w \in World |-> Propagated(es, rs)[w]]
  BY DEF Propagated
<1>5. Propagated(es, rs) \in [World -> BoundedEntry \cup {None}]
  BY <1>2, <1>3, <1>4
<1> QED BY <1>2, <1>3, <1>5

LEMMA BootedEntries ==
    ASSUME NEW n \in 0..WorldCount, NEW w \in World
    PROVE  /\ BootedEntry(w, n) \in BoundedEntry /\ BootedEntry(w, n) # None
           /\ BootedEntry(w, n).worker = w % WorkerCount /\ w % WorkerCount \in Worker
           /\ BootedEntry(w, n).calls = <<>> /\ BootedEntry(w, n).state = "Running"
           /\ BootedEntry(w, n).part = w /\ BootedEntry(w, n).known = (0..(n - 1)) \ {w}
<1>1. w % WorkerCount \in Worker
  BY RuntimeAssumption DEF World, Worker
<1>2. PICK e \in BoundedEntry : e = NewEntry(w, w % WorkerCount, 0) /\ e.worker = w % WorkerCount
                                /\ e.calls = <<>> /\ e.part = w
  BY <1>1, NewEntries
<1>3. PICK f \in BoundedEntry : f = [e EXCEPT !.state = "Running"] /\ f.worker = e.worker
                                /\ f.calls = e.calls /\ f.part = e.part /\ f.state = "Running"
  <2>1. "Running" \in States
    BY DEF States
  <2>2. PICK f : f = [e EXCEPT !.state = "Running"]
    OBVIOUS
  <2>3. f \in BoundedEntry /\ f.worker = e.worker /\ f.calls = e.calls /\ f.part = e.part
        /\ f.state = "Running"
    BY <2>1, <2>2, EntryFields
  <2> QED BY <2>2, <2>3
<1>4. PICK t \in SUBSET Address : t = (0..(n - 1)) \ {w}
  <2>1. (0..(n - 1)) \ {w} \subseteq Address
    BY RuntimeAssumption DEF Address, World
  <2> QED BY <2>1
<1>5. BootedEntry(w, n) = [f EXCEPT !.known = t]
  BY <1>2, <1>3, <1>4 DEF BootedEntry
<1>6. /\ [f EXCEPT !.known = t] \in BoundedEntry /\ [f EXCEPT !.known = t].worker = f.worker
      /\ [f EXCEPT !.known = t].calls = f.calls /\ [f EXCEPT !.known = t].state = f.state
      /\ [f EXCEPT !.known = t].part = f.part /\ [f EXCEPT !.known = t].known = t
  BY EntryFields
<1>7. [f EXCEPT !.known = t] # None
  BY <1>6, EntryFields
<1> QED BY <1>1, <1>2, <1>3, <1>4, <1>5, <1>6, <1>7

LEMMA WorldInit == RInit => WorldInv
<1> SUFFICES ASSUME RInit PROVE WorldInv
  OBVIOUS
<1>1. PICK n \in Boots : Booted(n)
  BY DEF RInit
<1>2. n \in 0..WorldCount /\ n \in Nat
  BY RuntimeAssumption
<1>3. worlds \in [World -> BoundedEntry \cup {None}]
  <2>1. \A w \in World : BootedEntry(w, n) \in BoundedEntry
    BY <1>2, BootedEntries
  <2> QED BY <1>1, <2>1 DEF Booted
<1>4. workers \in [Worker -> [state : {"Running", "Failed", "Stopped"}, worlds : SUBSET World]]
  <2>1. \A k \in Worker : {w \in 0 .. n - 1 : w % WorkerCount = k} \in SUBSET World
    BY <1>2, RuntimeAssumption DEF World
  <2> QED BY <1>1, <2>1 DEF Booted
<1>5. assignNext \in Worker
  BY <1>1, <1>2, RuntimeAssumption DEF Booted, Worker
<1>6. nextCall \in Nat /\ hist \in [World -> Calls] /\ step = None
  <2>1. EmptyHist \in Calls
    BY EmptySeq DEF EmptyHist, Calls
  <2> QED BY <2>1 DEF RInit
<1>7. \A w \in World : Exists(w) <=> w < n
  <2>1. \A w \in World : BootedEntry(w, n) # None
    BY <1>2, BootedEntries
  <2> QED BY <1>1, <2>1 DEF Booted, Exists
<1>8. \A w \in World : Exists(w) =>
         worlds[w].worker = w % WorkerCount /\ w % WorkerCount \in Worker /\ worlds[w].calls = <<>>
  BY <1>1, <1>2, <1>7, BootedEntries DEF Booted
<1>9. WorkersAgree
  <2>1. \A k \in Worker : workers[k].state = "Running"
                          /\ workers[k].worlds = {w \in 0 .. n - 1 : w % WorkerCount = k}
    BY <1>1 DEF Booted
  <2>2. \A w \in World : w \in 0 .. n - 1 <=> w < n
    BY <1>2 DEF World
  <2> QED BY <1>7, <1>8, <2>1, <2>2 DEF WorkersAgree
<1>10. CallsAreConserved
  <2>1. CallIds(<<>>) = <<>> /\ <<>> \o <<>> = <<>>
    BY DEF CallIds
  <2>2. \A w \in World : hist[w].accepted = <<>> /\ hist[w].answered = <<>> /\ hist[w].unanswered = <<>>
    BY DEF RInit, EmptyHist
  <2> QED BY <1>8, <2>1, <2>2 DEF CallsAreConserved
<1> QED BY <1>3, <1>4, <1>5, <1>6, <1>9, <1>10 DEF WorldInv, WorldTypes, StepTypes

(* A world is adopted by a running worker. *)
LEMMA Adopts ==
    ASSUME WorldTypes, NEW w \in World, NEW t \in Nat, RunningWorkers # {}, Adopt(w, t)
    PROVE  \E k \in Worker :
              /\ workers[k].state = "Running"
              /\ workers' = [workers EXCEPT ![k].worlds = @ \cup {w}]
              /\ worlds' = [worlds EXCEPT ![w] = NewEntry(w, k, t)]
              /\ hist' = [hist EXCEPT ![w] = EmptyHist]
<1>1. AssignWorker \in RunningWorkers
  BY AssignsRunning
<1> QED BY <1>1 DEF Adopt, RunningWorkers

LEMMA AdoptTypes ==
    ASSUME WorldTypes, NEW w \in World, NEW t \in Nat, RunningWorkers # {}, Adopt(w, t)
    PROVE  /\ workers' \in [Worker -> [state : {"Running", "Failed", "Stopped"}, worlds : SUBSET World]]
           /\ worlds' \in [World -> BoundedEntry \cup {None}]
           /\ hist' \in [World -> Calls]
<1>1. PICK k \in Worker :
              /\ workers[k].state = "Running"
              /\ workers' = [workers EXCEPT ![k].worlds = @ \cup {w}]
              /\ worlds' = [worlds EXCEPT ![w] = NewEntry(w, k, t)]
              /\ hist' = [hist EXCEPT ![w] = EmptyHist]
  BY Adopts
<1>2. EmptyHist \in Calls
  BY EmptySeq DEF EmptyHist, Calls
<1>3. NewEntry(w, k, t) \in BoundedEntry
  BY NewEntries
<1>4. workers' \in [Worker -> [state : {"Running", "Failed", "Stopped"}, worlds : SUBSET World]]
  BY <1>1 DEF WorldTypes
<1>5. worlds' \in [World -> BoundedEntry \cup {None}]
  BY <1>1, <1>3 DEF WorldTypes
<1>6. hist' \in [World -> Calls]
  BY <1>1, <1>2 DEF WorldTypes
<1> QED BY <1>4, <1>5, <1>6

LEMMA Counts ==
    ASSUME WorldTypes, CountAssignment
    PROVE  assignNext' \in Worker
BY RuntimeAssumption DEF WorldTypes, CountAssignment, Worker

(* A tick of world w with outcome o, as far as the worlds are concerned. *)
LEMMA OutcomeTypes ==
    ASSUME WorldTypes, NEW w \in World, Exists(w), NEW batch, NEW o \in TickOutcomes(worlds[w], batch),
           worlds' = [worlds EXCEPT ![w] = o.entry],
           hist' = [hist EXCEPT ![w] = Recorded(@, o)]
    PROVE  /\ worlds' \in [World -> BoundedEntry \cup {None}]
           /\ hist' \in [World -> Calls]
           /\ worlds'[w] = o.entry /\ worlds'[w] # None
           /\ Outcome(worlds[w], o)
<1>1. PICK e \in BoundedEntry : e = worlds[w]
  BY DEF WorldTypes, Exists
<1>2. e \in Entry /\ Len(e.inputs) <= MaxQueuedInputs /\ Len(e.calls) <= MaxQueuedCalls
      /\ Len(e.inputs) \in Nat /\ Len(e.calls) \in Nat
  BY LenProperties DEF BoundedEntry, Entry
<1>3. Outcome(e, o)
  BY <1>1, <1>2, TickEnds
<1>4. o.entry \in BoundedEntry
  <2>1. o.entry \in Entry /\ Len(o.entry.inputs) <= Len(e.inputs)
        /\ Len(o.entry.calls) = Len(e.calls) - Len(o.calls) /\ o.calls \in Seq(Nat)
    BY <1>3 DEF Outcome
  <2>2. Len(o.calls) \in Nat /\ Len(o.entry.inputs) \in Nat
    <3>1. o.entry.inputs \in Seq(Frame)
      BY <2>1 DEF Entry
    <3> QED BY <2>1, <3>1, LenProperties
  <2>3. MaxQueuedInputs \in Nat /\ MaxQueuedCalls \in Nat
    BY RuntimeAssumption
  <2>4. Len(o.entry.inputs) <= MaxQueuedInputs /\ Len(o.entry.calls) <= MaxQueuedCalls
    BY <1>2, <2>1, <2>2, <2>3
  <2> QED BY <2>1, <2>4 DEF BoundedEntry
<1>5. worlds' \in [World -> BoundedEntry \cup {None}] /\ worlds'[w] = o.entry
  BY <1>4 DEF WorldTypes
<1>6. o.entry # None
  BY <1>4, EntryFields
<1>7. Recorded(hist[w], o) \in Calls
  <2>1. PICK h \in Calls : h = hist[w]
    BY DEF WorldTypes
  <2>2. o.calls \in Seq(Nat) /\ h.answered \in Seq(Nat) /\ h.unanswered \in Seq(Nat)
    BY <1>3 DEF Outcome, Calls
  <2>3. h.answered \o o.calls \in Seq(Nat) /\ h.unanswered \o o.calls \in Seq(Nat)
    BY <2>2, ConcatProperties
  <2> QED BY <2>1, <2>3 DEF Recorded, Calls
<1>8. hist' \in [World -> Calls]
  BY <1>7 DEF WorldTypes
<1> QED BY <1>1, <1>3, <1>5, <1>6, <1>8

(* Between two steps nothing is due. *)
LEMMA NothingDue ==
    ASSUME Operation, step' = step
    PROVE  StepTypes'
BY DEF Operation, StepTypes

(* A change of lifecycle state, worker or topology leaves typed entries. *)
LEMMA SetState ==
    ASSUME WorldTypes, NEW w \in World, Exists(w), NEW s \in States,
           worlds' = [worlds EXCEPT ![w].state = s]
    PROVE  /\ worlds' \in [World -> BoundedEntry \cup {None}]
           /\ worlds'[w] # None /\ worlds'[w].state = s /\ worlds'[w].worker = worlds[w].worker
           /\ worlds'[w].part = worlds[w].part /\ worlds'[w].known = worlds[w].known
           /\ worlds'[w].calls = worlds[w].calls
           /\ \A v \in World \ {w} : worlds'[v] = worlds[v]
<1>1. PICK e \in BoundedEntry : e = worlds[w]
  BY DEF WorldTypes, Exists
<1>2. PICK f : f = [e EXCEPT !.state = s]
  OBVIOUS
<1>3. f \in BoundedEntry /\ f.state = s /\ f.calls = e.calls /\ f.worker = e.worker
      /\ f.part = e.part /\ f.known = e.known
  BY <1>2, EntryFields
<1>4. f # None
  BY <1>3, EntryFields
<1>5. worlds' = [worlds EXCEPT ![w] = f]
  BY <1>1, <1>2
<1> QED BY <1>1, <1>3, <1>4, <1>5 DEF WorldTypes

LEMMA FailedEntries ==
    ASSUME WorldTypes, NEW set \in SUBSET World, \A w \in set : Exists(w), worlds' = FailedWorlds(set)
    PROVE  /\ worlds' \in [World -> BoundedEntry \cup {None}]
           /\ \A w \in World \ set : worlds'[w] = worlds[w]
           /\ \A w \in set :
                 /\ worlds'[w] # None /\ worlds'[w].state = "Failed"
                 /\ worlds'[w].worker = worlds[w].worker /\ worlds'[w].calls = worlds[w].calls
                 /\ worlds'[w].part = worlds[w].part /\ worlds'[w].known = worlds[w].known
<1>1. ASSUME NEW w \in set
      PROVE  /\ worlds'[w] \in BoundedEntry /\ worlds'[w] # None /\ worlds'[w].state = "Failed"
             /\ worlds'[w].worker = worlds[w].worker /\ worlds'[w].calls = worlds[w].calls
             /\ worlds'[w].part = worlds[w].part /\ worlds'[w].known = worlds[w].known
  <2>1. PICK e \in BoundedEntry : e = worlds[w]
    BY DEF WorldTypes, Exists
  <2>2. PICK f : f = [e EXCEPT !.state = "Failed"]
    OBVIOUS
  <2>3. "Failed" \in States
    BY DEF States
  <2>4. f \in BoundedEntry /\ f.state = "Failed" /\ f.calls = e.calls /\ f.worker = e.worker
        /\ f.part = e.part /\ f.known = e.known
    BY <2>2, <2>3, EntryFields
  <2>5. f # None
    BY <2>4, EntryFields
  <2>6. worlds'[w] = f
    BY <2>1, <2>2 DEF FailedWorlds
  <2> QED BY <2>1, <2>4, <2>5, <2>6
<1>2. \A w \in World \ set : worlds'[w] = worlds[w]
  BY DEF FailedWorlds
<1>3. worlds' = [w \in World |-> worlds'[w]]
  BY DEF FailedWorlds
<1>4. worlds' \in [World -> BoundedEntry \cup {None}]
  BY <1>1, <1>2, <1>3 DEF WorldTypes
<1> QED BY <1>1, <1>2, <1>4

LEMMA StoppedEntries ==
    ASSUME WorldTypes, Shutdown
    PROVE  /\ worlds' \in [World -> BoundedEntry \cup {None}]
           /\ \A w \in World : worlds[w] = None => worlds'[w] = None
           /\ \A w \in World : worlds[w] # None =>
                 /\ worlds'[w] # None
                 /\ worlds'[w].state = IF worlds[w].state = "Running" THEN "Stopped" ELSE worlds[w].state
                 /\ worlds'[w].worker = worlds[w].worker /\ worlds'[w].calls = worlds[w].calls
                 /\ worlds'[w].part = worlds[w].part /\ worlds'[w].known = worlds[w].known
<1>1. \A w \in World : worlds'[w] = IF w \in RunningWorlds THEN [worlds[w] EXCEPT !.state = "Stopped"]
                                                          ELSE worlds[w]
  BY DEF Shutdown
<1>2. \A w \in World : worlds[w] = None => worlds'[w] = None
  BY <1>1 DEF RunningWorlds, Exists
<1>3. ASSUME NEW w \in World, worlds[w] # None
      PROVE  /\ worlds'[w] \in BoundedEntry /\ worlds'[w] # None
             /\ worlds'[w].state = IF worlds[w].state = "Running" THEN "Stopped" ELSE worlds[w].state
             /\ worlds'[w].worker = worlds[w].worker /\ worlds'[w].calls = worlds[w].calls
             /\ worlds'[w].part = worlds[w].part /\ worlds'[w].known = worlds[w].known
  <2>1. PICK e \in BoundedEntry : e = worlds[w]
    BY <1>3 DEF WorldTypes
  <2>2. PICK f : f = [e EXCEPT !.state = "Stopped"]
    OBVIOUS
  <2>3. "Stopped" \in States
    BY DEF States
  <2>4. f \in BoundedEntry /\ f.state = "Stopped" /\ f.calls = e.calls /\ f.worker = e.worker
        /\ f.part = e.part /\ f.known = e.known
    BY <2>2, <2>3, EntryFields
  <2>5. f # None
    BY <2>4, EntryFields
  <2>6. worlds'[w] = IF e.state = "Running" THEN f ELSE e
    BY <1>1, <1>3, <2>1, <2>2 DEF RunningWorlds, Exists
  <2> QED BY <1>3, <2>1, <2>4, <2>5, <2>6
<1>4. worlds' = [w \in World |-> worlds'[w]]
  BY DEF Shutdown
<1>5. worlds' \in [World -> BoundedEntry \cup {None}]
  BY <1>2, <1>3, <1>4
<1> QED BY <1>2, <1>3, <1>5

(* A queue grows by one element at most up to its bound. *)
LEMMA CallQueued ==
    ASSUME WorldTypes, NEW w \in World, SubmitReducerCall(w)
    PROVE  /\ worlds' \in [World -> BoundedEntry \cup {None}]
           /\ hist' \in [World -> Calls]
           /\ nextCall' \in Nat
           /\ \A v \in World \ {w} : worlds'[v] = worlds[v] /\ hist'[v] = hist[v]
           /\ worlds'[w] # None /\ worlds'[w].state = worlds[w].state
           /\ worlds'[w].worker = worlds[w].worker /\ worlds'[w].part = worlds[w].part
           /\ worlds'[w].known = worlds[w].known
           /\ \E c \in Call : worlds'[w].calls = Append(worlds[w].calls, c) /\ c.id = nextCall
           /\ hist'[w].accepted = Append(hist[w].accepted, nextCall)
           /\ hist'[w].answered = hist[w].answered /\ hist'[w].unanswered = hist[w].unanswered
<1>1. PICK e \in BoundedEntry : e = worlds[w]
  BY DEF WorldTypes, Exists, SubmitReducerCall
<1>2. PICK c : c = [id |-> nextCall, oversized |-> nextCall \in OversizedCalls]
  OBVIOUS
<1>3. c \in Call /\ c.id = nextCall /\ nextCall \in Nat
  BY <1>2 DEF Call, WorldTypes
<1>4. e \in Entry /\ e.calls \in Seq(Call) /\ Len(e.calls) \in Nat /\ MaxQueuedCalls \in Nat
      /\ Len(e.inputs) <= MaxQueuedInputs /\ Len(e.calls) < MaxQueuedCalls
  BY <1>1, LenProperties, RuntimeAssumption DEF BoundedEntry, Entry, SubmitReducerCall
<1>5. PICK q : q = Append(e.calls, c)
  OBVIOUS
<1>6. q \in Seq(Call) /\ Len(q) = Len(e.calls) + 1
  BY <1>3, <1>4, <1>5, AppendProperties
<1>7. PICK f : f = [e EXCEPT !.calls = q]
  OBVIOUS
<1>8. f \in Entry /\ f.calls = q /\ f.inputs = e.inputs /\ f.state = e.state /\ f.worker = e.worker
      /\ f.part = e.part /\ f.known = e.known
  BY <1>4, <1>6, <1>7 DEF Entry
<1>9. f \in BoundedEntry
  BY <1>4, <1>6, <1>8 DEF BoundedEntry
<1>10. f # None
  BY <1>9, EntryFields
<1>11. worlds' = [worlds EXCEPT ![w] = f]
  BY <1>1, <1>2, <1>5, <1>7 DEF SubmitReducerCall
<1>12. PICK h \in Calls : h = hist[w]
  BY DEF WorldTypes
<1>13. Append(h.accepted, nextCall) \in Seq(Nat)
  BY <1>3, AppendProperties DEF Calls
<1>14. PICK g : g = [h EXCEPT !.accepted = Append(h.accepted, nextCall)]
  OBVIOUS
<1>15. g \in Calls /\ g.accepted = Append(h.accepted, nextCall) /\ g.answered = h.answered
       /\ g.unanswered = h.unanswered
  BY <1>13, <1>14 DEF Calls
<1>16. hist' = [hist EXCEPT ![w] = g]
  BY <1>12, <1>14 DEF SubmitReducerCall
<1>17. worlds' \in [World -> BoundedEntry \cup {None}] /\ worlds'[w] = f
       /\ \A v \in World \ {w} : worlds'[v] = worlds[v]
  BY <1>9, <1>11 DEF WorldTypes
<1>18. hist' \in [World -> Calls] /\ hist'[w] = g /\ \A v \in World \ {w} : hist'[v] = hist[v]
  BY <1>15, <1>16 DEF WorldTypes
<1>19. nextCall' \in Nat
  BY <1>3 DEF SubmitReducerCall
<1>20. \E d \in Call : worlds'[w].calls = Append(worlds[w].calls, d) /\ d.id = nextCall
  BY <1>1, <1>3, <1>5, <1>8, <1>17
<1> QED BY <1>1, <1>8, <1>10, <1>12, <1>15, <1>17, <1>18, <1>19, <1>20

LEMMA InputQueued ==
    ASSUME WorldTypes, NEW w \in World, NEW t \in Nat, NEW n \in Nat, SubmitInput(w, t, n)
    PROVE  /\ worlds' \in [World -> BoundedEntry \cup {None}]
           /\ \A v \in World \ {w} : worlds'[v] = worlds[v]
           /\ worlds'[w] # None /\ worlds'[w].state = worlds[w].state
           /\ worlds'[w].worker = worlds[w].worker /\ worlds'[w].part = worlds[w].part
           /\ worlds'[w].known = worlds[w].known /\ worlds'[w].calls = worlds[w].calls
<1>1. PICK e \in BoundedEntry : e = worlds[w]
  BY DEF WorldTypes, Exists, SubmitInput
<1>2. PICK c : c = [tick |-> t, size |-> n]
  OBVIOUS
<1>3. c \in Frame
  BY <1>2 DEF Frame
<1>4. e \in Entry /\ e.inputs \in Seq(Frame) /\ Len(e.inputs) \in Nat /\ MaxQueuedInputs \in Nat
      /\ Len(e.calls) <= MaxQueuedCalls /\ Len(e.inputs) < MaxQueuedInputs
  BY <1>1, LenProperties, RuntimeAssumption DEF BoundedEntry, Entry, SubmitInput
<1>5. PICK q : q = Append(e.inputs, c)
  OBVIOUS
<1>6. q \in Seq(Frame) /\ Len(q) = Len(e.inputs) + 1
  BY <1>3, <1>4, <1>5, AppendProperties
<1>7. PICK f : f = [e EXCEPT !.inputs = q]
  OBVIOUS
<1>8. f \in Entry /\ f.inputs = q /\ f.calls = e.calls /\ f.state = e.state /\ f.worker = e.worker
      /\ f.part = e.part /\ f.known = e.known
  BY <1>4, <1>6, <1>7 DEF Entry
<1>9. f \in BoundedEntry
  BY <1>4, <1>6, <1>8 DEF BoundedEntry
<1>10. f # None
  BY <1>9, EntryFields
<1>11. worlds' = [worlds EXCEPT ![w] = f]
  BY <1>1, <1>2, <1>5, <1>7 DEF SubmitInput
<1> QED BY <1>1, <1>8, <1>9, <1>10, <1>11 DEF WorldTypes

LEMMA JoinsAlike ==
    ASSUME NEW s \in Seq(Nat), NEW t \in Seq(Nat), NEW u \in Seq(Nat)
    PROVE  (s \o t) \o u = s \o (t \o u)
OBVIOUS

(* What keeps the ownership and the calls of every world as they are. *)
LEMMA SameOwners ==
    ASSUME WorkersAgree, workers' = workers,
           \A w \in World : worlds'[w] = None <=> worlds[w] = None,
           \A w \in World : worlds[w] # None =>
               worlds'[w].worker = worlds[w].worker
               /\ (worlds[w].state = "Failed" => worlds'[w].state = "Failed")
    PROVE  WorkersAgree'
BY DEF WorkersAgree, Exists

LEMMA SameCalls ==
    ASSUME CallsAreConserved, hist' = hist,
           \A w \in World : worlds'[w] # None =>
               /\ worlds[w] # None /\ worlds'[w].calls = worlds[w].calls
               /\ worlds[w].state = "Failed" => worlds'[w].state = "Failed"
    PROVE  CallsAreConserved'
BY DEF CallsAreConserved, Exists

(* A new world has accepted nothing. *)
LEMMA AdoptedWorld ==
    ASSUME WorldTypes, WorkersAgree, CallsAreConserved,
           NEW w \in World, ~Exists(w), NEW t \in Nat, RunningWorkers # {}, Adopt(w, t)
    PROVE  WorkersAgree' /\ CallsAreConserved'
<1>1. PICK k \in Worker :
              /\ workers[k].state = "Running"
              /\ workers' = [workers EXCEPT ![k].worlds = @ \cup {w}]
              /\ worlds' = [worlds EXCEPT ![w] = NewEntry(w, k, t)]
              /\ hist' = [hist EXCEPT ![w] = EmptyHist]
  BY Adopts
<1>2. PICK e \in BoundedEntry : e = NewEntry(w, k, t) /\ e.worker = k /\ e.calls = <<>> /\ e # None
  BY NewEntries, EntryFields
<1>3. worlds'[w] = e /\ \A v \in World \ {w} : worlds'[v] = worlds[v]
  BY <1>1, <1>2 DEF WorldTypes
<1>4. hist'[w] = EmptyHist /\ \A v \in World \ {w} : hist'[v] = hist[v]
  BY <1>1 DEF WorldTypes
<1>5. \A j \in Worker : workers'[j].state = workers[j].state
                        /\ workers'[j].worlds = IF j = k THEN workers[j].worlds \cup {w} ELSE workers[j].worlds
  BY <1>1 DEF WorldTypes
<1>6. WorkersAgree'
  <2>1. ASSUME NEW j \in Worker, NEW v \in World
        PROVE  v \in workers'[j].worlds <=> worlds'[v] # None /\ worlds'[v].worker = j
    <3>0. v \in workers[j].worlds <=> worlds[v] # None /\ worlds[v].worker = j
      BY DEF WorkersAgree, Exists
    <3>1. CASE v = w
      <4>1. v \notin workers[j].worlds /\ worlds'[v] = e
        BY <1>3, <3>0, <3>1 DEF Exists
      <4>2. v \in workers'[j].worlds <=> j = k
        BY <1>5, <3>1, <4>1
      <4> QED BY <1>2, <4>1, <4>2
    <3>2. CASE v # w
      <4>1. v \in workers'[j].worlds <=> v \in workers[j].worlds
        BY <1>5, <3>2
      <4> QED BY <1>3, <3>0, <3>2, <4>1
    <3> QED BY <3>1, <3>2
  <2>2. ASSUME NEW v \in World, worlds'[v] # None, worlds'[v].state # "Failed"
        PROVE  workers'[worlds'[v].worker].state # "Failed"
    <3>1. CASE v = w
      BY <1>1, <1>2, <1>3, <1>5, <3>1
    <3>2. CASE v # w
      <4>1. worlds'[v] = worlds[v] /\ worlds[v].worker \in Worker
        BY <1>3, <2>2, <3>2 DEF WorldTypes, BoundedEntry, Entry
      <4>2. workers[worlds[v].worker].state # "Failed"
        BY <2>2, <4>1 DEF WorkersAgree, Exists
      <4> QED BY <1>5, <4>1, <4>2
    <3> QED BY <3>1, <3>2
  <2> QED BY <2>1, <2>2 DEF WorkersAgree, Exists
<1>7. CallsAreConserved'
  <2>1. CallIds(<<>>) = <<>> /\ <<>> \o <<>> = <<>>
    BY DEF CallIds
  <2>2. EmptyHist.accepted = <<>> /\ EmptyHist.answered = <<>> /\ EmptyHist.unanswered = <<>>
    BY DEF EmptyHist
  <2>3. ASSUME NEW v \in World, worlds'[v] # None
        PROVE  /\ hist'[v].accepted = hist'[v].answered \o hist'[v].unanswered \o CallIds(worlds'[v].calls)
               /\ hist'[v].unanswered # <<>> => worlds'[v].state = "Failed"
    <3>1. CASE v = w
      BY <1>2, <1>3, <1>4, <2>1, <2>2, <3>1
    <3>2. CASE v # w
      BY <1>3, <1>4, <2>3, <3>2 DEF CallsAreConserved, Exists
    <3> QED BY <3>1, <3>2
  <2> QED BY <2>3 DEF CallsAreConserved, Exists
<1> QED BY <1>6, <1>7

(* A tick moves calls from the queue to the answered ones, or leaves them. *)
LEMMA TickedWorld ==
    ASSUME WorldTypes, WorkersAgree, CallsAreConserved,
           NEW w \in World, Exists(w), worlds[w].state = "Running",
           NEW batch, NEW o \in TickOutcomes(worlds[w], batch),
           worlds' = [worlds EXCEPT ![w] = o.entry],
           hist' = [hist EXCEPT ![w] = Recorded(@, o)],
           workers' = workers
    PROVE  WorkersAgree' /\ CallsAreConserved'
<1>1. Outcome(worlds[w], o) /\ worlds'[w] = o.entry /\ worlds'[w] # None
  BY OutcomeTypes
<1>2. PICK e \in BoundedEntry : e = worlds[w] /\ e.state = "Running"
  BY DEF WorldTypes, Exists
<1>3. \A v \in World \ {w} : worlds'[v] = worlds[v] /\ hist'[v] = hist[v]
  BY DEF WorldTypes
<1>4. WorkersAgree'
  <2>1. worlds'[w].worker = worlds[w].worker /\ worlds[w].state # "Failed"
    BY <1>1, <1>2 DEF Outcome
  <2>2. \A v \in World : worlds'[v] = None <=> worlds[v] = None
    BY <1>1, <1>3 DEF Exists
  <2>3. \A v \in World : worlds[v] # None =>
           worlds'[v].worker = worlds[v].worker
           /\ (worlds[v].state = "Failed" => worlds'[v].state = "Failed")
    BY <1>1, <1>3, <2>1
  <2> QED BY <2>2, <2>3, SameOwners
<1>5. PICK h \in Calls : h = hist[w]
  BY DEF WorldTypes
<1>6. PICK a \in Seq(Nat), c \in Seq(Nat), r \in Seq(Nat) :
        /\ a = h.answered /\ c = o.calls /\ r = CallIds(o.entry.calls)
  <2>1. o.entry \in Entry /\ o.calls \in Seq(Nat)
    BY <1>1 DEF Outcome
  <2>2. o.entry.calls \in Seq(Call)
    BY <2>1 DEF Entry
  <2>3. CallIds(o.entry.calls) \in Seq(Nat)
    BY <2>2, IdsOfCalls
  <2>4. h.answered \in Seq(Nat)
    BY DEF Calls
  <2> QED BY <2>1, <2>3, <2>4
<1>7. h.unanswered = <<>> /\ h.accepted = a \o <<>> \o (c \o r)
  <2>1. h.unanswered = <<>>
    BY <1>2, <1>5 DEF CallsAreConserved, Exists
  <2>2. h.accepted = h.answered \o h.unanswered \o CallIds(e.calls)
    BY <1>2, <1>5 DEF CallsAreConserved, Exists
  <2>3. CallIds(e.calls) = c \o r
    BY <1>1, <1>2, <1>6 DEF Outcome
  <2> QED BY <1>6, <2>1, <2>2, <2>3
<1>8. a \o <<>> = a /\ <<>> \o c = c /\ c \o <<>> = c /\ c \o r \in Seq(Nat)
      /\ a \o (c \o r) = (a \o c) \o r /\ a \o c \in Seq(Nat) /\ (a \o c) \o <<>> = a \o c
  <2>1. c \o r \in Seq(Nat) /\ a \o c \in Seq(Nat)
    BY ConcatProperties
  <2>2. a \o <<>> = a /\ <<>> \o c = c /\ c \o <<>> = c
    BY ConcatEmptySeq
  <2>3. (a \o c) \o <<>> = a \o c
    BY <2>1, ConcatEmptySeq
  <2>4. (a \o c) \o r = a \o (c \o r)
    <3>1. a \in Seq(Nat) /\ c \in Seq(Nat) /\ r \in Seq(Nat)
      OBVIOUS
    <3> QED BY ONLY <3>1, JoinsAlike
  <2> QED BY <2>1, <2>2, <2>3, <2>4
<1>9. PICK g : g = hist'[w]
  OBVIOUS
<1>10. g = Recorded(h, o)
  BY <1>5, <1>9 DEF WorldTypes
<1>11. g.accepted = g.answered \o g.unanswered \o r /\ (g.unanswered # <<>> => o.entry.state = "Failed")
  <2>1. CASE o.ok
    <3>1. g.accepted = h.accepted /\ g.answered = a \o c /\ g.unanswered = <<>>
      BY <1>6, <1>7, <1>10, <2>1 DEF Recorded, Calls
    <3> QED BY <1>7, <1>8, <3>1
  <2>2. CASE ~o.ok
    <3>1. g.accepted = h.accepted /\ g.answered = a /\ g.unanswered = c
      BY <1>6, <1>7, <1>8, <1>10, <2>2 DEF Recorded, Calls
    <3>2. c # <<>> => o.entry.state = "Failed"
      BY <1>1, <1>6, <2>2 DEF Outcome
    <3> QED BY <1>7, <1>8, <3>1, <3>2
  <2> QED BY <2>1, <2>2
<1>12. CallsAreConserved'
  <2>1. ASSUME NEW v \in World, worlds'[v] # None
        PROVE  /\ hist'[v].accepted = hist'[v].answered \o hist'[v].unanswered \o CallIds(worlds'[v].calls)
               /\ hist'[v].unanswered # <<>> => worlds'[v].state = "Failed"
    <3>1. CASE v = w
      BY <1>1, <1>6, <1>9, <1>11, <3>1
    <3>2. CASE v # w
      BY <1>3, <2>1, <3>2 DEF CallsAreConserved, Exists
    <3> QED BY <3>1, <3>2
  <2> QED BY <2>1 DEF CallsAreConserved, Exists
<1> QED BY <1>4, <1>12

(* One tick of a step: the world is finished, the others are as before. *)
LEMMA StepGoesOn ==
    ASSUME WorldTypes, StepTypes, step # None, NEW w \in World, NEW o,
           w \in step.due, ~Finished(w), o.sent \in Seq(Message),
           worlds'[w] # None, \A v \in World \ {w} : worlds'[v] = worlds[v],
           step' = [step EXCEPT !.finished = Append(@, w), !.sent[w] = o.sent]
    PROVE  StepTypes'
<1>1. PICK od, du, fi, de, se : /\ od = step.order /\ du = step.due /\ fi = step.finished
                                /\ de = step.delivered /\ se = step.sent
  OBVIOUS
<1>2. step = [order |-> od, due |-> du, finished |-> fi, delivered |-> de, sent |-> se]
  BY <1>1 DEF StepTypes
<1>3. PICK fi2, se2 : fi2 = Append(fi, w) /\ se2 = [se EXCEPT ![w] = o.sent]
  OBVIOUS
<1>4. PICK d : d = [step EXCEPT !.finished = fi2]
  OBVIOUS
<1>5. step' = [d EXCEPT !.sent = se2]
  BY <1>1, <1>3, <1>4
<1>6. d = [order |-> od, due |-> du, finished |-> fi2, delivered |-> de, sent |-> se]
  BY <1>2, <1>4
<1>7. step' = [order |-> od, due |-> du, finished |-> fi2, delivered |-> de, sent |-> se2]
  BY <1>5, <1>6
<1>8. /\ step'.order = od /\ step'.due = du /\ step'.finished = fi2 /\ step'.delivered = de
      /\ step'.sent = se2
  <2>1. PICK st : st = step'
    OBVIOUS
  <2>2. st.order = od /\ st.due = du /\ st.finished = fi2 /\ st.delivered = de /\ st.sent = se2
    BY <1>7, <2>1
  <2> QED BY <2>1, <2>2
<1>9. fi \in Seq(World) /\ du \in SUBSET World /\ se \in [du -> Seq(Message)] /\ \E V : od \in Seq(V)
  BY <1>1 DEF StepTypes
<1>10. fi2 \in Seq(World) /\ se2 \in [du -> Seq(Message)]
  BY <1>1, <1>3, <1>9, AppendProperties
<1>11. ASSUME NEW v \in du
       PROVE  worlds'[v] # None /\ (~Contains(fi2, v) => worlds'[v].state = "Running")
  <2>1. \A i \in 1..Len(fi) : fi2[i] = fi[i]
    BY <1>3, <1>9, AppendProperties
  <2>2. Len(fi2) = Len(fi) + 1 /\ fi2[Len(fi) + 1] = w /\ Len(fi) \in Nat
    BY <1>3, <1>9, AppendProperties, LenProperties
  <2>3. CASE v = w
    <3>1. Contains(fi2, v)
      BY <2>2, <2>3 DEF Contains
    <3> QED BY <2>3, <3>1
  <2>4. CASE v # w
    <3>1. worlds'[v] = worlds[v]
      BY <1>9, <2>4
    <3>2. Contains(fi, v) => Contains(fi2, v)
      BY <2>1, <2>2 DEF Contains
    <3>3. worlds[v] # None /\ (~Contains(fi, v) => worlds[v].state = "Running")
      BY <1>1, <1>11 DEF StepTypes, Exists, Finished
    <3> QED BY <3>1, <3>2, <3>3
  <2> QED BY <2>3, <2>4
<1>12. \A v \in step'.due : worlds'[v] # None /\ (~Contains(step'.finished, v) => worlds'[v].state = "Running")
  BY <1>8, <1>11
<1>13. step' = [order |-> step'.order, due |-> step'.due, finished |-> step'.finished,
                delivered |-> step'.delivered, sent |-> step'.sent]
  BY <1>7, <1>8
<1> QED BY <1>8, <1>9, <1>10, <1>12, <1>13 DEF StepTypes, Exists, Finished

LEMMA StepStarts ==
    ASSUME WorldTypes, StepBegin
    PROVE  StepTypes'
<1>1. PICK od : od = StepOrder
  OBVIOUS
<1>2. \E V : od \in Seq(V)
  <2>1. IsFiniteSet(Owned)
    <3>1. IsFiniteSet(Worker) /\ IsFiniteSet(World)
      <4>1. 0 \in Int /\ WorkerCount - 1 \in Int /\ WorldCount - 1 \in Int
        BY RuntimeAssumption
      <4> QED BY <4>1, FS_Interval DEF Worker, World
    <3>2. IsFiniteSet(Worker \X World)
      BY <3>1, FS_Product
    <3> QED BY <3>2, FS_Subset DEF Owned
  <2>2. PICK n \in Nat : n = Cardinality(Owned)
    BY <2>1, FS_CardinalityType
  <2>3. od = [i \in 1..n |-> od[i]]
    BY <1>1, <2>2 DEF StepOrder
  <2>4. od \in [1..n -> {od[i] : i \in 1..n}]
    BY <2>3
  <2> QED BY <2>4, SeqDef
<1>3. PICK de, se : de = [w \in RunningWorlds |-> Deliverable(w)] /\ se = [w \in RunningWorlds |-> <<>>]
  OBVIOUS
<1>4. step' = [order |-> od, due |-> RunningWorlds, finished |-> <<>>, delivered |-> de, sent |-> se]
  BY <1>1, <1>3 DEF StepBegin
<1>5. RunningWorlds \subseteq World /\ se \in [RunningWorlds -> Seq(Message)] /\ <<>> \in Seq(World)
  BY <1>3, EmptySeq DEF RunningWorlds
<1>6. worlds' = worlds
  BY DEF StepBegin
<1>7. \A w \in RunningWorlds : worlds'[w] # None /\ worlds'[w].state = "Running"
  BY <1>6 DEF RunningWorlds, Exists
<1>8. /\ step'.order = od /\ step'.due = RunningWorlds /\ step'.finished = <<>>
      /\ step'.delivered = de /\ step'.sent = se
  BY <1>4
<1> QED BY <1>2, <1>4, <1>5, <1>7, <1>8 DEF StepTypes, Exists, Finished

(* Every step keeps the worlds' invariant. *)
LEMMA WorldStep == WorldInv /\ [RNext]_rvars => WorldInv'
<1> SUFFICES ASSUME WorldInv, [RNext]_rvars PROVE WorldInv'
  OBVIOUS
<1>0. WorldTypes /\ StepTypes /\ WorkersAgree /\ CallsAreConserved
  BY DEF WorldInv
<1>1. ASSUME NEW w \in World, CreatePartition(w) PROVE WorldInv'
  <2>1. ~Exists(w) /\ RunningWorkers # {} /\ CountAssignment /\ StepTypes' /\ nextCall' = nextCall
    BY <1>1, NothingDue DEF CreatePartition, Control
  <2>2. CASE Adopt(w, 0)
    <3>1. WorkersAgree' /\ CallsAreConserved'
      BY <1>0, <2>1, <2>2, AdoptedWorld
    <3>2. WorldTypes'
      BY <1>0, <2>1, <2>2, AdoptTypes, Counts DEF WorldTypes
    <3> QED BY <2>1, <3>1, <3>2 DEF WorldInv
  <2>3. CASE UNCHANGED <<workers, worlds, logged, hist>>
    <3>1. WorldTypes'
      BY <1>0, <2>1, <2>3, Counts DEF WorldTypes
    <3>2. WorkersAgree'
      BY <1>0, <2>3, SameOwners
    <3>3. CallsAreConserved'
      BY <1>0, <2>3, SameCalls
    <3> QED BY <2>1, <3>1, <3>2, <3>3 DEF WorldInv
  <2> QED BY <1>1, <2>2, <2>3 DEF CreatePartition
<1>2. ASSUME NEW w \in World, NEW t \in 0..MaxTick, RecoverPartition(w, t) PROVE WorldInv'
  <2>1. ~Exists(w) /\ RunningWorkers # {} /\ CountAssignment /\ StepTypes' /\ nextCall' = nextCall
        /\ Adopt(w, t) /\ t \in Nat
    BY <1>2, NothingDue, RuntimeAssumption DEF RecoverPartition, Control
  <2>2. WorkersAgree' /\ CallsAreConserved'
    BY <1>0, <2>1, AdoptedWorld
  <2>3. WorldTypes'
    BY <1>0, <2>1, AdoptTypes, Counts DEF WorldTypes
  <2> QED BY <2>1, <2>2, <2>3 DEF WorldInv
<1>3. ASSUME NEW w \in World, StartPartition(w) \/ StopPartition(w) PROVE WorldInv'
  <2>1. PICK s \in States : worlds' = [worlds EXCEPT ![w].state = s]
    BY <1>3 DEF StartPartition, StopPartition, States
  <2>2. /\ Exists(w) /\ worlds[w].state # "Failed" /\ StepTypes'
        /\ workers' = workers /\ hist' = hist /\ nextCall' = nextCall /\ assignNext' = assignNext
    BY <1>3, NothingDue DEF StartPartition, StopPartition, Control
  <2>3. /\ worlds' \in [World -> BoundedEntry \cup {None}]
        /\ worlds'[w] # None /\ worlds'[w].worker = worlds[w].worker /\ worlds'[w].calls = worlds[w].calls
        /\ \A v \in World \ {w} : worlds'[v] = worlds[v]
    BY <1>0, <2>1, <2>2, SetState
  <2>4. WorldTypes'
    BY <1>0, <2>2, <2>3 DEF WorldTypes
  <2>5. WorkersAgree'
    BY <1>0, <2>2, <2>3, SameOwners DEF Exists
  <2>6. CallsAreConserved'
    BY <1>0, <2>2, <2>3, SameCalls DEF Exists
  <2> QED BY <2>2, <2>4, <2>5, <2>6 DEF WorldInv
<1>4. ASSUME NEW w \in World, DestroyPartition(w) PROVE WorldInv'
  <2>1. /\ Exists(w) /\ StepTypes' /\ nextCall' = nextCall /\ assignNext' = assignNext
        /\ hist' = [hist EXCEPT ![w] = EmptyHist]
        /\ workers' = [workers EXCEPT ![worlds[w].worker].worlds = @ \ {w}]
    BY <1>4, NothingDue DEF DestroyPartition, Control
  <2>2. PICK es : es = IF routing' = routing THEN worlds ELSE Propagated(worlds, routing')
    OBVIOUS
  <2>3. worlds' = [es EXCEPT ![w] = None]
    BY <1>4, <2>2 DEF DestroyPartition
  <2>4. /\ es \in [World -> BoundedEntry \cup {None}]
        /\ \A v \in World :
              /\ es[v] = None <=> worlds[v] = None
              /\ worlds[v] # None => es[v].worker = worlds[v].worker /\ es[v].state = worlds[v].state
                                     /\ es[v].calls = worlds[v].calls
    BY <1>0, <2>2, Propagates DEF WorldTypes
  <2>5. /\ worlds' \in [World -> BoundedEntry \cup {None}] /\ worlds'[w] = None
        /\ \A v \in World \ {w} : worlds'[v] = es[v] /\ hist'[v] = hist[v]
    BY <1>0, <2>1, <2>3, <2>4 DEF WorldTypes
  <2>6. PICK k \in Worker : k = worlds[w].worker
    BY <1>0, <2>1 DEF WorldTypes, Exists, BoundedEntry, Entry
  <2>7. \A j \in Worker : workers'[j].state = workers[j].state
                          /\ workers'[j].worlds = IF j = k THEN workers[j].worlds \ {w} ELSE workers[j].worlds
    BY <1>0, <2>1, <2>6 DEF WorldTypes
  <2>8. WorldTypes'
    <3>1. EmptyHist \in Calls
      BY EmptySeq DEF EmptyHist, Calls
    <3>2. hist' \in [World -> Calls]
      BY <1>0, <2>1, <3>1 DEF WorldTypes
    <3>3. workers' \in [Worker -> [state : {"Running", "Failed", "Stopped"}, worlds : SUBSET World]]
      BY <1>0, <2>1, <2>6 DEF WorldTypes
    <3> QED BY <1>0, <2>1, <2>5, <3>2, <3>3 DEF WorldTypes
  <2>9. WorkersAgree'
    <3>1. ASSUME NEW j \in Worker, NEW v \in World
          PROVE  v \in workers'[j].worlds <=> worlds'[v] # None /\ worlds'[v].worker = j
      <4>0. v \in workers[j].worlds <=> worlds[v] # None /\ worlds[v].worker = j
        BY <1>0 DEF WorkersAgree, Exists
      <4>1. CASE v = w
        <5>1. v \notin workers'[j].worlds
          BY <2>6, <2>7, <4>0, <4>1
        <5> QED BY <2>5, <4>1, <5>1
      <4>2. CASE v # w
        <5>1. v \in workers'[j].worlds <=> v \in workers[j].worlds
          BY <2>7, <4>2
        <5>2. worlds'[v] = es[v]
          BY <2>5, <4>2
        <5> QED BY <2>4, <4>0, <5>1, <5>2
      <4> QED BY <4>1, <4>2
    <3>2. ASSUME NEW v \in World, worlds'[v] # None, worlds'[v].state # "Failed"
          PROVE  workers'[worlds'[v].worker].state # "Failed"
      <4>1. v # w /\ worlds'[v] = es[v]
        BY <2>5, <3>2
      <4>2. worlds[v] # None /\ worlds[v].state # "Failed" /\ es[v].worker = worlds[v].worker
        BY <2>4, <3>2, <4>1
      <4>3. worlds[v].worker \in Worker
        BY <1>0, <4>2 DEF WorldTypes, BoundedEntry, Entry
      <4>4. workers[worlds[v].worker].state # "Failed"
        BY <1>0, <4>2 DEF WorkersAgree, Exists
      <4>5. worlds'[v].worker = worlds[v].worker
        BY <4>1, <4>2
      <4>6. workers'[worlds[v].worker].state = workers[worlds[v].worker].state
        BY <2>7, <4>3
      <4> QED BY <4>4, <4>5, <4>6
    <3> QED BY <3>1, <3>2 DEF WorkersAgree, Exists
  <2>10. CallsAreConserved'
    <3>1. ASSUME NEW v \in World, worlds'[v] # None
          PROVE  /\ hist'[v].accepted = hist'[v].answered \o hist'[v].unanswered \o CallIds(worlds'[v].calls)
                 /\ hist'[v].unanswered # <<>> => worlds'[v].state = "Failed"
      <4>1. v # w /\ worlds'[v] = es[v] /\ hist'[v] = hist[v]
        BY <2>5, <3>1
      <4>2. worlds[v] # None /\ es[v].state = worlds[v].state /\ es[v].calls = worlds[v].calls
        BY <2>4, <3>1, <4>1
      <4> QED BY <1>0, <4>1, <4>2 DEF CallsAreConserved, Exists
    <3> QED BY <3>1 DEF CallsAreConserved, Exists
  <2> QED BY <2>1, <2>8, <2>9, <2>10 DEF WorldInv
<1>5. ASSUME NEW w \in World, SubmitReducerCall(w) PROVE WorldInv'
  <2>1. /\ Exists(w) /\ StepTypes' /\ workers' = workers /\ assignNext' = assignNext
    BY <1>5, NothingDue DEF SubmitReducerCall
  <2>2. /\ worlds' \in [World -> BoundedEntry \cup {None}] /\ hist' \in [World -> Calls] /\ nextCall' \in Nat
        /\ \A v \in World \ {w} : worlds'[v] = worlds[v] /\ hist'[v] = hist[v]
        /\ worlds'[w] # None /\ worlds'[w].state = worlds[w].state /\ worlds'[w].worker = worlds[w].worker
    BY <1>0, <1>5, CallQueued
  <2>3. WorldTypes'
    BY <1>0, <2>1, <2>2 DEF WorldTypes
  <2>4. WorkersAgree'
    BY <1>0, <2>1, <2>2, SameOwners DEF Exists
  <2>5. PICK c \in Call : worlds'[w].calls = Append(worlds[w].calls, c) /\ c.id = nextCall
    BY <1>0, <1>5, CallQueued
  <2>6. PICK h, g : h = hist[w] /\ g = hist'[w]
    OBVIOUS
  <2>7. g.accepted = Append(h.accepted, nextCall) /\ g.answered = h.answered /\ g.unanswered = h.unanswered
    BY <1>0, <1>5, <2>6, CallQueued
  <2>8. PICK q \in Seq(Call) : q = worlds[w].calls
    BY <1>0, <2>1 DEF WorldTypes, Exists, BoundedEntry, Entry
  <2>9. PICK a \in Seq(Nat), u \in Seq(Nat), i \in Seq(Nat) : a = h.answered /\ u = h.unanswered /\ i = CallIds(q)
    <3>1. h \in Calls
      BY <1>0, <2>6 DEF WorldTypes
    <3>2. h.answered \in Seq(Nat) /\ h.unanswered \in Seq(Nat)
      BY <3>1 DEF Calls
    <3>3. CallIds(q) \in Seq(Nat)
      BY IdsOfCalls
    <3> QED BY <3>2, <3>3
  <2>10. h.accepted = a \o u \o i /\ (u # <<>> => worlds[w].state = "Failed")
    BY <1>0, <2>1, <2>6, <2>8, <2>9 DEF CallsAreConserved, Exists
  <2>11. CallIds(Append(q, c)) = Append(i, nextCall)
    <3>1. <<c>> \in Seq(Call) /\ Append(q, c) = q \o <<c>>
      BY AppendIsConcat
    <3>2. CallIds(q \o <<c>>) = i \o CallIds(<<c>>)
      BY <2>9, <3>1, IdsOfCalls
    <3>3. CallIds(<<c>>) = <<nextCall>>
      BY <2>5 DEF CallIds
    <3>4. nextCall \in Nat
      BY <1>0 DEF WorldTypes
    <3>5. Append(i, nextCall) = i \o <<nextCall>>
      BY <3>4, AppendIsConcat
    <3> QED BY <3>1, <3>2, <3>3, <3>5
  <2>12. Append(a \o u \o i, nextCall) = a \o u \o Append(i, nextCall)
    <3>1. nextCall \in Nat /\ <<nextCall>> \in Seq(Nat) /\ a \o u \in Seq(Nat)
      BY <1>0, ConcatProperties DEF WorldTypes
    <3>2. PICK b \in Seq(Nat) : b = a \o u
      BY <3>1
    <3>3. PICK z \in Seq(Nat) : z = <<nextCall>>
      BY <3>1
    <3>4. b \o i \in Seq(Nat)
      BY ConcatProperties
    <3>5. Append(b \o i, nextCall) = (b \o i) \o z /\ Append(i, nextCall) = i \o z
      BY <3>1, <3>3, <3>4, AppendIsConcat
    <3>6. (b \o i) \o z = b \o (i \o z)
      <4>1. b \in Seq(Nat) /\ i \in Seq(Nat) /\ z \in Seq(Nat)
        OBVIOUS
      <4> QED BY ONLY <4>1, JoinsAlike
    <3> QED BY <3>2, <3>5, <3>6
  <2>13. CallsAreConserved'
    <3>1. ASSUME NEW v \in World, worlds'[v] # None
          PROVE  /\ hist'[v].accepted = hist'[v].answered \o hist'[v].unanswered \o CallIds(worlds'[v].calls)
                 /\ hist'[v].unanswered # <<>> => worlds'[v].state = "Failed"
      <4>1. CASE v = w
        <5>1. g.accepted = g.answered \o g.unanswered \o CallIds(worlds'[w].calls)
          BY <2>5, <2>7, <2>8, <2>9, <2>10, <2>11, <2>12
        <5>2. g.unanswered # <<>> => worlds'[w].state = "Failed"
          BY <2>2, <2>7, <2>9, <2>10
        <5> QED BY <2>6, <4>1, <5>1, <5>2
      <4>2. CASE v # w
        BY <1>0, <2>2, <3>1, <4>2 DEF CallsAreConserved, Exists
      <4> QED BY <4>1, <4>2
    <3> QED BY <3>1 DEF CallsAreConserved, Exists
  <2> QED BY <2>1, <2>3, <2>4, <2>13 DEF WorldInv
<1>6. ASSUME NEW w \in World, TickOnce(w) PROVE WorldInv'
  <2>1. PICK o \in TickOutcomes(worlds[w], Deliverable(w)) :
          /\ worlds' = [worlds EXCEPT ![w] = o.entry]
          /\ hist' = [hist EXCEPT ![w] = Recorded(@, o)]
    BY <1>6 DEF TickOnce
  <2>2. /\ Exists(w) /\ worlds[w].state = "Running" /\ StepTypes' /\ workers' = workers
        /\ assignNext' = assignNext /\ nextCall' = nextCall
    BY <1>6, NothingDue DEF TickOnce, Control, RunningWorlds
  <2>3. WorldTypes'
    BY <1>0, <2>1, <2>2, OutcomeTypes DEF WorldTypes
  <2>4. WorkersAgree' /\ CallsAreConserved'
    BY <1>0, <2>1, <2>2, TickedWorld
  <2> QED BY <2>2, <2>3, <2>4 DEF WorldInv
<1>7. ASSUME NEW w \in World, TickWorld(w) PROVE WorldInv'
  <2>1. PICK o \in TickOutcomes(worlds[w], step.delivered[w]) :
          /\ worlds' = [worlds EXCEPT ![w] = o.entry]
          /\ hist' = [hist EXCEPT ![w] = Recorded(@, o)]
          /\ step' = [step EXCEPT !.finished = Append(@, w), !.sent[w] = o.sent]
    BY <1>7 DEF TickWorld
  <2>2. /\ step # None /\ w \in step.due /\ ~Finished(w) /\ workers' = workers
        /\ assignNext' = assignNext /\ nextCall' = nextCall
    BY <1>7 DEF TickWorld
  <2>3. Exists(w) /\ worlds[w].state = "Running"
    BY <1>0, <2>2 DEF StepTypes
  <2>4. /\ worlds' \in [World -> BoundedEntry \cup {None}] /\ hist' \in [World -> Calls]
        /\ worlds'[w] # None /\ Outcome(worlds[w], o)
    BY <1>0, <2>1, <2>3, OutcomeTypes
  <2>5. WorldTypes'
    BY <1>0, <2>2, <2>4 DEF WorldTypes
  <2>6. WorkersAgree' /\ CallsAreConserved'
    BY <1>0, <2>1, <2>2, <2>3, TickedWorld
  <2>7. \A v \in World \ {w} : worlds'[v] = worlds[v]
    BY <1>0, <2>1 DEF WorldTypes
  <2>8. o.sent \in Seq(Message)
    BY <2>4 DEF Outcome
  <2>9. StepTypes'
    BY <1>0, <2>1, <2>2, <2>4, <2>7, <2>8, StepGoesOn
  <2> QED BY <2>5, <2>6, <2>9 DEF WorldInv
<1>8. ASSUME NEW w \in World, NEW k \in Worker, ReassignPartition(w, k) PROVE WorldInv'
  <2>1. /\ Exists(w) /\ workers[k].state = "Running" /\ StepTypes' /\ hist' = hist
        /\ assignNext' = assignNext /\ nextCall' = nextCall
        /\ worlds' = [worlds EXCEPT ![w].worker = k]
    BY <1>8, NothingDue DEF ReassignPartition, Control
  <2>2. PICK e \in BoundedEntry : e = worlds[w]
    BY <1>0, <2>1 DEF WorldTypes, Exists
  <2>3. PICK f : f = [e EXCEPT !.worker = k]
    OBVIOUS
  <2>4. f \in BoundedEntry /\ f.worker = k /\ f.calls = e.calls /\ f.state = e.state
    BY <2>3, EntryFields
  <2>5. f # None
    BY <2>4, EntryFields
  <2>6. /\ worlds' \in [World -> BoundedEntry \cup {None}] /\ worlds'[w] = f
        /\ \A v \in World \ {w} : worlds'[v] = worlds[v]
    <3>1. worlds' = [worlds EXCEPT ![w] = f]
      BY <2>1, <2>2, <2>3
    <3> QED BY <1>0, <2>4, <3>1 DEF WorldTypes
  <2>7. \A j \in Worker :
           /\ workers'[j].state = workers[j].state
           /\ workers'[j].worlds = IF j = k THEN workers[j].worlds \cup {w} ELSE workers[j].worlds \ {w}
    BY <1>0, <1>8 DEF ReassignPartition, WorldTypes
  <2>8. workers' \in [Worker -> [state : {"Running", "Failed", "Stopped"}, worlds : SUBSET World]]
    BY <1>0, <1>8 DEF ReassignPartition, WorldTypes
  <2>9. WorldTypes'
    BY <1>0, <2>1, <2>6, <2>8 DEF WorldTypes
  <2>10. WorkersAgree'
    <3>1. ASSUME NEW j \in Worker, NEW v \in World
          PROVE  v \in workers'[j].worlds <=> worlds'[v] # None /\ worlds'[v].worker = j
      <4>0. v \in workers[j].worlds <=> worlds[v] # None /\ worlds[v].worker = j
        BY <1>0 DEF WorkersAgree, Exists
      <4>1. CASE v = w
        <5>1. v \in workers'[j].worlds <=> j = k
          BY <2>7, <4>1
        <5> QED BY <2>4, <2>5, <2>6, <4>1, <5>1
      <4>2. CASE v # w
        <5>1. v \in workers'[j].worlds <=> v \in workers[j].worlds
          BY <2>7, <4>2
        <5>2. worlds'[v] = worlds[v]
          BY <2>6, <4>2
        <5> QED BY <4>0, <5>1, <5>2
      <4> QED BY <4>1, <4>2
    <3>2. ASSUME NEW v \in World, worlds'[v] # None, worlds'[v].state # "Failed"
          PROVE  workers'[worlds'[v].worker].state # "Failed"
      <4>1. CASE v = w
        BY <2>1, <2>4, <2>6, <2>7, <4>1
      <4>2. CASE v # w
        <5>1. worlds'[v] = worlds[v]
          BY <2>6, <4>2
        <5>2. worlds[v].worker \in Worker
          BY <1>0, <3>2, <5>1 DEF WorldTypes, BoundedEntry, Entry
        <5> QED BY <1>0, <2>7, <3>2, <5>1, <5>2 DEF WorkersAgree, Exists
      <4> QED BY <4>1, <4>2
    <3> QED BY <3>1, <3>2 DEF WorkersAgree, Exists
  <2>11. CallsAreConserved'
    <3>1. \A v \in World : worlds'[v] # None =>
             /\ worlds[v] # None /\ worlds'[v].calls = worlds[v].calls
             /\ worlds[v].state = "Failed" => worlds'[v].state = "Failed"
      BY <2>1, <2>2, <2>4, <2>6 DEF Exists
    <3> QED BY <1>0, <2>1, <3>1, SameCalls
  <2> QED BY <2>1, <2>9, <2>10, <2>11 DEF WorldInv
<1>9. ASSUME NEW w \in World, NEW a \in Address, RegisterPartition(a, w) PROVE WorldInv'
  <2>1. /\ Exists(w) /\ StepTypes' /\ workers' = workers /\ hist' = hist
        /\ assignNext' = assignNext /\ nextCall' = nextCall
    BY <1>9, NothingDue DEF RegisterPartition, Control
  <2>2. PICK es : es = [worlds EXCEPT ![w].part = a]
    OBVIOUS
  <2>3. worlds' = Propagated(es, routing')
    BY <1>9, <2>2 DEF RegisterPartition
  <2>4. PICK e \in BoundedEntry : e = worlds[w]
    BY <1>0, <2>1 DEF WorldTypes, Exists
  <2>5. PICK f : f = [e EXCEPT !.part = a]
    OBVIOUS
  <2>6. f \in BoundedEntry /\ f.worker = e.worker /\ f.calls = e.calls /\ f.state = e.state
    BY <2>5, EntryFields
  <2>7. f # None
    BY <2>6, EntryFields
  <2>8. /\ es \in [World -> BoundedEntry \cup {None}] /\ es[w] = f
        /\ \A v \in World \ {w} : es[v] = worlds[v]
    <3>1. es = [worlds EXCEPT ![w] = f]
      BY <2>2, <2>4, <2>5
    <3> QED BY <1>0, <2>6, <3>1 DEF WorldTypes
  <2>9. /\ worlds' \in [World -> BoundedEntry \cup {None}]
        /\ \A v \in World :
              /\ worlds'[v] = None <=> es[v] = None
              /\ es[v] # None => worlds'[v].worker = es[v].worker /\ worlds'[v].state = es[v].state
                                 /\ worlds'[v].calls = es[v].calls
    BY <2>3, <2>8, Propagates
  <2>10. \A v \in World :
            /\ worlds'[v] = None <=> worlds[v] = None
            /\ worlds[v] # None => worlds'[v].worker = worlds[v].worker /\ worlds'[v].state = worlds[v].state
                                   /\ worlds'[v].calls = worlds[v].calls
    BY <2>1, <2>4, <2>6, <2>7, <2>8, <2>9 DEF Exists
  <2>11. WorldTypes'
    BY <1>0, <2>1, <2>9 DEF WorldTypes
  <2>12. WorkersAgree'
    BY <1>0, <2>1, <2>10, SameOwners
  <2>13. CallsAreConserved'
    BY <1>0, <2>1, <2>10, SameCalls
  <2> QED BY <2>1, <2>11, <2>12, <2>13 DEF WorldInv
<1>10. ASSUME NEW a \in Address, UnregisterPartition(a) PROVE WorldInv'
  <2>1. /\ StepTypes' /\ workers' = workers /\ hist' = hist
        /\ assignNext' = assignNext /\ nextCall' = nextCall /\ worlds' = Propagated(worlds, routing')
    BY <1>10, NothingDue DEF UnregisterPartition, Control
  <2>2. /\ worlds' \in [World -> BoundedEntry \cup {None}]
        /\ \A v \in World :
              /\ worlds'[v] = None <=> worlds[v] = None
              /\ worlds[v] # None => worlds'[v].worker = worlds[v].worker /\ worlds'[v].state = worlds[v].state
                                     /\ worlds'[v].calls = worlds[v].calls
    BY <1>0, <2>1, Propagates DEF WorldTypes
  <2>3. WorldTypes'
    BY <1>0, <2>1, <2>2 DEF WorldTypes
  <2>4. WorkersAgree'
    BY <1>0, <2>1, <2>2, SameOwners
  <2>5. CallsAreConserved'
    BY <1>0, <2>1, <2>2, SameCalls
  <2> QED BY <2>1, <2>3, <2>4, <2>5 DEF WorldInv
<1>11. ASSUME NEW w \in World, NEW t \in 0..MaxTick, NEW n \in FrameSizes, SubmitInput(w, t, n) PROVE WorldInv'
  <2>1. /\ Exists(w) /\ StepTypes' /\ workers' = workers /\ assignNext' = assignNext /\ hist' = hist
        /\ nextCall' = nextCall /\ t \in Nat /\ n \in Nat
    BY <1>11, NothingDue, RuntimeAssumption DEF SubmitInput, Control
  <2>2. /\ worlds' \in [World -> BoundedEntry \cup {None}]
        /\ \A v \in World \ {w} : worlds'[v] = worlds[v]
        /\ worlds'[w] # None /\ worlds'[w].state = worlds[w].state /\ worlds'[w].worker = worlds[w].worker
        /\ worlds'[w].calls = worlds[w].calls
    BY <1>0, <1>11, <2>1, InputQueued
  <2>3. WorldTypes'
    BY <1>0, <2>1, <2>2 DEF WorldTypes
  <2>4. WorkersAgree'
    BY <1>0, <2>1, <2>2, SameOwners DEF Exists
  <2>5. CallsAreConserved'
    BY <1>0, <2>1, <2>2, SameCalls DEF Exists
  <2> QED BY <2>1, <2>3, <2>4, <2>5 DEF WorldInv
<1>12. ASSUME NEW k \in Worker, FailWorker(k) PROVE WorldInv'
  <2>1. /\ StepTypes' /\ hist' = hist /\ assignNext' = assignNext /\ nextCall' = nextCall
        /\ workers' = [workers EXCEPT ![k].state = "Failed"]
        /\ worlds' = FailedWorlds(workers[k].worlds)
    BY <1>12, NothingDue DEF FailWorker, Control
  <2>2. PICK set \in SUBSET World : set = workers[k].worlds
    BY <1>0 DEF WorldTypes
  <2>3. \A w \in World : w \in set <=> worlds[w] # None /\ worlds[w].worker = k
    BY <1>0, <2>2 DEF WorkersAgree, Exists
  <2>4. /\ worlds' \in [World -> BoundedEntry \cup {None}]
        /\ \A w \in World \ set : worlds'[w] = worlds[w]
        /\ \A w \in set :
              /\ worlds'[w] # None /\ worlds'[w].state = "Failed"
              /\ worlds'[w].worker = worlds[w].worker /\ worlds'[w].calls = worlds[w].calls
    BY <1>0, <2>1, <2>2, <2>3, FailedEntries DEF Exists
  <2>5. \A j \in Worker : workers'[j].worlds = workers[j].worlds
                          /\ workers'[j].state = IF j = k THEN "Failed" ELSE workers[j].state
    BY <1>0, <2>1 DEF WorldTypes
  <2>6. WorldTypes'
    <3>1. workers' \in [Worker -> [state : {"Running", "Failed", "Stopped"}, worlds : SUBSET World]]
      BY <1>0, <2>1 DEF WorldTypes
    <3> QED BY <1>0, <2>1, <2>4, <3>1 DEF WorldTypes
  <2>7. WorkersAgree'
    <3>1. ASSUME NEW j \in Worker, NEW w \in World
          PROVE  w \in workers'[j].worlds <=> worlds'[w] # None /\ worlds'[w].worker = j
      <4>1. w \in workers[j].worlds <=> worlds[w] # None /\ worlds[w].worker = j
        BY <1>0 DEF WorkersAgree, Exists
      <4>2. CASE w \in set
        BY <2>3, <2>4, <2>5, <4>1, <4>2
      <4>3. CASE w \notin set
        BY <2>4, <2>5, <4>1, <4>3
      <4> QED BY <4>2, <4>3
    <3>2. ASSUME NEW w \in World, worlds'[w] # None, worlds'[w].state # "Failed"
          PROVE  workers'[worlds'[w].worker].state # "Failed"
      <4>1. w \notin set /\ worlds'[w] = worlds[w]
        BY <2>4, <3>2
      <4>2. worlds[w].worker # k /\ worlds[w].worker \in Worker
        BY <1>0, <2>3, <3>2, <4>1 DEF WorldTypes, BoundedEntry, Entry
      <4> QED BY <1>0, <2>5, <3>2, <4>1, <4>2 DEF WorkersAgree, Exists
    <3> QED BY <3>1, <3>2 DEF WorkersAgree, Exists
  <2>8. CallsAreConserved'
    <3>1. \A w \in World : worlds'[w] # None =>
             /\ worlds[w] # None /\ worlds'[w].calls = worlds[w].calls
             /\ worlds[w].state = "Failed" => worlds'[w].state = "Failed"
      BY <2>3, <2>4
    <3> QED BY <1>0, <2>1, <3>1, SameCalls
  <2> QED BY <2>1, <2>6, <2>7, <2>8 DEF WorldInv
<1>13. ASSUME NEW a \in Address, NEW b \in Address, SendMessage(a, b) PROVE WorldInv'
  <2>1. StepTypes' /\ UNCHANGED <<workers, worlds, assignNext, nextCall, hist>>
    BY <1>13, NothingDue DEF SendMessage, Control
  <2> QED BY <1>0, <2>1, SameOwners, SameCalls DEF WorldInv, WorldTypes
<1>14. CASE StepBegin
  <2>1. StepTypes' /\ UNCHANGED <<workers, worlds, assignNext, nextCall, hist>>
    BY <1>0, <1>14, StepStarts DEF StepBegin
  <2> QED BY <1>0, <2>1, SameOwners, SameCalls DEF WorldInv, WorldTypes
<1>15. CASE StepEnd
  <2>1. StepTypes' /\ UNCHANGED <<workers, worlds, assignNext, nextCall, hist>>
    BY <1>15 DEF StepEnd, StepTypes
  <2> QED BY <1>0, <2>1, SameOwners, SameCalls DEF WorldInv, WorldTypes
<1>16. CASE Shutdown
  <2>1. StepTypes' /\ UNCHANGED <<assignNext, nextCall, hist>>
        /\ workers' = [k \in Worker |-> [workers[k] EXCEPT !.state = "Stopped"]]
    BY <1>16, NothingDue DEF Shutdown
  <2>2. /\ worlds' \in [World -> BoundedEntry \cup {None}]
        /\ \A w \in World : worlds[w] = None => worlds'[w] = None
        /\ \A w \in World : worlds[w] # None =>
              /\ worlds'[w] # None
              /\ worlds'[w].state = IF worlds[w].state = "Running" THEN "Stopped" ELSE worlds[w].state
              /\ worlds'[w].worker = worlds[w].worker /\ worlds'[w].calls = worlds[w].calls
    BY <1>0, <1>16, StoppedEntries
  <2>3. \A j \in Worker : workers'[j].worlds = workers[j].worlds /\ workers'[j].state = "Stopped"
    BY <1>0, <2>1 DEF WorldTypes
  <2>4. WorldTypes'
    <3>1. workers' \in [Worker -> [state : {"Running", "Failed", "Stopped"}, worlds : SUBSET World]]
      BY <1>0, <2>1 DEF WorldTypes
    <3> QED BY <1>0, <2>1, <2>2, <3>1 DEF WorldTypes
  <2>5. WorkersAgree'
    <3>1. \A w \in World : worlds'[w] # None => worlds'[w].worker \in Worker
      BY <2>4 DEF WorldTypes, BoundedEntry, Entry
    <3> QED BY <1>0, <2>2, <2>3, <3>1 DEF WorkersAgree, Exists
  <2>6. CallsAreConserved'
    <3>1. \A w \in World : worlds'[w] # None =>
             /\ worlds[w] # None /\ worlds'[w].calls = worlds[w].calls
             /\ worlds[w].state = "Failed" => worlds'[w].state = "Failed"
      BY <2>2
    <3> QED BY <1>0, <2>1, <3>1, SameCalls
  <2> QED BY <2>1, <2>4, <2>5, <2>6 DEF WorldInv
<1>17. CASE UNCHANGED rvars
  <2>1. UNCHANGED <<workers, worlds, assignNext, nextCall, hist, step>>
    BY <1>17 DEF rvars
  <2>2. StepTypes'
    BY <1>0, <2>1 DEF StepTypes, Exists, Finished
  <2> QED BY <1>0, <2>1, <2>2, SameOwners, SameCalls DEF WorldInv, WorldTypes
<1> QED BY <1>1, <1>2, <1>3, <1>4, <1>5, <1>6, <1>7, <1>8, <1>9, <1>10, <1>11, <1>12, <1>13,
           <1>14, <1>15, <1>16, <1>17 DEF RNext

-----------------------------------------------------------------------------
(* The registry.                                                           *)

LEMMA BusInit == RInit /\ WorldInv => BusInv
<1> SUFFICES ASSUME RInit, WorldInv PROVE BusInv
  OBVIOUS
<1>1. PICK n \in Boots : Booted(n)
  BY DEF RInit
<1>2. n \in 0..WorldCount /\ WorldCount \in Nat /\ WorkerCount \in Nat \ {0} /\ MaxQueuedMessages \in Nat
  BY RuntimeAssumption
<1>3. \A a \in Address : a < n => a \in 0..(n - 1)
  BY <1>2 DEF Address, World
<1>4. ASSUME NEW a \in Address, a < n
      PROVE  /\ routing[a] = [world |-> a, worker |-> a % WorkerCount, inbound |-> <<>>]
             /\ routing[a] \in BoundedRoute /\ routing[a] # None
             /\ routing[a].world = a /\ routing[a].worker = a % WorkerCount
  <2>1. routing[a] = [world |-> a, worker |-> a % WorkerCount, inbound |-> <<>>]
    BY <1>1, <1>4 DEF Booted
  <2>2. a \in World /\ a % WorkerCount \in Worker
    BY <1>2, BootedEntries DEF Address
  <2>3. PICK q \in Seq(Message) : q = <<>> /\ Len(q) = 0
    BY EmptySeq
  <2>4. PICK r : r = [world |-> a, worker |-> a % WorkerCount, inbound |-> q]
    OBVIOUS
  <2>5. r \in Route /\ Len(r.inbound) <= MaxQueuedMessages /\ r.world = a /\ r.worker = a % WorkerCount
    BY <1>2, <2>2, <2>3, <2>4 DEF Route
  <2> QED BY <2>1, <2>3, <2>4, <2>5, NoneAssumption DEF BoundedRoute
<1>5. \A a \in Address : ~(a < n) => routing[a] = None
  BY <1>1 DEF Booted
<1>6. routing \in Routes
  <2>1. routing = [a \in Address |-> routing[a]]
    BY <1>1 DEF Booted
  <2>2. \A a \in Address : routing[a] \in BoundedRoute \cup {None}
    BY <1>4, <1>5
  <2> QED BY <2>1, <2>2 DEF Routes
<1>7. sentSeq \in [Address -> Nat]
  BY DEF RInit
<1>8. OneAddress
  <2>1. ASSUME NEW a \in Address, routing[a] # None PROVE routing[a].world = a
    BY <1>4, <1>5, <2>1
  <2> QED BY ONLY <2>1, Zenon DEF OneAddress
<1>9. ASSUME NEW a \in Address, a < n
      PROVE  worlds[a] = BootedEntry(a, n) /\ worlds[a] # None /\ worlds[a].worker = a % WorkerCount
             /\ worlds[a].part = a /\ worlds[a].known = (0..(n - 1)) \ {a}
  <2>1. worlds[a] = BootedEntry(a, n)
    BY <1>1, <1>9 DEF Booted, Address
  <2> QED BY <1>2, <2>1, BootedEntries DEF Address
<1>10. OwnershipAgrees
  <2>1. \A a \in Address : routing[a] # None =>
          Exists(routing[a].world) /\ routing[a].worker = worlds[routing[a].world].worker
    <3>1. ASSUME NEW a \in Address, routing[a] # None
          PROVE  Exists(routing[a].world) /\ routing[a].worker = worlds[routing[a].world].worker
      <4>1. a < n
        BY <1>5, <3>1
      <4>2. routing[a].world = a /\ routing[a].worker = a % WorkerCount
        BY <1>4, <4>1
      <4>3. worlds[a] # None /\ worlds[a].worker = a % WorkerCount
        BY <1>9, <4>1
      <4> QED BY <4>2, <4>3, Zenon DEF Exists
    <3> QED BY <3>1, Zenon
  <2> QED BY <2>1 DEF OwnershipAgrees, WorldInv, WorkersAgree
<1>11. Topology(routing) = 0..(n - 1)
  <2>1. \A a \in Address : routing[a] # None <=> a < n
    BY <1>4, <1>5
  <2>2. \A a : a \in 0..(n - 1) <=> a \in Address /\ a < n
    BY <1>2 DEF Address, World
  <2> QED BY <2>1, <2>2 DEF Topology
<1>12. RoutingIsCurrent
  BY <1>4, <1>5, <1>9, <1>11 DEF RoutingIsCurrent
<1> QED BY <1>6, <1>7, <1>8, <1>10, <1>12 DEF BusInv

(* A step that moves only messages, and leaves every world its address, its *)
(* worker and the addresses it knows.                                       *)
LEMMA BusKept ==
    ASSUME BusInv, WorkersAgree', SameRoutes(routing, routing'), sentSeq' \in [Address -> Nat],
           \A w \in World : worlds[w] # None =>
               /\ worlds'[w] # None /\ worlds'[w].worker = worlds[w].worker
               /\ worlds'[w].part = worlds[w].part /\ worlds'[w].known = worlds[w].known
    PROVE  BusInv'
<1>1. routing \in Routes /\ routing' \in Routes
  BY DEF BusInv, SameRoutes
<1>2. \A a \in Address : routing'[a] # None =>
        /\ routing[a] # None /\ routing'[a].world = routing[a].world
        /\ routing'[a].worker = routing[a].worker /\ routing[a].world \in World
  BY <1>1 DEF SameRoutes, Routes, BoundedRoute, Route
<1>3. OneAddress'
  BY <1>2 DEF BusInv, OneAddress
<1>4. OwnershipAgrees'
  <2>1. ASSUME NEW a \in Address, routing'[a] # None
        PROVE  worlds'[routing'[a].world] # None /\ routing'[a].worker = worlds'[routing'[a].world].worker
    BY <1>2, <2>1 DEF BusInv, OwnershipAgrees, Exists
  <2> QED BY <2>1 DEF OwnershipAgrees, Exists, WorkersAgree
<1>5. Topology(routing') = Topology(routing)
  BY DEF SameRoutes, Topology
<1>6. RoutingIsCurrent'
  <2>1. ASSUME NEW a \in Address, routing'[a] # None
        PROVE  /\ worlds'[routing'[a].world].part = a
               /\ worlds'[routing'[a].world].known = Topology(routing') \ {a}
    BY <1>2, <1>5, <2>1 DEF BusInv, RoutingIsCurrent, OwnershipAgrees, Exists
  <2>2. \A a \in Address : routing'[a] # None =>
            /\ worlds'[routing'[a].world].part = a
            /\ worlds'[routing'[a].world].known = Topology(routing)' \ {a}
    <3>1. Topology(routing)' = Topology(routing')
      BY DEF Topology
    <3> QED BY <2>1, <3>1
  <2> QED BY <2>2 DEF RoutingIsCurrent
<1> QED BY <1>1, <1>3, <1>4, <1>6 DEF BusInv

LEMMA SameRoutesReflexive ==
    ASSUME NEW r \in Routes
    PROVE  SameRoutes(r, r)
BY DEF SameRoutes

LEMMA BusAfterReassign ==
    ASSUME WorldInv, WorkersAgree', BusInv, NEW w \in World, NEW k \in Worker,
           ReassignPartition(w, k)
    PROVE  BusInv'
<1>1. /\ Exists(w) /\ worlds' = [worlds EXCEPT ![w].worker = k] /\ routing' = RouteMoved(w, k)
      /\ sentSeq' = sentSeq
  BY DEF ReassignPartition
<1>2. PICK e \in BoundedEntry : e = worlds[w]
  BY <1>1 DEF WorldInv, WorldTypes, Exists
<1>3. PICK f : f = [e EXCEPT !.worker = k]
  OBVIOUS
<1>4. f # None /\ f.worker = k /\ f.part = e.part /\ f.known = e.known
  BY <1>3, EntryFields
<1>5. worlds' = [worlds EXCEPT ![w] = f]
  BY <1>1, <1>2, <1>3
<1>6. /\ worlds'[w] = f /\ \A v \in World \ {w} : worlds'[v] = worlds[v]
  BY <1>5 DEF WorldInv, WorldTypes
<1>7. routing \in Routes
  BY DEF BusInv
<1>8. CASE Bound(w) = {}
  <2>1. routing' = routing
    BY <1>1, <1>8 DEF RouteMoved
  <2>2. \A a \in Address : routing[a] # None => routing[a].world \in World \ {w}
    BY <1>7, <1>8 DEF Bound, Routes, BoundedRoute, Route
  <2>3. Topology(routing)' = Topology(routing)
    BY <2>1 DEF Topology
  <2>4. OwnershipAgrees'
    <3>1. \A a \in Address : routing'[a] # None =>
            worlds'[routing'[a].world] # None /\ routing'[a].worker = worlds'[routing'[a].world].worker
      BY <1>6, <2>1, <2>2 DEF BusInv, OwnershipAgrees, Exists
    <3> QED BY <3>1 DEF OwnershipAgrees, Exists, WorkersAgree
  <2>5. RoutingIsCurrent'
    BY <1>6, <2>1, <2>2, <2>3 DEF BusInv, RoutingIsCurrent
  <2>6. OneAddress'
    BY <2>1 DEF BusInv, OneAddress
  <2> QED BY <1>1, <1>7, <2>1, <2>4, <2>5, <2>6 DEF BusInv
<1>9. CASE Bound(w) # {}
  <2>1. PICK a \in Address : a = AddressOf(w) /\ routing[a] # None /\ routing[a].world = w
    BY <1>9, FindsAddress DEF Bound
  <2>2. PICK r \in BoundedRoute : r = routing[a]
    BY <1>7, <2>1 DEF Routes
  <2>3. PICK s : s = [r EXCEPT !.worker = k]
    OBVIOUS
  <2>4. s \in BoundedRoute /\ s.world = r.world /\ s.worker = k /\ s # None
    <3>1. s \in Route /\ s.world = r.world /\ s.worker = k /\ s.inbound = r.inbound
      BY <2>2, <2>3 DEF BoundedRoute, Route
    <3> QED BY <3>1, NoneAssumption DEF BoundedRoute
  <2>5. routing' = [routing EXCEPT ![a] = s]
    BY <1>1, <1>9, <2>1, <2>2, <2>3 DEF RouteMoved
  <2>6. routing' \in Routes /\ routing'[a] = s /\ \A b \in Address \ {a} : routing'[b] = routing[b]
    BY <1>7, <2>4, <2>5 DEF Routes
  <2>7. \A b \in Address : routing'[b] # None =>
           routing[b] # None /\ routing'[b].world = routing[b].world
    BY <2>1, <2>2, <2>4, <2>6
  <2>8. OneAddress'
    BY <2>7 DEF BusInv, OneAddress
  <2>9. \A b \in Address \ {a} : routing[b] # None => routing[b].world \in World \ {w}
    BY <1>7, <2>1 DEF BusInv, OneAddress, Routes, BoundedRoute, Route
  <2>10. OwnershipAgrees'
    <3>1. ASSUME NEW b \in Address, routing'[b] # None
          PROVE  worlds'[routing'[b].world] # None /\ routing'[b].worker = worlds'[routing'[b].world].worker
      <4>1. CASE b = a
        BY <1>4, <1>6, <2>1, <2>2, <2>4, <2>6, <4>1
      <4>2. CASE b # a
        BY <1>6, <2>6, <2>9, <3>1, <4>2 DEF BusInv, OwnershipAgrees, Exists
      <4> QED BY <4>1, <4>2
    <3> QED BY <3>1 DEF OwnershipAgrees, Exists, WorkersAgree
  <2>11. Topology(routing)' = Topology(routing)
    BY <2>1, <2>4, <2>6 DEF Topology
  <2>12. RoutingIsCurrent'
    <3>1. ASSUME NEW b \in Address, routing'[b] # None
          PROVE  worlds'[routing'[b].world].part = b /\ worlds'[routing'[b].world].known = Topology(routing) \ {b}
      <4>1. CASE b = a
        BY <1>2, <1>4, <1>6, <2>1, <2>2, <2>4, <2>6, <4>1 DEF BusInv, RoutingIsCurrent
      <4>2. CASE b # a
        BY <1>6, <2>6, <2>9, <3>1, <4>2 DEF BusInv, RoutingIsCurrent
      <4> QED BY <4>1, <4>2
    <3> QED BY <2>11, <3>1 DEF RoutingIsCurrent
  <2> QED BY <1>1, <2>6, <2>8, <2>10, <2>12 DEF BusInv
<1> QED BY <1>8, <1>9

LEMMA BusAfterRegister ==
    ASSUME WorldInv, WorkersAgree', BusInv, OneAddressPerWorld,
           NEW a \in Address, NEW w \in World, RegisterPartition(a, w)
    PROVE  BusInv'
<1>1. /\ routing[a] = None /\ Exists(w) /\ Bound(w) = {} /\ sentSeq' = sentSeq
      /\ routing' = [routing EXCEPT ![a] = NewRoute(w)]
      /\ worlds' = Propagated([worlds EXCEPT ![w].part = a], routing')
  BY DEF RegisterPartition
<1>2. PICK e \in BoundedEntry : e = worlds[w]
  BY <1>1 DEF WorldInv, WorldTypes, Exists
<1>3. PICK f \in BoundedEntry : f = [e EXCEPT !.part = a]
  BY EntryFields
<1>4. f # None /\ f.worker = e.worker /\ f.part = a
  BY <1>3, EntryFields
<1>5. PICK es \in [World -> BoundedEntry \cup {None}] : es = [worlds EXCEPT ![w] = f]
  BY DEF WorldInv, WorldTypes
<1>6. es[w] = f /\ \A v \in World \ {w} : es[v] = worlds[v]
  BY <1>5 DEF WorldInv, WorldTypes
<1>7. PICK rs : rs = routing'
  OBVIOUS
<1>8. worlds' = Propagated(es, rs)
  BY <1>1, <1>2, <1>3, <1>5, <1>7
<1>9. \A v \in World : es[v] # None =>
        /\ worlds'[v] # None /\ worlds'[v].known = Topology(rs) \ {es[v].part}
        /\ worlds'[v].part = es[v].part /\ worlds'[v].worker = es[v].worker
  BY <1>8, Propagates
<1>10. routing \in Routes
  BY DEF BusInv
<1>11. PICK s : s = NewRoute(w)
  OBVIOUS
<1>12. s \in BoundedRoute /\ s.world = w /\ s.worker = e.worker /\ s # None
  <2>1. PICK q \in Seq(Message) : q = <<>> /\ Len(q) = 0
    BY EmptySeq
  <2>2. s = [world |-> w, worker |-> e.worker, inbound |-> q]
    BY <1>2, <1>11, <2>1 DEF NewRoute
  <2>3. e.worker \in Worker
    BY <1>2 DEF BoundedEntry, Entry
  <2>4. s \in Route /\ s.world = w /\ s.worker = e.worker /\ s.inbound = q
    BY <2>2, <2>3 DEF Route
  <2> QED BY <2>1, <2>4, NoneAssumption, RuntimeAssumption DEF BoundedRoute
<1>13. rs \in Routes /\ rs[a] = s /\ \A b \in Address \ {a} : rs[b] = routing[b]
  BY <1>1, <1>7, <1>10, <1>11, <1>12 DEF Routes
<1>14. \A b \in Address \ {a} : rs[b] # None => rs[b].world \in World \ {w}
  BY <1>1, <1>10, <1>13 DEF Bound, Routes, BoundedRoute, Route
<1>15. OneAddress'
  <2>1. \A b, c \in Address : rs[b] # None /\ rs[c] # None /\ rs[b].world = rs[c].world => b = c
    <3>1. ASSUME NEW b \in Address, NEW c \in Address, rs[b] # None, rs[c] # None, rs[b].world = rs[c].world
          PROVE  b = c
      <4>1. CASE b = a \/ c = a
        BY <1>12, <1>13, <1>14, <3>1, <4>1
      <4>2. CASE b # a /\ c # a
        BY <1>13, <3>1, <4>2 DEF BusInv, OneAddress
      <4> QED BY <4>1, <4>2
    <3> QED BY <3>1
  <2> QED BY <1>7, <2>1 DEF OneAddress
<1>16. ASSUME NEW b \in Address, rs[b] # None
       PROVE  /\ worlds'[rs[b].world] # None /\ rs[b].worker = worlds'[rs[b].world].worker
              /\ worlds'[rs[b].world].part = b /\ worlds'[rs[b].world].known = Topology(rs) \ {b}
  <2>1. CASE b = a
    BY <1>4, <1>6, <1>9, <1>12, <1>13, <2>1
  <2>2. CASE b # a
    <3>1. PICK v \in World \ {w} : v = rs[b].world /\ v = routing[b].world /\ rs[b] = routing[b]
      BY <1>13, <1>14, <1>16, <2>2
    <3>2. worlds[v] # None /\ routing[b].worker = worlds[v].worker /\ worlds[v].part = b
      BY <1>16, <3>1 DEF BusInv, OwnershipAgrees, RoutingIsCurrent, Exists
    <3> QED BY <1>6, <1>9, <3>1, <3>2
  <2> QED BY <2>1, <2>2
<1>17. OwnershipAgrees'
  BY <1>7, <1>16 DEF OwnershipAgrees, Exists, WorkersAgree
<1>18. RoutingIsCurrent'
  <2>1. Topology(routing)' = Topology(rs)
    BY <1>7 DEF Topology
  <2> QED BY <1>7, <1>16, <2>1 DEF RoutingIsCurrent
<1> QED BY <1>1, <1>7, <1>13, <1>15, <1>17, <1>18 DEF BusInv

(* An address is given up, by itself or with its world. *)
LEMMA BusAfterDrop ==
    ASSUME WorldInv, WorkersAgree', BusInv, NEW a \in Address, routing[a] # None,
           routing' = Unregistered(a), sentSeq' \in [Address -> Nat],
           \A v \in World : worlds[v] # None /\ v # routing[a].world =>
               /\ worlds'[v] # None /\ worlds'[v].known = Topology(routing') \ {worlds[v].part}
               /\ worlds'[v].part = worlds[v].part /\ worlds'[v].worker = worlds[v].worker
    PROVE  BusInv'
<1>1. routing \in Routes
  BY DEF BusInv
<1>2. PICK rs : rs = routing'
  OBVIOUS
<1>3. rs \in Routes /\ rs[a] = None /\ \A b \in Address \ {a} : rs[b] = routing[b]
  BY <1>1, <1>2 DEF Unregistered, Routes
<1>4. ASSUME NEW b \in Address, rs[b] # None
      PROVE  /\ worlds'[rs[b].world] # None /\ rs[b].worker = worlds'[rs[b].world].worker
             /\ worlds'[rs[b].world].part = b /\ worlds'[rs[b].world].known = Topology(rs) \ {b}
  <2>1. b # a /\ rs[b] = routing[b] /\ rs[b].world \in World
    BY <1>3, <1>4 DEF Routes, BoundedRoute, Route
  <2>2. PICK v \in World : v = rs[b].world /\ v = routing[b].world
    BY <2>1
  <2>3. v # routing[a].world
    BY <1>4, <2>1, <2>2 DEF BusInv, OneAddress
  <2>4. worlds[v] # None /\ routing[b].worker = worlds[v].worker /\ worlds[v].part = b
    BY <1>4, <2>1, <2>2 DEF BusInv, OwnershipAgrees, RoutingIsCurrent, Exists
  <2> QED BY <1>2, <2>1, <2>2, <2>3, <2>4
<1>5. OneAddress'
  BY <1>2, <1>3 DEF BusInv, OneAddress
<1>6. OwnershipAgrees'
  BY <1>2, <1>4 DEF OwnershipAgrees, Exists, WorkersAgree
<1>7. RoutingIsCurrent'
  <2>1. Topology(routing)' = Topology(rs)
    BY <1>2 DEF Topology
  <2> QED BY <1>2, <1>4, <2>1 DEF RoutingIsCurrent
<1> QED BY <1>2, <1>3, <1>5, <1>6, <1>7 DEF BusInv

LEMMA BusAfterUnregister ==
    ASSUME WorldInv, WorkersAgree', BusInv, NEW a \in Address, UnregisterPartition(a)
    PROVE  BusInv'
<1>1. /\ routing[a] # None /\ routing' = Unregistered(a) /\ sentSeq' = [sentSeq EXCEPT ![a] = 0]
      /\ worlds' = Propagated(worlds, routing')
  BY DEF UnregisterPartition
<1>2. sentSeq' \in [Address -> Nat]
  BY <1>1 DEF BusInv
<1>3. PICK rs : rs = routing'
  OBVIOUS
<1>4. worlds' = Propagated(worlds, rs)
  BY <1>1, <1>3
<1>5. PICK es \in [World -> BoundedEntry \cup {None}] : es = worlds
  BY DEF WorldInv, WorldTypes
<1>6. \A v \in World : worlds[v] # None =>
        /\ worlds'[v] # None /\ worlds'[v].known = Topology(rs) \ {worlds[v].part}
        /\ worlds'[v].part = worlds[v].part /\ worlds'[v].worker = worlds[v].worker
  BY <1>4, <1>5, Propagates
<1> QED BY <1>1, <1>2, <1>3, <1>6, BusAfterDrop

LEMMA BusAfterDestroy ==
    ASSUME WorldInv, WorkersAgree', BusInv, NEW w \in World, DestroyPartition(w)
    PROVE  BusInv'
<1>1. /\ routing' = RoutesWithout(w)
      /\ sentSeq' = [a \in Address |-> IF routing'[a] = None THEN 0 ELSE sentSeq[a]]
      /\ worlds' = [(IF routing' = routing THEN worlds ELSE Propagated(worlds, routing')) EXCEPT ![w] = None]
  BY DEF DestroyPartition
<1>2. sentSeq' \in [Address -> Nat]
  BY <1>1 DEF BusInv
<1>3. routing \in Routes
  BY DEF BusInv
<1>4. PICK es \in [World -> BoundedEntry \cup {None}] : es = worlds
  BY DEF WorldInv, WorldTypes
<1>5. CASE Bound(w) = {}
  <2>1. routing' = routing /\ worlds' = [es EXCEPT ![w] = None]
    BY <1>1, <1>4, <1>5 DEF RoutesWithout
  <2>2. \A v \in World \ {w} : worlds'[v] = worlds[v]
    BY <1>4, <2>1
  <2>3. \A a \in Address : routing[a] # None => routing[a].world \in World \ {w}
    BY <1>3, <1>5 DEF Bound, Routes, BoundedRoute, Route
  <2>4. OneAddress'
    BY <2>1 DEF BusInv, OneAddress
  <2>5. OwnershipAgrees'
    <3>1. \A a \in Address : routing'[a] # None =>
            worlds'[routing'[a].world] # None /\ routing'[a].worker = worlds'[routing'[a].world].worker
      BY <2>1, <2>2, <2>3 DEF BusInv, OwnershipAgrees, Exists
    <3> QED BY <3>1 DEF OwnershipAgrees, Exists, WorkersAgree
  <2>6. RoutingIsCurrent'
    <3>1. Topology(routing)' = Topology(routing)
      BY <2>1 DEF Topology
    <3> QED BY <2>1, <2>2, <2>3, <3>1 DEF BusInv, RoutingIsCurrent
  <2> QED BY <1>2, <1>3, <2>1, <2>4, <2>5, <2>6 DEF BusInv
<1>6. CASE Bound(w) # {}
  <2>1. PICK a \in Address : a = AddressOf(w) /\ routing[a] # None /\ routing[a].world = w
    BY <1>6, FindsAddress DEF Bound
  <2>2. routing' = Unregistered(a)
    BY <1>1, <1>6, <2>1 DEF RoutesWithout
  <2>3. routing' # routing
    BY <1>3, <2>1, <2>2 DEF Unregistered, Routes
  <2>4. PICK rs : rs = routing'
    OBVIOUS
  <2>5. PICK fs : fs = Propagated(es, rs)
    OBVIOUS
  <2>6. worlds' = [fs EXCEPT ![w] = None]
    BY <1>1, <1>4, <2>3, <2>4, <2>5
  <2>7. /\ fs \in [World -> BoundedEntry \cup {None}]
        /\ \A v \in World : es[v] # None =>
             /\ fs[v] # None /\ fs[v].known = Topology(rs) \ {es[v].part}
             /\ fs[v].part = es[v].part /\ fs[v].worker = es[v].worker
    BY <2>5, Propagates
  <2>8. \A v \in World : worlds[v] # None /\ v # w =>
          /\ worlds'[v] # None /\ worlds'[v].known = Topology(rs) \ {worlds[v].part}
          /\ worlds'[v].part = worlds[v].part /\ worlds'[v].worker = worlds[v].worker
    BY <1>4, <2>6, <2>7
  <2> QED BY <1>2, <2>1, <2>2, <2>4, <2>8, BusAfterDrop
<1> QED BY <1>5, <1>6

LEMMA BusStep ==
    ASSUME WorldInv, WorldInv', BusInv, OneAddressPerWorld, RNext
    PROVE  BusInv'
<1>1. WorkersAgree' /\ WorldTypes /\ StepTypes /\ WorkersAgree
  BY DEF WorldInv
<1>2. routing \in Routes /\ sentSeq \in [Address -> Nat] /\ SameRoutes(routing, routing)
  BY SameRoutesReflexive DEF BusInv
<1> DEFINE Keeps == \A w \in World : worlds[w] # None =>
                       /\ worlds'[w] # None /\ worlds'[w].worker = worlds[w].worker
                       /\ worlds'[w].part = worlds[w].part /\ worlds'[w].known = worlds[w].known
<1>3. ASSUME Keeps, routing' = routing, sentSeq' = sentSeq PROVE BusInv'
  BY <1>1, <1>2, <1>3, BusKept
<1>4. ASSUME NEW w \in World, CreatePartition(w) PROVE BusInv'
  <2>1. CASE Adopt(w, 0)
    <3>1. ~Exists(w) /\ \A v \in World \ {w} : worlds'[v] = worlds[v]
      BY <1>1, <1>4, <2>1 DEF CreatePartition, Adopt, WorldTypes
    <3>2. Keeps
      BY <3>1 DEF Exists
    <3> QED BY <1>3, <1>4, <3>2 DEF CreatePartition
  <2>2. CASE worlds' = worlds
    BY <1>3, <1>4, <2>2 DEF CreatePartition
  <2> QED BY <1>4, <2>1, <2>2 DEF CreatePartition
<1>5. ASSUME NEW w \in World, NEW t \in 0..MaxTick, RecoverPartition(w, t) PROVE BusInv'
  <2>1. ~Exists(w) /\ \A v \in World \ {w} : worlds'[v] = worlds[v]
    BY <1>1, <1>5 DEF RecoverPartition, Adopt, WorldTypes
  <2>2. Keeps
    BY <2>1 DEF Exists
  <2> QED BY <1>3, <1>5, <2>2 DEF RecoverPartition
<1>6. ASSUME NEW w \in World, StartPartition(w) \/ StopPartition(w) PROVE BusInv'
  <2>1. PICK s \in States : worlds' = [worlds EXCEPT ![w].state = s]
    BY <1>6 DEF StartPartition, StopPartition, States
  <2>2. Keeps
    BY <1>1, <1>6, <2>1, SetState DEF StartPartition, StopPartition
  <2> QED BY <1>3, <1>6, <2>2 DEF StartPartition, StopPartition
<1>7. ASSUME NEW w \in World, SubmitReducerCall(w) PROVE BusInv'
  <2>1. Keeps
    BY <1>1, <1>7, CallQueued
  <2> QED BY <1>3, <1>7, <2>1 DEF SubmitReducerCall
<1>8. ASSUME NEW w \in World, NEW t \in 0..MaxTick, NEW n \in FrameSizes, SubmitInput(w, t, n) PROVE BusInv'
  <2>1. t \in Nat /\ n \in Nat
    BY RuntimeAssumption
  <2>2. Keeps
    BY <1>1, <1>8, <2>1, InputQueued
  <2> QED BY <1>3, <1>8, <2>2 DEF SubmitInput
<1>9. ASSUME NEW w \in World, NEW batch, NEW o \in TickOutcomes(worlds[w], batch), Exists(w),
             worlds' = [worlds EXCEPT ![w] = o.entry], hist' = [hist EXCEPT ![w] = Recorded(@, o)]
      PROVE  Keeps /\ o.sent \in Seq(Message)
  <2>1. worlds'[w] = o.entry /\ worlds'[w] # None /\ Outcome(worlds[w], o)
    BY <1>1, <1>9, OutcomeTypes
  <2>2. \A v \in World \ {w} : worlds'[v] = worlds[v]
    BY <1>1, <1>9 DEF WorldTypes
  <2>3. /\ o.entry.worker = worlds[w].worker /\ o.entry.part = worlds[w].part
        /\ o.entry.known = worlds[w].known /\ o.sent \in Seq(Message)
    BY <2>1 DEF Outcome
  <2> QED BY <2>1, <2>2, <2>3
<1>10. ASSUME NEW w \in World, TickOnce(w) PROVE BusInv'
  <2>1. PICK o \in TickOutcomes(worlds[w], Deliverable(w)) :
          /\ worlds' = [worlds EXCEPT ![w] = o.entry] /\ hist' = [hist EXCEPT ![w] = Recorded(@, o)]
          /\ routing' = Outbound(Undelivered({w}), o.sent)
    BY <1>10 DEF TickOnce
  <2>2. Exists(w) /\ sentSeq' = sentSeq
    BY <1>10 DEF TickOnce, RunningWorlds
  <2>3. Keeps /\ o.sent \in Seq(Message)
    BY <1>9, <2>1, <2>2
  <2>4. PICK rs : rs = Undelivered({w})
    OBVIOUS
  <2>5. SameRoutes(routing, rs)
    BY <1>2, <2>4, UndeliveredKeeps
  <2>6. SameRoutes(rs, routing')
    BY <2>1, <2>3, <2>4, <2>5, OutboundKeeps DEF SameRoutes
  <2>7. SameRoutes(routing, routing')
    BY <2>5, <2>6, SameRoutesTransitive
  <2> QED BY <1>1, <1>2, <2>2, <2>3, <2>7, BusKept
<1>11. ASSUME NEW w \in World, TickWorld(w) PROVE BusInv'
  <2>1. PICK o \in TickOutcomes(worlds[w], step.delivered[w]) :
          worlds' = [worlds EXCEPT ![w] = o.entry] /\ hist' = [hist EXCEPT ![w] = Recorded(@, o)]
    BY <1>11 DEF TickWorld
  <2>2. Exists(w)
    BY <1>1, <1>11 DEF TickWorld, StepTypes
  <2>3. Keeps
    BY <1>9, <2>1, <2>2
  <2> QED BY <1>3, <1>11, <2>3 DEF TickWorld
<1>12. ASSUME NEW k \in Worker, FailWorker(k) PROVE BusInv'
  <2>1. workers[k].worlds \subseteq World /\ \A w \in workers[k].worlds : Exists(w)
    BY <1>1 DEF WorldTypes, WorkersAgree
  <2>2. Keeps
    BY <1>1, <1>12, <2>1, FailedEntries DEF FailWorker
  <2> QED BY <1>3, <1>12, <2>2 DEF FailWorker
<1>13. ASSUME NEW a \in Address, NEW b \in Address, SendMessage(a, b) PROVE BusInv'
  <2>1. PICK m : /\ m = [from |-> a, to |-> b, tick |-> worlds[routing[a].world].tick, seq |-> sentSeq[a]]
                 /\ routing' = Enqueue(routing, m)
    BY <1>13 DEF SendMessage
  <2>2. m \in Message
    <3>1. routing[a] # None /\ routing[a].world \in World
      BY <1>2, <1>13 DEF SendMessage, Routes, BoundedRoute, Route
    <3>2. worlds[routing[a].world] \in Entry
      BY <1>1, <3>1 DEF BusInv, OwnershipAgrees, Exists, WorldTypes, BoundedEntry
    <3>3. worlds[routing[a].world].tick \in Nat /\ sentSeq[a] \in Nat
      BY <1>2, <3>2 DEF Entry
    <3> QED BY <2>1, <3>3 DEF Message
  <2>3. SameRoutes(routing, routing')
    BY <1>2, <2>1, <2>2, EnqueueKeeps
  <2>4. sentSeq' \in [Address -> Nat] /\ Keeps
    BY <1>2, <1>13 DEF SendMessage
  <2> QED BY <1>1, <2>3, <2>4, BusKept
<1>14. ASSUME StepBegin PROVE BusInv'
  <2>1. routing' = Undelivered(RunningWorlds) /\ sentSeq' = sentSeq /\ Keeps
    BY <1>14 DEF StepBegin
  <2>2. SameRoutes(routing, routing')
    BY <1>2, <2>1, UndeliveredKeeps
  <2> QED BY <1>1, <1>2, <2>1, <2>2, BusKept
<1>15. ASSUME StepEnd PROVE BusInv'
  <2>1. routing' = Applied /\ step # None /\ sentSeq' = sentSeq /\ Keeps
    BY <1>15 DEF StepEnd
  <2>2. SameRoutes(routing, routing')
    BY <1>1, <1>2, <2>1, AppliedKeeps
  <2> QED BY <1>1, <1>2, <2>1, <2>2, BusKept
<1>16. ASSUME Shutdown PROVE BusInv'
  <2>1. Keeps
    BY <1>1, <1>16, StoppedEntries
  <2> QED BY <1>3, <1>16, <2>1 DEF Shutdown
<1> HIDE DEF Keeps
<1> QED BY <1>1, <1>4, <1>5, <1>6, <1>7, <1>8, <1>10, <1>11, <1>12, <1>13, <1>14, <1>15, <1>16,
           BusAfterReassign, BusAfterRegister, BusAfterUnregister, BusAfterDestroy DEF RNext

-----------------------------------------------------------------------------
(* "No accepted call is silently lost": whatever the host does, whichever   *)
(* ticks fail and however the threads of a step interleave, the calls a     *)
(* world accepted are, in order, those it answered, those its failed log    *)
(* left unanswered, and those still queued.                                 *)
THEOREM AcceptedCallsAreConserved == RSpec => []CallsAreConserved
<1>1. WorldInv => CallsAreConserved
  BY DEF WorldInv
<1> QED BY <1>1, WorldInit, WorldStep, PTL DEF RSpec

LEMMA BusUnchanged ==
    ASSUME BusInv, UNCHANGED rvars
    PROVE  BusInv'
<1>1. routing' = routing /\ sentSeq' = sentSeq /\ worlds' = worlds /\ workers' = workers
  BY DEF rvars
<1> QED BY <1>1 DEF BusInv, OneAddress, OwnershipAgrees, RoutingIsCurrent, Exists, Topology

(* The invariant of the registry, for a host that binds each world to one   *)
(* address at a time.                                                       *)
LEMMA BusInvariant == OneAddressPerWorld => (RSpec => [](WorldInv /\ BusInv))
<1> SUFFICES ASSUME OneAddressPerWorld PROVE RSpec => [](WorldInv /\ BusInv)
  OBVIOUS
<1>1. RInit => WorldInv /\ BusInv
  BY WorldInit, BusInit
<1>2. WorldInv /\ BusInv /\ [RNext]_rvars => WorldInv' /\ BusInv'
  BY WorldStep, BusStep, BusUnchanged
<1> QED BY <1>1, <1>2, PTL DEF RSpec

(* fail_worker, reassign_partition, destroy_partition and send_message      *)
(* expect() that workers, entries and registry agree on who owns a world.   *)
(* They do, if no world has two addresses; the world is never run by a      *)
(* failed worker.                                                           *)
THEOREM OwnersAgree == OneAddressPerWorld => (RSpec => []OwnershipAgrees)
<1>1. BusInv => OwnershipAgrees
  BY DEF BusInv
<1> QED BY <1>1, BusInvariant, PTL

(* propagate_topology: a registered world knows exactly the other addresses *)
(* of the registry, after every registration, removal and destruction.      *)
THEOREM TopologyIsCurrent == OneAddressPerWorld => (RSpec => []RoutingIsCurrent)
<1>1. BusInv => RoutingIsCurrent
  BY DEF BusInv
<1> QED BY <1>1, BusInvariant, PTL

(* submit_input, submit_reducer_call, enqueue_message and the requeueing of *)
(* a failed tick's calls keep every queue within its configured bound.      *)
THEOREM QueuesAreBounded == OneAddressPerWorld => (RSpec => []RuntimeTypeOK)
<1>1. WorldInv /\ BusInv => RuntimeTypeOK
  BY DEF WorldInv, WorldTypes, BusInv, RuntimeTypeOK, Exists, BoundedEntry, Routes, BoundedRoute, Route
<1> QED BY <1>1, BusInvariant, PTL

(* ADR-018: whatever the order in which the threads of a step finish, its   *)
(* messages reach each queue behind what was there, in the order of the     *)
(* worlds that sent them, as a serial step would have applied them.         *)
THEOREM StepsApplyInOrder == OneAddressPerWorld => (RSpec => AppliedInWorldOrder)
<1> DEFINE InOrder(a) ==
        LET old == routing[a].inbound
            new == routing'[a].inbound
            added == Len(old) + 1 .. Len(new)
        IN  /\ Len(old) <= Len(new) /\ \A i \in 1 .. Len(old) : new[i] = old[i]
            /\ \E sender \in [added -> DOMAIN step.order] :
                  /\ \A i, j \in added : i < j => sender[i] <= sender[j]
                  /\ \A i \in added :
                        LET w == step.order[sender[i]]
                        IN  w \in step.due /\ new[i] \in ToSet(step.sent[w])
           Orders == StepEnd => \A a \in Address : routing[a] # None => InOrder(a)
<1>1. ASSUME WorldInv, BusInv, StepEnd PROVE \A a \in Address : routing[a] # None => InOrder(a)
  <2>1. StepTypes /\ routing \in Routes /\ step # None /\ routing' = Applied
    BY <1>1 DEF WorldInv, BusInv, StepEnd
  <2>2. Merged(routing, routing', Len(step.order))
    BY <2>1, AppliedKeeps
  <2>3. DOMAIN step.order = 1 .. Len(step.order)
    BY <2>1, LenProperties DEF StepTypes
  <2> QED BY <2>2, <2>3 DEF Merged, Behind
<1>2. WorldInv /\ BusInv => [Orders]_rvars
  BY <1>1
<1>3. SUFFICES ASSUME OneAddressPerWorld PROVE RSpec => AppliedInWorldOrder
  OBVIOUS
<1>4. RSpec => [](WorldInv /\ BusInv)
  BY <1>3, BusInvariant
<1> QED BY <1>2, <1>4, PTL DEF AppliedInWorldOrder

=============================================================================
