-------------------------------- MODULE Link --------------------------------
(***************************************************************************)
(* The in-process connection: lock-free single-producer single-consumer    *)
(* rings (spsc.rs) under MemoryConnection (transport.rs), one atomic       *)
(* instruction per step.                                                   *)
(*                                                                         *)
(* One direction of a connection has one sending and one receiving thread. *)
(* Client to server it is one ring; server to client it is two, direct     *)
(* messages and encoded frames, that share one limit.  A flag tells the    *)
(* receiver that there is something to pop.                                *)
(*                                                                         *)
(* Indices are usize and wrap: they are kept modulo Wrap, a multiple of    *)
(* the ring's capacity as 2^64 is.  A load of the other thread's index is  *)
(* an Acquire load without a lock: it returns the current value or an      *)
(* older one, never one older than the last value this thread has seen.    *)
(***************************************************************************)
EXTENDS Naturals, Sequences, SequencesExt, FiniteSets

CONSTANTS
    Cap,         \* inbound_cap or outbound_cap, the limit the configuration sets
    RingCap,     \* the capacity of every ring
    Wrap,        \* the modulus of the indices
    MaxItems     \* bound: how many items are sent

PowersOfTwo == {2^k : k \in 0..30}

(* connect rounds the limit up to a power of two that is at least two. *)
RingCapacities(limit) == {p \in PowersOfTwo : p >= 2 /\ p >= limit}

ASSUME LinkAssumption ==
    /\ Cap \in Nat \ {0} /\ RingCap \in Nat /\ Wrap \in Nat /\ MaxItems \in Nat
    /\ RingCap \in RingCapacities(Cap) /\ \A p \in RingCapacities(Cap) : RingCap <= p
    /\ Wrap % RingCap = 0 /\ Wrap > RingCap

Ring == {"inbound", "msgs", "frames"}
Item == 1..MaxItems
Index == 0..(Wrap - 1)

VARIABLES
    dir,         \* "inbound" (client to server) or "outbound"
    write_idx, read_idx, buf,
    flag,        \* has_inbound or has_outbound
    closed,
    prod, cons,  \* where the sending and the receiving thread are
    pseen,       \* the last read_idx of each ring the sender has loaded
    cseen,       \* the last write_idx of each ring the receiver has loaded
    pushed,      \* how many items the rings accepted
    got          \* the items popped from each ring, in order

ringVars == <<write_idx, read_idx, buf>>
linkVars == <<dir, write_idx, read_idx, buf, flag, closed, prod, cons, pseen, cseen, pushed, got>>

(* The receiver tries direct messages first; len() sums frames first. *)
PopOrder == IF dir = "inbound" THEN <<"inbound">> ELSE <<"msgs", "frames">>
LenOrder == Reverse(PopOrder)

Idle == [at |-> "idle", k |-> 0, sum |-> 0, q |-> "inbound", item |-> 0]

LinkInit ==
    /\ dir \in {"inbound", "outbound"}
    /\ write_idx = [r \in Ring |-> 0]
    /\ read_idx = [r \in Ring |-> 0]
    /\ buf = [r \in Ring |-> [s \in 0..(RingCap - 1) |-> 0]]
    /\ flag = FALSE
    /\ closed = FALSE
    /\ prod = Idle /\ cons = Idle
    /\ pseen = [r \in Ring |-> 0]
    /\ cseen = [r \in Ring |-> 0]
    /\ pushed = 0
    /\ got = [r \in Ring |-> <<>>]

(* Mutant: saturating_sub instead of wrapping_sub. *)
Saturating(a, b) == IF a >= b THEN a - b ELSE 0

(* a.wrapping_sub(b) *)
WrappingSub(a, b) == (a + Wrap - b) % Wrap

(* index.wrapping_add(1) *)
Advance(i) == (i + 1) % Wrap

(* index & mask *)
Slot(i) == i % RingCap

(* How many items a ring holds. *)
Held(r) == WrappingSub(write_idx[r], read_idx[r])

(* What an Acquire load may return when `seen` was loaded last. *)
Loads(seen, current) == {(seen + i) % Wrap : i \in 0..((current + Wrap - seen) % Wrap)}
-----------------------------------------------------------------------------
(* The sending thread: try_send_frame and try_send_direct.                 *)

(* len() of the rings against the configured limit. *)
Full(sum) == sum >= Cap

SendBegin(q) ==
    /\ prod = Idle
    /\ pushed < MaxItems
    /\ q \in ToSet(PopOrder)
    /\ ~closed
    /\ prod' = [Idle EXCEPT !.at = "len", !.k = 1, !.q = q]
    /\ UNCHANGED <<dir, ringVars, flag, closed, cons, pseen, cseen, pushed, got>>

SendLen ==
    /\ prod.at = "len"
    /\ LET r == LenOrder[prod.k]
       IN \E v \in Loads(pseen[r], read_idx[r]) :
            LET sum == prod.sum + WrappingSub(write_idx[r], v)
            IN /\ pseen' = [pseen EXCEPT ![r] = v]
               /\ prod' = IF prod.k < Len(LenOrder)
                          THEN [prod EXCEPT !.k = @ + 1, !.sum = sum]
                          ELSE IF Full(sum) THEN Idle
                          ELSE [prod EXCEPT !.at = "push"]
    /\ UNCHANGED <<dir, ringVars, flag, closed, cons, cseen, pushed, got>>

(* Mutant: push publishes the index before it writes the slot. *)
PushLoadThenPublish ==
    /\ prod.at = "push"
    /\ prod' = [prod EXCEPT !.at = "publish"]
    /\ UNCHANGED <<dir, ringVars, flag, closed, cons, pseen, cseen, pushed, got>>

PushLoad ==
    /\ prod.at = "push"
    /\ \E v \in Loads(pseen[prod.q], read_idx[prod.q]) :
         /\ pseen' = [pseen EXCEPT ![prod.q] = v]
         /\ prod' = IF WrappingSub(write_idx[prod.q], v) >= RingCap
                    THEN Idle
                    ELSE [prod EXCEPT !.at = "write"]
    /\ UNCHANGED <<dir, ringVars, flag, closed, cons, cseen, pushed, got>>

PushWrite ==
    /\ prod.at = "write"
    /\ buf' = [buf EXCEPT ![prod.q][Slot(write_idx[prod.q])] = pushed + 1]
    /\ prod' = [prod EXCEPT !.at = "publish"]
    /\ UNCHANGED <<dir, write_idx, read_idx, flag, closed, cons, pseen, cseen, pushed, got>>

PushPublish ==
    /\ prod.at = "publish"
    /\ write_idx' = [write_idx EXCEPT ![prod.q] = Advance(@)]
    /\ pushed' = pushed + 1
    /\ prod' = [prod EXCEPT !.at = "flag"]
    /\ UNCHANGED <<dir, read_idx, buf, flag, closed, cons, pseen, cseen, got>>

SendFlag ==
    /\ prod.at = "flag"
    /\ flag' = TRUE
    /\ prod' = Idle
    /\ UNCHANGED <<dir, ringVars, closed, cons, pseen, cseen, pushed, got>>
-----------------------------------------------------------------------------
(* The receiving thread: try_recv_frame of the server, and                 *)
(* try_recv_any_combined of the client.                                    *)

(* Without the flag the receiver does not look at the rings. *)
RecvBegin ==
    /\ cons = Idle
    /\ cons' = IF flag THEN [Idle EXCEPT !.at = "pop", !.k = 1] ELSE Idle
    /\ UNCHANGED <<dir, ringVars, flag, closed, prod, pseen, cseen, pushed, got>>

PopLoad ==
    /\ cons.at = "pop"
    /\ LET r == PopOrder[cons.k]
       IN \E v \in Loads(cseen[r], write_idx[r]) :
            /\ cseen' = [cseen EXCEPT ![r] = v]
            /\ cons' = IF v # read_idx[r]
                       THEN [cons EXCEPT !.at = "read", !.q = r]
                       ELSE IF cons.k < Len(PopOrder)
                       THEN [cons EXCEPT !.k = @ + 1]
                       ELSE [cons EXCEPT !.at = "clear"]
    /\ UNCHANGED <<dir, ringVars, flag, closed, prod, pseen, pushed, got>>

PopRead ==
    /\ cons.at = "read"
    /\ cons' = [cons EXCEPT !.at = "advance",
                            !.item = buf[cons.q][Slot(read_idx[cons.q])]]
    /\ UNCHANGED <<dir, ringVars, flag, closed, prod, pseen, cseen, pushed, got>>

PopAdvance ==
    /\ cons.at = "advance"
    /\ read_idx' = [read_idx EXCEPT ![cons.q] = Advance(@)]
    /\ got' = [got EXCEPT ![cons.q] = Append(@, cons.item)]
    /\ cons' = [Idle EXCEPT !.at = "empty", !.k = 1]
    /\ UNCHANGED <<dir, write_idx, buf, flag, closed, prod, pseen, cseen, pushed>>

(* is_empty() of each ring; the first one that is not empty ends the call. *)
EmptyLoad ==
    /\ cons.at = "empty"
    /\ LET r == LenOrder[cons.k]
       IN \E v \in Loads(cseen[r], write_idx[r]) :
            /\ cseen' = [cseen EXCEPT ![r] = v]
            /\ cons' = IF v # read_idx[r] THEN Idle
                       ELSE IF cons.k < Len(LenOrder)
                       THEN [cons EXCEPT !.k = @ + 1]
                       ELSE [cons EXCEPT !.at = "clear"]
    /\ UNCHANGED <<dir, ringVars, flag, closed, prod, pseen, pushed, got>>

RecvClear ==
    /\ cons.at = "clear"
    /\ flag' = FALSE
    /\ cons' = Idle
    /\ UNCHANGED <<dir, ringVars, closed, prod, pseen, cseen, pushed, got>>

(* close of either end: only senders look at it. *)
Close ==
    /\ ~closed
    /\ closed' = TRUE
    /\ UNCHANGED <<dir, ringVars, flag, prod, cons, pseen, cseen, pushed, got>>

LinkNext ==
    \/ \E q \in Ring : SendBegin(q)
    \/ SendLen \/ PushLoad \/ PushWrite \/ PushPublish \/ SendFlag
    \/ RecvBegin \/ PopLoad \/ PopRead \/ PopAdvance \/ EmptyLoad \/ RecvClear
    \/ Close

LinkSpec == LinkInit /\ [][LinkNext]_linkVars
-----------------------------------------------------------------------------
(* Properties *)

(* The program counters and indices stay in their ranges, and no thread    *)
(* has seen an index that was never stored.                                *)
LinkTypeOK ==
    /\ write_idx \in [Ring -> Index] /\ read_idx \in [Ring -> Index]
    /\ pseen \in [Ring -> Index] /\ cseen \in [Ring -> Index]
    /\ flag \in BOOLEAN /\ closed \in BOOLEAN
    /\ pushed \in 0..MaxItems
    /\ prod.at \in {"idle", "len", "push", "write", "publish", "flag"}
    /\ cons.at \in {"idle", "pop", "read", "advance", "empty", "clear"}
    /\ \A r \in Ring : Held(r) <= RingCap

(* push and pop never touch the same slot at the same time: the two unsafe *)
(* accesses of spsc.rs do not race, also when the ring is full or wraps.   *)
SlotsDoNotCollide ==
    (prod.at = "write" /\ cons.at = "read" /\ prod.q = cons.q)
        => Slot(write_idx[prod.q]) # Slot(read_idx[cons.q])

(* The link implements the channel: per ring first-in first-out, nothing   *)
(* lost or duplicated, and never more than the configured limit in flight  *)
(* over both rings together.                                               *)
InFlight(r) == [i \in 1..Held(r) |-> buf[r][Slot(read_idx[r] + i - 1)]]
Channels == INSTANCE Channel WITH
    Queue <- Ring, Limit <- Cap,
    queue <- [r \in Ring |-> InFlight(r)], taken <- got,
    load <- Held("inbound") + Held("msgs") + Held("frames")
ImplementsChannel == Channels!ChanSpec

(* transport.rs says of the flag "true when `inbound` has pending frames": *)
(* once both threads are between calls, a ring that holds an item has its  *)
(* flag set, so that the next receive finds it.                            *)
FlagTellsThePending ==
    (prod = Idle /\ cons = Idle /\ \E r \in Ring : write_idx[r] # read_idx[r]) => flag
=============================================================================
