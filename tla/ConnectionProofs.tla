-------------------------- MODULE ConnectionProofs --------------------------
(***************************************************************************)
(* Proofs about the two ends of a connection, which share no state: first  *)
(* the in-process link under the gateway, then the client SDK on top.      *)
(*                                                                         *)
(* The link, for every limit, ring capacity, index width and number of     *)
(* items: its types, that the two unsafe accesses of the ring never race,  *)
(* and that it implements the bounded channel.  The argument: every index  *)
(* is on a circle of Wrap positions, and going round it from what the      *)
(* sender has seen of read_idx one passes read_idx, then what the receiver *)
(* has seen of write_idx, then write_idx, within one capacity.  So what a  *)
(* thread concludes from an old index of the other one is on the safe side. *)
(*                                                                         *)
(* The client, for any number of requests, worlds, connections and         *)
(* messages under way: a reducer call resolves exactly once.  The argument *)
(* is a balance: pending entries and results of a request add up to one    *)
(* from the moment call_reducer returns its id, and to nothing before,     *)
(* because request ids only grow.  Every way of dispatching a message,     *)
(* also a whole batch of them, and every way of ending a connection keeps  *)
(* the balance.                                                            *)
(***************************************************************************)
EXTENDS Link, Client, Induction, SequenceTheorems

-----------------------------------------------------------------------------
(* The link.                                                               *)

ProdAt == {"idle", "len", "push", "write", "publish", "flag"}
ConsAt == {"idle", "pop", "read", "advance", "empty", "clear"}
Rings == IF dir = "inbound" THEN {"inbound"} ELSE {"msgs", "frames"}
Total == Held("inbound") + Held("msgs") + Held("frames")

Types ==
    /\ dir \in {"inbound", "outbound"}
    /\ write_idx \in [Ring -> Index] /\ read_idx \in [Ring -> Index]
    /\ pseen \in [Ring -> Index] /\ cseen \in [Ring -> Index]
    /\ buf \in [Ring -> [0..(RingCap - 1) -> 0..MaxItems]]
    /\ flag \in BOOLEAN /\ closed \in BOOLEAN
    /\ pushed \in 0..MaxItems
    /\ prod \in [at : ProdAt, k : 0..2, sum : Nat, q : Ring, item : {0}]
    /\ cons \in [at : ConsAt, k : 0..2, sum : {0}, q : Ring, item : 0..MaxItems]
    /\ got \in [Ring -> Seq(0..MaxItems)]

(* The indices of one ring, in their order on the circle. *)
Ordered(r) ==
    /\ Held(r) <= WrappingSub(write_idx[r], pseen[r])
    /\ WrappingSub(write_idx[r], pseen[r]) <= RingCap
    /\ WrappingSub(cseen[r], read_idx[r]) <= Held(r)

(* What the sender has established at each of its steps. *)
ProdInv ==
    /\ prod.at = "idle" => prod = Idle
    /\ prod.at \in {"len", "push", "write", "publish"} => pushed < MaxItems /\ prod.q \in Rings
    /\ prod.at = "len" => prod.k \in 1..(IF dir = "inbound" THEN 1 ELSE 2)
    /\ (prod.at = "len" /\ prod.k = 2) => Held("frames") <= prod.sum
    /\ prod.at \in {"push", "write", "publish"} => Total < Cap
    /\ prod.at \in {"write", "publish"} => WrappingSub(write_idx[prod.q], pseen[prod.q]) < RingCap
    /\ prod.at = "publish" => buf[prod.q][Slot(write_idx[prod.q])] = pushed + 1

(* What the receiver has established at each of its steps. *)
ConsInv ==
    /\ cons.at \in {"pop", "empty"} => cons.k \in 1..(IF dir = "inbound" THEN 1 ELSE 2)
    /\ cons.at \in {"read", "advance"} => WrappingSub(cseen[cons.q], read_idx[cons.q]) > 0
    /\ cons.at = "advance" => cons.item = buf[cons.q][Slot(read_idx[cons.q])]

(* The inductive invariant. *)
LinkInv ==
    /\ Types
    /\ \A r \in Ring : Ordered(r)
    /\ \A r \in Ring \ Rings : Held(r) = 0
    /\ ProdInv
    /\ ConsInv
-----------------------------------------------------------------------------
(* Arithmetic on the circle *)

(* Reduction modulo m of a number below 2m, the only case the indices      *)
(* (wrapping_add, wrapping_sub) meet.                                      *)
LEMMA ModOnce ==
    ASSUME NEW m \in Nat, m > 0, NEW x \in 0..(2 * m - 1)
    PROVE  x % m = IF x < m THEN x ELSE x - m
BY SMT

LEMMA DivMod ==
    ASSUME NEW m \in Nat, m > 0, NEW x \in Nat
    PROVE  \E a \in Nat : x = m * a + (x % m) /\ x % m \in 0..(m - 1)
<1>1. x \div m \in Nat /\ x = m * (x \div m) + (x % m) /\ x % m \in 0..(m - 1)
  BY SMT
<1> QED BY <1>1

(* Multiples of m closer to each other than m are equal. *)
LEMMA CloseMultiples ==
    ASSUME NEW m \in Nat, m > 0, NEW a \in Int, NEW b \in Int, m * a - m * b < m
    PROVE  a <= b
<1> SUFFICES ASSUME a >= b + 1 PROVE FALSE
  BY SMT
<1>1. m * (a - b - 1) >= 0
  BY SMT
<1>2. m * (a - b - 1) = m * a - m * b - m
  BY SMT
<1> QED BY <1>1, <1>2, SMT

(* Positions less than a capacity apart use different slots of the ring.   *)
LEMMA NearSlotsDiffer ==
    ASSUME NEW m \in Nat, m > 0, NEW x \in Nat, NEW d \in 1..(m - 1)
    PROVE  (x + d) % m # x % m
<1> SUFFICES ASSUME (x + d) % m = x % m PROVE FALSE
  OBVIOUS
<1>1. PICK a \in Nat : x = m * a + (x % m)
  BY DivMod
<1>2. PICK b \in Nat : x + d = m * b + ((x + d) % m)
  <2>1. x + d \in Nat
    OBVIOUS
  <2> QED BY <2>1, DivMod
<1>3. x % m \in Int /\ m * a \in Int /\ m * b \in Int
  BY SMT
<1>4. m * b - m * a = d
  BY <1>1, <1>2, <1>3, SMT
<1>5. b <= a
  BY <1>4, CloseMultiples
<1>6. m * (a - b) >= 0 /\ m * (a - b) = m * a - m * b
  BY <1>5, SMT
<1> QED BY <1>3, <1>4, <1>6, SMT

(* One turn of the circle (the wrap of usize) comes back to the same slot. *)
LEMMA SlotPeriodic ==
    ASSUME NEW m \in Nat, m > 0, NEW w \in Nat, w % m = 0, NEW x \in Nat
    PROVE  (x + w) % m = x % m
<1>1. PICK a \in Nat : x = m * a + (x % m) /\ x % m \in 0..(m - 1)
  BY DivMod
<1>2. PICK c \in Nat : w = m * c
  <2>1. PICK c \in Nat : w = m * c + (w % m)
    BY DivMod
  <2> QED BY <2>1, SMT
<1>3. PICK b \in Nat : x + w = m * b + ((x + w) % m) /\ (x + w) % m \in 0..(m - 1)
  <2>1. x + w \in Nat
    OBVIOUS
  <2> QED BY <2>1, DivMod
<1>4. m * a \in Int /\ m * c \in Int /\ m * b \in Int /\ m * (a + c) = m * a + m * c
  BY SMT
<1>5. m * (a + c) - m * b < m /\ m * b - m * (a + c) < m
  BY <1>1, <1>2, <1>3, <1>4, SMT
<1>6. a + c <= b /\ b <= a + c
  <2>1. a + c \in Int /\ b \in Int
    OBVIOUS
  <2> QED BY <2>1, <1>5, CloseMultiples
<1>7. m * (a + c) = m * b
  BY <1>6
<1> QED BY <1>1, <1>2, <1>3, <1>4, <1>7, SMT

(* Facts about the constants in the form the provers use. *)
LEMMA Constants ==
    /\ RingCap \in Nat /\ Wrap \in Nat /\ MaxItems \in Nat /\ Cap \in Nat
    /\ 0 < RingCap /\ RingCap < Wrap /\ Wrap % RingCap = 0
<1>1. RingCap >= 2
  BY LinkAssumption DEF RingCapacities
<1> QED BY <1>1, LinkAssumption, SMT

(* wrapping_sub, as a distance on the circle. *)
LEMMA SubCases ==
    ASSUME NEW a \in Index, NEW b \in Index
    PROVE  /\ WrappingSub(a, b) = IF a >= b THEN a - b ELSE a + Wrap - b
           /\ WrappingSub(a, b) \in Index
<1>1. a + Wrap - b \in 0..(2 * Wrap - 1)
  BY Constants, SMT DEF Index
<1>2. (a + Wrap - b) % Wrap = IF a + Wrap - b < Wrap THEN a + Wrap - b ELSE a + Wrap - b - Wrap
  BY <1>1, ModOnce, Constants, SMT DEF Index
<1> QED BY <1>2, Constants, SMT DEF WrappingSub, Index

(* wrapping_add *)
LEMMA AddCases ==
    ASSUME NEW a \in Index, NEW d \in Index
    PROVE  /\ (a + d) % Wrap = IF a + d < Wrap THEN a + d ELSE a + d - Wrap
           /\ (a + d) % Wrap \in Index
<1>1. a + d \in 0..(2 * Wrap - 1)
  BY Constants, SMT DEF Index
<1>2. (a + d) % Wrap = IF a + d < Wrap THEN a + d ELSE a + d - Wrap
  BY <1>1, ModOnce, Constants, SMT DEF Index
<1> QED BY <1>2, Constants, SMT DEF Index

(* Any value the sender may load of read_idx is as far from write_idx as   *)
(* read_idx or farther, and not farther than the value it knew before.     *)
LEMMA LoadsBehind ==
    ASSUME NEW p \in Index, NEW r \in Index, NEW w \in Index, NEW v \in Loads(p, r),
           WrappingSub(w, r) <= WrappingSub(w, p)
    PROVE  /\ v \in Index
           /\ WrappingSub(w, r) <= WrappingSub(w, v)
           /\ WrappingSub(w, v) <= WrappingSub(w, p)
<1>1. PICK i \in 0..WrappingSub(r, p) : v = (p + i) % Wrap
  BY DEF Loads, WrappingSub
<1>2. i \in Index
  BY SubCases, Constants, SMT DEF Index
<1>3. v \in Index /\ v = IF p + i < Wrap THEN p + i ELSE p + i - Wrap
  BY <1>1, <1>2, AddCases
<1>4. /\ WrappingSub(w, r) = IF w >= r THEN w - r ELSE w + Wrap - r
      /\ WrappingSub(w, p) = IF w >= p THEN w - p ELSE w + Wrap - p
      /\ WrappingSub(w, v) = IF w >= v THEN w - v ELSE w + Wrap - v
      /\ WrappingSub(r, p) = IF r >= p THEN r - p ELSE r + Wrap - p
  BY <1>3, SubCases
<1>5. i \in Nat /\ i <= WrappingSub(r, p)
  BY SubCases, SMT DEF Index
<1> QED BY <1>3, <1>4, <1>5, Constants, SMT DEF Index

(* Any value the receiver may load of write_idx is at most write_idx, seen *)
(* from read_idx.                                                          *)
LEMMA LoadsAhead ==
    ASSUME NEW c \in Index, NEW r \in Index, NEW w \in Index, NEW v \in Loads(c, w),
           WrappingSub(c, r) <= WrappingSub(w, r)
    PROVE  /\ v \in Index
           /\ WrappingSub(v, r) <= WrappingSub(w, r)
           /\ v # r => WrappingSub(v, r) > 0
<1>1. PICK i \in 0..WrappingSub(w, c) : v = (c + i) % Wrap
  BY DEF Loads, WrappingSub
<1>2. i \in Index
  BY SubCases, Constants, SMT DEF Index
<1>3. v \in Index /\ v = IF c + i < Wrap THEN c + i ELSE c + i - Wrap
  BY <1>1, <1>2, AddCases
<1>4. /\ WrappingSub(w, r) = IF w >= r THEN w - r ELSE w + Wrap - r
      /\ WrappingSub(c, r) = IF c >= r THEN c - r ELSE c + Wrap - r
      /\ WrappingSub(v, r) = IF v >= r THEN v - r ELSE v + Wrap - r
      /\ WrappingSub(w, c) = IF w >= c THEN w - c ELSE w + Wrap - c
  BY <1>3, SubCases
<1>5. i \in Nat /\ i <= WrappingSub(w, c)
  BY SubCases, SMT DEF Index
<1> QED BY <1>3, <1>4, <1>5, Constants, SMT DEF Index

LEMMA AdvanceWrite ==
    ASSUME NEW w \in Index, NEW p \in Index, WrappingSub(w, p) < RingCap
    PROVE  Advance(w) \in Index /\ WrappingSub(Advance(w), p) = WrappingSub(w, p) + 1
<1>1. 1 \in Index
  BY Constants, SMT DEF Index
<1>2. Advance(w) \in Index /\ Advance(w) = IF w + 1 < Wrap THEN w + 1 ELSE w + 1 - Wrap
  BY <1>1, AddCases DEF Advance
<1>3. /\ WrappingSub(w, p) = IF w >= p THEN w - p ELSE w + Wrap - p
      /\ WrappingSub(Advance(w), p) = IF Advance(w) >= p THEN Advance(w) - p ELSE Advance(w) + Wrap - p
  BY <1>2, SubCases
<1> QED BY <1>2, <1>3, Constants, SMT DEF Index

LEMMA AdvanceRead ==
    ASSUME NEW w \in Index, NEW r \in Index, WrappingSub(w, r) > 0
    PROVE  Advance(r) \in Index /\ WrappingSub(w, Advance(r)) = WrappingSub(w, r) - 1
<1>1. 1 \in Index
  BY Constants, SMT DEF Index
<1>2. Advance(r) \in Index /\ Advance(r) = IF r + 1 < Wrap THEN r + 1 ELSE r + 1 - Wrap
  BY <1>1, AddCases DEF Advance
<1>3. /\ WrappingSub(w, r) = IF w >= r THEN w - r ELSE w + Wrap - r
      /\ WrappingSub(w, Advance(r)) = IF w >= Advance(r) THEN w - Advance(r) ELSE w + Wrap - Advance(r)
  BY <1>2, SubCases
<1> QED BY <1>2, <1>3, Constants, SMT DEF Index

(* The slot of write_idx is the one Held places after the slot of          *)
(* read_idx, and what is in between is in other slots.                     *)
LEMMA WriteSlot ==
    ASSUME NEW w \in Index, NEW r \in Index
    PROVE  Slot(w) = Slot(r + WrappingSub(w, r))
<1>1. w \in Nat /\ r \in Nat /\ w + Wrap \in Nat
  BY Constants, SMT DEF Index
<1>2. r + WrappingSub(w, r) = w \/ r + WrappingSub(w, r) = w + Wrap
  BY SubCases, Constants, <1>1, SMT
<1>3. (w + Wrap) % RingCap = w % RingCap
  BY <1>1, SlotPeriodic, Constants
<1> QED BY <1>2, <1>3 DEF Slot

LEMMA OtherSlots ==
    ASSUME NEW r \in Index, NEW i \in Nat, NEW j \in Nat, i < j, j - i < RingCap
    PROVE  Slot(r + j) # Slot(r + i)
<1>1. r + i \in Nat /\ j - i \in 1..(RingCap - 1) /\ r + j = (r + i) + (j - i)
  BY Constants, SMT DEF Index
<1>2. ((r + i) + (j - i)) % RingCap # (r + i) % RingCap
  BY <1>1, NearSlotsDiffer, Constants
<1> QED BY <1>1, <1>2 DEF Slot

LEMMA SlotType ==
    ASSUME NEW i \in Nat
    PROVE  Slot(i) \in 0..(RingCap - 1)
<1>1. PICK a \in Nat : i = RingCap * a + (i % RingCap) /\ i % RingCap \in 0..(RingCap - 1)
  BY DivMod, Constants
<1> QED BY <1>1 DEF Slot

(* A receiver that advances a full circle's position uses the same slots.  *)
LEMMA AdvancedSlot ==
    ASSUME NEW r \in Index, NEW i \in Nat
    PROVE  Slot(Advance(r) + i) = Slot(r + (i + 1))
<1>1. 1 \in Index
  BY Constants, SMT DEF Index
<1>2. Advance(r) \in Index /\ Advance(r) = IF r + 1 < Wrap THEN r + 1 ELSE r + 1 - Wrap
  BY <1>1, AddCases DEF Advance
<1>3. r + (i + 1) = Advance(r) + i \/ r + (i + 1) = (Advance(r) + i) + Wrap
  BY <1>2, Constants, SMT DEF Index
<1>4. Advance(r) + i \in Nat
  BY <1>2, Constants, SMT DEF Index
<1>5. ((Advance(r) + i) + Wrap) % RingCap = (Advance(r) + i) % RingCap
  BY <1>4, SlotPeriodic, Constants
<1> QED BY <1>3, <1>5 DEF Slot
-----------------------------------------------------------------------------
(* The invariant *)

LEMMA SubSelf == ASSUME NEW a \in Index PROVE WrappingSub(a, a) = 0
BY SubCases, Constants, SMT DEF Index

(* The parts of the type invariant that the other proofs use. *)
LEMMA IndexTypes ==
    ASSUME Types
    PROVE  /\ \A r \in Ring : /\ write_idx[r] \in Index /\ read_idx[r] \in Index
                              /\ pseen[r] \in Index /\ cseen[r] \in Index
                              /\ Slot(write_idx[r]) \in 0..(RingCap - 1)
                              /\ Slot(read_idx[r]) \in 0..(RingCap - 1)
                              /\ Held(r) \in Nat
           /\ prod.q \in Ring /\ cons.q \in Ring
<1>1. Index \subseteq Nat
  BY Constants, SMT DEF Index
<1>2. \A r \in Ring : write_idx[r] \in Index /\ read_idx[r] \in Index
                       /\ pseen[r] \in Index /\ cseen[r] \in Index
  BY DEF Types
<1>3. \A r \in Ring : Slot(write_idx[r]) \in 0..(RingCap - 1) /\ Slot(read_idx[r]) \in 0..(RingCap - 1)
  BY <1>1, <1>2, SlotType
<1>4. \A r \in Ring : Held(r) \in Nat
  BY <1>1, <1>2, SubCases DEF Held
<1>5. prod.q \in Ring /\ cons.q \in Ring
  BY DEF Types
<1> QED BY <1>2, <1>3, <1>4, <1>5

LEMMA LinkInvInit == LinkInit => LinkInv
<1> SUFFICES ASSUME LinkInit PROVE LinkInv
  OBVIOUS
<1> USE DEF LinkInit
<1>1. 0 \in Index /\ WrappingSub(0, 0) = 0
  BY SubSelf, Constants, SMT DEF Index
<1>2. Types
  <2>1. 0 \in 0..MaxItems
    BY Constants, SMT
  <2>2. prod \in [at : ProdAt, k : 0..2, sum : Nat, q : Ring, item : {0}]
    BY DEF Idle, ProdAt, Ring
  <2>3. cons \in [at : ConsAt, k : 0..2, sum : {0}, q : Ring, item : 0..MaxItems]
    BY <2>1 DEF Idle, ConsAt, Ring
  <2>4. got \in [Ring -> Seq(0..MaxItems)]
    OBVIOUS
  <2> QED BY <1>1, <2>1, <2>2, <2>3, <2>4 DEF Types
<1>3. \A r \in Ring : Ordered(r) /\ Held(r) = 0
  BY <1>1, Constants, SMT DEF Ordered, Held
<1>4. ProdInv /\ ConsInv
  BY DEF ProdInv, ConsInv, Idle
<1> QED BY <1>2, <1>3, <1>4 DEF LinkInv

(* What the steps that move no index leave true. *)
LEMMA IndicesStand ==
    ASSUME UNCHANGED <<dir, ringVars, pseen, cseen>>
    PROVE  /\ \A r \in Ring : Held(r)' = Held(r) /\ Ordered(r)' = Ordered(r)
           /\ Total' = Total /\ Rings' = Rings
BY DEF ringVars, Held, Ordered, Total, Rings

LEMMA SendBeginStep == ASSUME LinkInv, NEW q \in Ring, SendBegin(q) PROVE LinkInv'
<1> USE DEF SendBegin
<1>1. q \in Rings
  BY DEF PopOrder, Rings, ToSet
<1>2. Types'
  <2>1. prod' = [at |-> "len", k |-> 1, sum |-> 0, q |-> q, item |-> 0]
    BY DEF Idle
  <2>2. prod' \in [at : ProdAt, k : 0..2, sum : Nat, q : Ring, item : {0}]
    BY <2>1 DEF ProdAt
  <2> QED BY <2>2 DEF LinkInv, Types, ringVars
<1>3. ProdInv'
  BY <1>1, IndicesStand, SMT DEF LinkInv, ProdInv, Idle, Types
<1>4. ConsInv'
  BY DEF LinkInv, ConsInv, ringVars
<1> QED BY <1>2, <1>3, <1>4, IndicesStand DEF LinkInv

(* A ring the sender may write to is not full, and the slot it writes is   *)
(* not the one the receiver reads.                                         *)
LEMMA WriteSlotIsFree ==
    ASSUME LinkInv, prod.at = "write", cons.at \in {"read", "advance"}, cons.q = prod.q
    PROVE  Slot(write_idx[prod.q]) # Slot(read_idx[cons.q])
<1> DEFINE q == prod.q
           w == write_idx[q]
           r == read_idx[q]
<1>1. q \in Ring /\ w \in Index /\ r \in Index /\ pseen[q] \in Index /\ cseen[q] \in Index /\ Held(q) \in Nat
  BY IndexTypes DEF LinkInv
<1>2. /\ WrappingSub(cseen[q], r) > 0 /\ WrappingSub(cseen[q], r) <= Held(q)
      /\ Held(q) <= WrappingSub(w, pseen[q]) /\ WrappingSub(w, pseen[q]) < RingCap
  BY <1>1 DEF LinkInv, ProdInv, ConsInv, Ordered
<1>3. WrappingSub(cseen[q], r) \in Index /\ WrappingSub(w, pseen[q]) \in Index
  BY <1>1, SubCases
<1>4. 0 < Held(q) /\ Held(q) < RingCap
  BY <1>1, <1>2, <1>3, Constants, SMT DEF Index
<1>5. Slot(r + Held(q)) # Slot(r + 0)
  BY <1>1, <1>4, OtherSlots, SMT
<1>6. r + 0 = r
  BY <1>1, Constants DEF Index
<1>7. Slot(w) = Slot(r + Held(q))
  BY <1>1, WriteSlot DEF Held
<1> QED BY <1>5, <1>6, <1>7

LEMMA PushWriteStep == ASSUME LinkInv, PushWrite PROVE LinkInv'
<1> DEFINE q == prod.q
           w == write_idx[q]
<1>1. q \in Ring /\ w \in Index /\ Slot(w) \in 0..(RingCap - 1)
  BY IndexTypes DEF LinkInv
<1>2. \A r \in Ring : Held(r)' = Held(r) /\ Ordered(r)' = Ordered(r)
  BY DEF PushWrite, Held, Ordered
<1>3. Total' = Total /\ Rings' = Rings
  BY DEF PushWrite, Held, Total, Rings
<1>4. pushed + 1 \in 0..MaxItems
  BY Constants, SMT DEF LinkInv, PushWrite, ProdInv, Types
<1>5. /\ buf' \in [Ring -> [0..(RingCap - 1) -> 0..MaxItems]]
      /\ buf'[q][Slot(w)] = pushed + 1
      /\ \A r \in Ring, s \in 0..(RingCap - 1) :
            (r # q \/ s # Slot(w)) => buf'[r][s] = buf[r][s]
  <2>1. buf \in [Ring -> [0..(RingCap - 1) -> 0..MaxItems]]
    BY DEF LinkInv, Types
  <2>2. buf' = [buf EXCEPT ![q][Slot(w)] = pushed + 1]
    BY DEF PushWrite
  <2> HIDE DEF q, w
  <2> QED BY <2>1, <2>2, <1>1, <1>4
<1>6. Types'
  BY <1>5 DEF LinkInv, PushWrite, Types, ProdAt
<1>7. ProdInv'
  <2>1. Held("frames")' = Held("frames")
    BY <1>2 DEF Ring
  <2> QED BY <1>3, <1>5, <2>1, SMT DEF LinkInv, PushWrite, ProdInv, Types
<1>8. ConsInv'
  <2> SUFFICES ASSUME cons.at = "advance"
               PROVE  buf'[cons.q][Slot(read_idx[cons.q])] = buf[cons.q][Slot(read_idx[cons.q])]
    BY DEF LinkInv, PushWrite, ConsInv
  <2>1. cons.q \in Ring /\ Slot(read_idx[cons.q]) \in 0..(RingCap - 1)
    BY IndexTypes DEF LinkInv
  <2>2. cons.q = q => Slot(w) # Slot(read_idx[cons.q])
    BY WriteSlotIsFree DEF PushWrite
  <2> QED BY <2>1, <2>2, <1>5
<1> QED BY <1>2, <1>3, <1>6, <1>7, <1>8 DEF LinkInv

(* The order in which the two ends look at the rings. *)
LEMMA Orders ==
    ASSUME dir \in {"inbound", "outbound"}
    PROVE  /\ dir = "inbound" => PopOrder = <<"inbound">> /\ LenOrder = <<"inbound">>
           /\ dir = "outbound" => PopOrder = <<"msgs", "frames">> /\ LenOrder = <<"frames", "msgs">>
<1>1. CASE dir = "inbound"
  BY <1>1, SMT DEF PopOrder, LenOrder, Reverse
<1>2. CASE dir = "outbound"
  <2>1. PopOrder = <<"msgs", "frames">>
    BY <1>2 DEF PopOrder
  <2>2. LenOrder = [i \in 1..2 |-> <<"msgs", "frames">>[(2 - i) + 1]]
    BY <2>1, SMT DEF LenOrder, Reverse
  <2> QED BY <1>2, <2>1, <2>2, SMT
<1> QED BY <1>1, <1>2

(* A load of read_idx by the sender keeps the order on the circle. *)
LEMMA SenderLoads ==
    ASSUME LinkInv, NEW r \in Ring, NEW v \in Loads(pseen[r], read_idx[r]),
           pseen' = [pseen EXCEPT ![r] = v], UNCHANGED <<dir, ringVars, cseen>>
    PROVE  /\ pseen' \in [Ring -> Index] /\ v \in Index
           /\ Held(r) <= WrappingSub(write_idx[r], v)
           /\ WrappingSub(write_idx[r], v) \in Nat
           /\ \A s \in Ring : Ordered(s)' /\ Held(s)' = Held(s)
           /\ Total' = Total /\ Rings' = Rings
<1>1. /\ \A s \in Ring : write_idx[s] \in Index /\ read_idx[s] \in Index /\ pseen[s] \in Index
                          /\ Held(s) \in Nat
      /\ \A s \in Ring : Ordered(s)
      /\ pseen \in [Ring -> Index]
  BY IndexTypes DEF LinkInv, Types
<1>2. /\ v \in Index
      /\ Held(r) <= WrappingSub(write_idx[r], v)
      /\ WrappingSub(write_idx[r], v) <= WrappingSub(write_idx[r], pseen[r])
  BY <1>1, LoadsBehind DEF Ordered, Held
<1>3. WrappingSub(write_idx[r], v) \in Nat /\ WrappingSub(write_idx[r], pseen[r]) \in Nat
  <2>1. Index \subseteq Nat
    BY Constants, SMT DEF Index
  <2> QED BY <1>1, <1>2, <2>1, SubCases
<1>4. \A s \in Ring : Held(s)' = Held(s)
  BY DEF Held, ringVars
<1>5. \A s \in Ring : Ordered(s)'
  <2> TAKE s \in Ring
  <2>1. CASE s = r
    BY <2>1, <1>1, <1>2, <1>3, Constants, SMT DEF Ordered, Held, ringVars
  <2>2. CASE s # r
    BY <2>2, <1>1 DEF Ordered, Held, ringVars
  <2> QED BY <2>1, <2>2
<1>6. Total' = Total /\ Rings' = Rings
  BY DEF Held, Total, Rings, ringVars
<1> QED BY <1>1, <1>2, <1>3, <1>4, <1>5, <1>6

LEMMA SendLenStep == ASSUME LinkInv, SendLen PROVE LinkInv'
<1> DEFINE r == LenOrder[prod.k]
<1>1. PICK v \in Loads(pseen[r], read_idx[r]) :
        /\ pseen' = [pseen EXCEPT ![r] = v]
        /\ prod' = IF prod.k < Len(LenOrder)
                   THEN [prod EXCEPT !.k = @ + 1, !.sum = prod.sum + WrappingSub(write_idx[r], v)]
                   ELSE IF Full(prod.sum + WrappingSub(write_idx[r], v)) THEN Idle
                   ELSE [prod EXCEPT !.at = "push"]
  BY DEF SendLen
<1> DEFINE n == WrappingSub(write_idx[r], v)
<1>2. /\ prod.at = "len" /\ prod.k \in 1..(IF dir = "inbound" THEN 1 ELSE 2)
      /\ prod \in [at : ProdAt, k : 0..2, sum : Nat, q : Ring, item : {0}]
      /\ pushed < MaxItems /\ prod.q \in Rings /\ dir \in {"inbound", "outbound"}
      /\ prod.k = 2 => Held("frames") <= prod.sum
  BY DEF SendLen, LinkInv, ProdInv, Types
<1>3. \/ dir = "inbound" /\ prod.k = 1 /\ r = "inbound" /\ ~(prod.k < Len(LenOrder))
      \/ dir = "outbound" /\ prod.k = 1 /\ r = "frames" /\ prod.k < Len(LenOrder)
      \/ dir = "outbound" /\ prod.k = 2 /\ r = "msgs" /\ ~(prod.k < Len(LenOrder))
  <2>1. CASE dir = "inbound"
    <3>1. prod.k = 1 /\ LenOrder = <<"inbound">>
      BY <2>1, <1>2, Orders
    <3> QED BY <2>1, <3>1
  <2>2. CASE dir = "outbound"
    <3>1. prod.k \in {1, 2} /\ LenOrder = <<"frames", "msgs">>
      BY <2>2, <1>2, Orders
    <3> QED BY <2>2, <3>1
  <2> QED BY <2>1, <2>2, <1>2
<1>4. r \in Ring
  BY <1>2, <1>3 DEF Ring
<1>5. UNCHANGED <<dir, ringVars, flag, closed, cons, cseen, pushed, got>>
  BY DEF SendLen
<1>6. /\ pseen' \in [Ring -> Index]
      /\ Held(r) <= n /\ n \in Nat
      /\ \A s \in Ring : Ordered(s)' /\ Held(s)' = Held(s)
      /\ Total' = Total /\ Rings' = Rings
  BY <1>1, <1>4, <1>5, SenderLoads
<1>7. \A s \in Ring \ Rings : Held(s) = 0
  BY DEF LinkInv
<1>8. \A s \in Ring : Held(s) \in Nat
  BY IndexTypes DEF LinkInv
<1> HIDE DEF r, n
<1>9. prod' = IF prod.k < Len(LenOrder)
              THEN [prod EXCEPT !.k = @ + 1, !.sum = prod.sum + n]
              ELSE IF Full(prod.sum + n) THEN Idle
              ELSE [prod EXCEPT !.at = "push"]
  BY <1>1 DEF n
<1>10. CASE prod.k < Len(LenOrder)
  <2>1. dir = "outbound" /\ prod.k = 1 /\ r = "frames"
    BY <1>3, <1>10
  <2>2. prod' = [prod EXCEPT !.k = 2, !.sum = prod.sum + n]
    BY <2>1, <1>9, <1>10, <1>2
  <2>3. /\ prod' \in [at : ProdAt, k : 0..2, sum : Nat, q : Ring, item : {0}]
        /\ prod'.at = "len" /\ prod'.k = 2 /\ prod'.q = prod.q /\ prod'.sum = prod.sum + n
        /\ prod.sum \in Nat
    <3>1. prod.sum \in Nat /\ prod.sum + n \in Nat /\ 2 \in 0..2
      BY <1>2, <1>6
    <3> QED BY <2>2, <1>2, <3>1
  <2>4. Types'
    BY <2>3, <1>5, <1>6 DEF LinkInv, Types, ringVars
  <2>5. Held("frames")' <= prod.sum + n
    BY <2>1, <2>3, <1>6, <1>8, SMT DEF Ring
  <2>6. ProdInv'
    BY <2>1, <2>3, <2>5, <1>2, <1>5, <1>6 DEF ProdInv
  <2>7. ConsInv'
    BY <1>5 DEF LinkInv, ConsInv, ringVars
  <2> QED BY <2>4, <2>6, <2>7, <1>6, <1>7 DEF LinkInv
<1>11. CASE ~(prod.k < Len(LenOrder)) /\ Full(prod.sum + n)
  <2>1. prod' = Idle
    BY <1>9, <1>11
  <2>2. prod' \in [at : ProdAt, k : 0..2, sum : Nat, q : Ring, item : {0}] /\ prod'.at = "idle"
    BY <2>1 DEF Idle, ProdAt, Ring
  <2>3. Types'
    BY <2>2, <1>5, <1>6 DEF LinkInv, Types, ringVars
  <2>4. ProdInv'
    BY <2>1, <2>2 DEF ProdInv
  <2>5. ConsInv'
    BY <1>5 DEF LinkInv, ConsInv, ringVars
  <2> QED BY <2>3, <2>4, <2>5, <1>6, <1>7 DEF LinkInv
<1>12. CASE ~(prod.k < Len(LenOrder)) /\ ~Full(prod.sum + n)
  <2>1. prod' = [prod EXCEPT !.at = "push"]
    BY <1>9, <1>12
  <2>2. /\ prod' \in [at : ProdAt, k : 0..2, sum : Nat, q : Ring, item : {0}]
        /\ prod'.at = "push" /\ prod'.q = prod.q /\ prod.sum \in Nat
    BY <2>1, <1>2 DEF ProdAt
  <2>3. Types'
    BY <2>2, <1>5, <1>6 DEF LinkInv, Types, ringVars
  <2>4. Total < Cap
    <3>1. prod.sum + n < Cap
      BY <1>12, <2>2, <1>6, Constants, SMT DEF Full
    <3>2. CASE dir = "inbound"
      <4>1. r = "inbound" /\ Held("msgs") = 0 /\ Held("frames") = 0
        BY <3>2, <1>3, <1>7 DEF Rings, Ring
      <4> QED BY <4>1, <3>1, <2>2, <1>6, <1>8, Constants, SMT DEF Total, Ring
    <3>3. CASE dir = "outbound"
      <4>1. r = "msgs" /\ Held("inbound") = 0 /\ Held("frames") <= prod.sum
        <5>1. prod.k = 2 /\ r = "msgs"
          BY <3>3, <1>3, <1>12
        <5>2. "inbound" \in Ring \ Rings
          BY <3>3 DEF Rings, Ring
        <5> QED BY <5>1, <5>2, <1>2, <1>7
      <4> QED BY <4>1, <3>1, <2>2, <1>6, <1>8, Constants, SMT DEF Total, Ring
    <3> QED BY <3>2, <3>3, <1>2
  <2>5. ProdInv'
    BY <2>2, <2>4, <1>2, <1>5, <1>6 DEF ProdInv
  <2>6. ConsInv'
    BY <1>5 DEF LinkInv, ConsInv, ringVars
  <2> QED BY <2>3, <2>5, <2>6, <1>6, <1>7 DEF LinkInv
<1> QED BY <1>10, <1>11, <1>12

LEMMA PushLoadStep == ASSUME LinkInv, PushLoad PROVE LinkInv'
<1> DEFINE q == prod.q
<1>1. PICK v \in Loads(pseen[q], read_idx[q]) :
        /\ pseen' = [pseen EXCEPT ![q] = v]
        /\ prod' = IF WrappingSub(write_idx[q], v) >= RingCap THEN Idle
                   ELSE [prod EXCEPT !.at = "write"]
  BY DEF PushLoad
<1>2. /\ q \in Ring /\ prod.at = "push" /\ pushed < MaxItems /\ q \in Rings /\ Total < Cap
      /\ prod \in [at : ProdAt, k : 0..2, sum : Nat, q : Ring, item : {0}]
  BY IndexTypes DEF LinkInv, PushLoad, ProdInv, Types
<1>3. UNCHANGED <<dir, ringVars, flag, closed, cons, cseen, pushed, got>>
  BY DEF PushLoad
<1>4. /\ pseen' \in [Ring -> Index] /\ WrappingSub(write_idx[q], v) \in Nat
      /\ \A s \in Ring : Ordered(s)' /\ Held(s)' = Held(s)
      /\ Total' = Total /\ Rings' = Rings
  BY <1>1, <1>2, <1>3, SenderLoads
<1>5. ConsInv' /\ \A s \in Ring \ Rings : Held(s) = 0
  BY <1>3 DEF LinkInv, ConsInv, ringVars
<1>6. CASE WrappingSub(write_idx[q], v) >= RingCap
  <2>1. prod' = Idle
    BY <1>1, <1>6
  <2>2. prod' \in [at : ProdAt, k : 0..2, sum : Nat, q : Ring, item : {0}] /\ prod'.at = "idle"
    BY <2>1 DEF Idle, ProdAt, Ring
  <2>3. Types'
    BY <2>2, <1>3, <1>4 DEF LinkInv, Types, ringVars
  <2>4. ProdInv'
    BY <2>1, <2>2 DEF ProdInv
  <2> QED BY <2>3, <2>4, <1>4, <1>5 DEF LinkInv
<1>7. CASE ~(WrappingSub(write_idx[q], v) >= RingCap)
  <2>1. prod' = [prod EXCEPT !.at = "write"]
    BY <1>1, <1>7
  <2>2. /\ prod' \in [at : ProdAt, k : 0..2, sum : Nat, q : Ring, item : {0}]
        /\ prod'.at = "write" /\ prod'.q = q
    BY <2>1, <1>2 DEF ProdAt
  <2>3. Types'
    BY <2>2, <1>3, <1>4 DEF LinkInv, Types, ringVars
  <2>4. WrappingSub(write_idx[q], v) < RingCap
    BY <1>4, <1>7, Constants, SMT
  <2>5. pseen'[q] = v /\ write_idx' = write_idx
    BY <1>1, <1>2, <1>3 DEF LinkInv, Types, ringVars
  <2>6. ProdInv'
    BY <2>2, <2>4, <2>5, <1>2, <1>3, <1>4 DEF ProdInv
  <2> QED BY <2>3, <2>6, <1>4, <1>5 DEF LinkInv
<1> QED BY <1>6, <1>7

(* One ring holds one more item, or one less: what becomes of the total. *)
LEMMA TotalMoves ==
    ASSUME NEW q \in Ring, NEW d \in Int, \A s \in Ring : Held(s) \in Nat,
           Held(q)' = Held(q) + d, \A s \in Ring \ {q} : Held(s)' = Held(s)
    PROVE  Total' = Total + d
<1>1. "inbound" \in Ring /\ "msgs" \in Ring /\ "frames" \in Ring
  BY DEF Ring
<1>2. CASE q = "inbound"
  <2>1. Held("msgs")' = Held("msgs") /\ Held("frames")' = Held("frames")
    BY <1>2, <1>1
  <2> QED BY <2>1, <1>1, <1>2, SMT DEF Total
<1>3. CASE q = "msgs"
  <2>1. Held("inbound")' = Held("inbound") /\ Held("frames")' = Held("frames")
    BY <1>3, <1>1
  <2> QED BY <2>1, <1>1, <1>3, SMT DEF Total
<1>4. CASE q = "frames"
  <2>1. Held("inbound")' = Held("inbound") /\ Held("msgs")' = Held("msgs")
    BY <1>4, <1>1
  <2> QED BY <2>1, <1>1, <1>4, SMT DEF Total
<1> QED BY <1>2, <1>3, <1>4 DEF Ring

(* What the store of write_idx does to the indices. *)
LEMMA PublishMoves ==
    ASSUME LinkInv, PushPublish, NEW CONSTANT q \in Ring, q = prod.q
    PROVE  /\ write_idx' \in [Ring -> Index]
           /\ write_idx'[q] = Advance(write_idx[q])
           /\ \A s \in Ring \ {q} : write_idx'[s] = write_idx[s]
           /\ Held(q)' = Held(q) + 1 /\ Held(q) < RingCap
           /\ \A s \in Ring \ {q} : Held(s)' = Held(s)
           /\ \A s \in Ring : Ordered(s)'
           /\ Total' = Total + 1
<1>1. \A s \in Ring : /\ write_idx[s] \in Index /\ read_idx[s] \in Index
                      /\ pseen[s] \in Index /\ cseen[s] \in Index
                      /\ Held(s) \in Nat /\ Ordered(s)
  BY IndexTypes DEF LinkInv
<1>2. q \in Ring /\ write_idx \in [Ring -> Index] /\ WrappingSub(write_idx[q], pseen[q]) < RingCap
  BY IndexTypes DEF LinkInv, Types, PushPublish, ProdInv
<1>3. /\ write_idx' = [write_idx EXCEPT ![q] = Advance(@)]
      /\ UNCHANGED <<dir, read_idx, pseen, cseen>>
  BY DEF PushPublish
<1>4. WrappingSub(write_idx[q], pseen[q]) \in Nat /\ WrappingSub(cseen[q], read_idx[q]) \in Nat
  <2>1. Index \subseteq Nat
    BY Constants, SMT DEF Index
  <2> QED BY <1>1, <1>2, <2>1, SubCases
<1>5. Held(q) < RingCap
  BY <1>1, <1>2, <1>4, Constants, SMT DEF Ordered
<1>6. /\ Advance(write_idx[q]) \in Index
      /\ WrappingSub(Advance(write_idx[q]), read_idx[q]) = Held(q) + 1
      /\ WrappingSub(Advance(write_idx[q]), pseen[q]) = WrappingSub(write_idx[q], pseen[q]) + 1
  BY <1>1, <1>2, <1>5, AdvanceWrite DEF Held
<1>7. /\ write_idx' \in [Ring -> Index] /\ write_idx'[q] = Advance(write_idx[q])
      /\ \A s \in Ring \ {q} : write_idx'[s] = write_idx[s]
  BY <1>2, <1>3, <1>6
<1>8. Held(q)' = Held(q) + 1 /\ \A s \in Ring \ {q} : Held(s)' = Held(s)
  BY <1>3, <1>6, <1>7 DEF Held
<1>9. \A s \in Ring : Ordered(s)'
  <2> TAKE s \in Ring
  <2>1. CASE s = q
    <3>1. /\ Held(q)' = Held(q) + 1
          /\ WrappingSub(write_idx[q], pseen[q])' = WrappingSub(write_idx[q], pseen[q]) + 1
          /\ WrappingSub(cseen[q], read_idx[q])' = WrappingSub(cseen[q], read_idx[q])
      BY <1>3, <1>6, <1>7, <1>8
    <3>2. /\ Held(q) <= WrappingSub(write_idx[q], pseen[q])
          /\ WrappingSub(cseen[q], read_idx[q]) <= Held(q)
          /\ Held(q) \in Nat
      BY <1>1, <1>2 DEF Ordered
    <3>3. /\ Held(q)' <= WrappingSub(write_idx[q], pseen[q])'
          /\ WrappingSub(write_idx[q], pseen[q])' <= RingCap
          /\ WrappingSub(cseen[q], read_idx[q])' <= Held(q)'
      BY <3>1, <3>2, <1>2, <1>4, Constants, SMT
    <3> QED BY <2>1, <3>3, <1>3 DEF Ordered, Held
  <2>2. CASE s # q
    <3>1. write_idx'[s] = write_idx[s]
      BY <2>2, <1>7
    <3> QED BY <3>1, <1>1, <1>3 DEF Ordered, Held
  <2> QED BY <2>1, <2>2
<1>10. Total' = Total + 1
  BY <1>1, <1>2, <1>8, TotalMoves
<1> QED BY <1>2, <1>5, <1>7, <1>8, <1>9, <1>10

LEMMA PushPublishStep == ASSUME LinkInv, PushPublish PROVE LinkInv'
<1>0. PICK q \in Ring : q = prod.q
  BY IndexTypes DEF LinkInv
<1>1. /\ prod \in [at : ProdAt, k : 0..2, sum : Nat, q : Ring, item : {0}]
      /\ pushed \in 0..MaxItems /\ pushed < MaxItems /\ prod.q \in Rings
  BY DEF LinkInv, Types, PushPublish, ProdInv
<1>2. /\ prod' \in [at : ProdAt, k : 0..2, sum : Nat, q : Ring, item : {0}] /\ prod'.at = "flag"
      /\ pushed' \in 0..MaxItems
  BY <1>1, Constants, SMT DEF PushPublish, ProdAt
<1>3. UNCHANGED <<dir, read_idx, buf, flag, closed, cons, pseen, cseen, got>>
  BY DEF PushPublish
<1>4. Types'
  BY <1>0, <1>2, <1>3, PublishMoves DEF LinkInv, Types
<1>5. ProdInv'
  BY <1>2 DEF ProdInv
<1>6. ConsInv'
  BY <1>3 DEF LinkInv, ConsInv
<1>7. \A s \in Ring \ Rings' : Held(s)' = 0
  BY <1>0, <1>1, <1>3, PublishMoves DEF LinkInv, Rings
<1> QED BY <1>4, <1>5, <1>6, <1>7, <1>0, PublishMoves DEF LinkInv

LEMMA SendFlagStep == ASSUME LinkInv, SendFlag PROVE LinkInv'
<1>1. UNCHANGED <<dir, ringVars, closed, cons, pseen, cseen, pushed, got>> /\ flag' = TRUE /\ prod' = Idle
  BY DEF SendFlag
<1>2. prod' \in [at : ProdAt, k : 0..2, sum : Nat, q : Ring, item : {0}] /\ prod'.at = "idle"
  BY <1>1 DEF Idle, ProdAt, Ring
<1>3. Types'
  BY <1>1, <1>2 DEF LinkInv, Types, ringVars
<1>4. ProdInv' /\ ConsInv'
  BY <1>1, <1>2 DEF LinkInv, ProdInv, ConsInv, ringVars
<1> QED BY <1>1, <1>3, <1>4, IndicesStand DEF LinkInv

LEMMA RecvBeginStep == ASSUME LinkInv, RecvBegin PROVE LinkInv'
<1>1. /\ UNCHANGED <<dir, ringVars, flag, closed, prod, pseen, cseen, pushed, got>>
      /\ cons' = IF flag THEN [Idle EXCEPT !.at = "pop", !.k = 1] ELSE Idle
  BY DEF RecvBegin
<1>2. \/ cons' = [at |-> "pop", k |-> 1, sum |-> 0, q |-> "inbound", item |-> 0]
      \/ cons' = [at |-> "idle", k |-> 0, sum |-> 0, q |-> "inbound", item |-> 0]
  BY <1>1 DEF Idle
<1>3. /\ cons' \in [at : ConsAt, k : 0..2, sum : {0}, q : Ring, item : 0..MaxItems]
      /\ (cons'.at = "pop" /\ cons'.k = 1) \/ cons'.at = "idle"
  <2>1. 0 \in 0..MaxItems
    BY Constants, SMT
  <2> QED BY <1>2, <2>1 DEF ConsAt, Ring
<1>4. Types'
  BY <1>1, <1>3 DEF LinkInv, Types, ringVars
<1>5. ProdInv'
  BY <1>1, IndicesStand DEF LinkInv, ProdInv, ringVars, Ring
<1>6. ConsInv'
  BY <1>3 DEF ConsInv
<1> QED BY <1>1, <1>4, <1>5, <1>6, IndicesStand DEF LinkInv

(* A load of write_idx by the receiver keeps the order on the circle. *)
LEMMA ReceiverLoads ==
    ASSUME LinkInv, NEW CONSTANT r \in Ring, NEW v \in Loads(cseen[r], write_idx[r]),
           cseen' = [cseen EXCEPT ![r] = v], UNCHANGED <<dir, ringVars, prod, pseen, pushed>>
    PROVE  /\ cseen' \in [Ring -> Index] /\ cseen'[r] = v /\ read_idx' = read_idx
           /\ v # read_idx[r] => WrappingSub(v, read_idx[r]) > 0
           /\ \A s \in Ring : Ordered(s)'
           /\ \A s \in Ring \ Rings' : Held(s)' = 0
           /\ ProdInv'
<1>1. /\ \A s \in Ring : /\ write_idx[s] \in Index /\ read_idx[s] \in Index
                         /\ pseen[s] \in Index /\ cseen[s] \in Index
                         /\ Held(s) \in Nat /\ Ordered(s)
      /\ cseen \in [Ring -> Index]
  BY IndexTypes DEF LinkInv, Types
<1>2. /\ v \in Index
      /\ WrappingSub(v, read_idx[r]) <= Held(r)
      /\ v # read_idx[r] => WrappingSub(v, read_idx[r]) > 0
  BY <1>1, LoadsAhead DEF Ordered, Held
<1>3. cseen' \in [Ring -> Index] /\ cseen'[r] = v /\ \A s \in Ring \ {r} : cseen'[s] = cseen[s]
  BY <1>1, <1>2
<1>4. (\A s \in Ring : Held(s)' = Held(s)) /\ Total' = Total /\ Rings' = Rings /\ read_idx' = read_idx
  BY DEF Held, Total, Rings, ringVars
<1>5. \A s \in Ring : Ordered(s)'
  <2> TAKE s \in Ring
  <2>1. CASE s = r
    BY <2>1, <1>1, <1>2, <1>3 DEF Ordered, Held, ringVars
  <2>2. CASE s # r
    BY <2>2, <1>1, <1>3 DEF Ordered, Held, ringVars
  <2> QED BY <2>1, <2>2
<1>6. ProdInv'
  <2>1. Held("frames")' = Held("frames")
    BY <1>4 DEF Ring
  <2> QED BY <2>1, <1>4 DEF LinkInv, ProdInv, ringVars
<1>7. \A s \in Ring \ Rings' : Held(s)' = 0
  BY <1>4 DEF LinkInv
<1> QED BY <1>2, <1>3, <1>4, <1>5, <1>6, <1>7

(* Where a receiver that looks through the rings one after the other is. *)
LEMMA ReceiverRing ==
    ASSUME LinkInv, cons.at \in {"pop", "empty"}
    PROVE  /\ PopOrder[cons.k] \in Ring /\ LenOrder[cons.k] \in Ring
           /\ cons.k < Len(PopOrder) => dir = "outbound" /\ cons.k = 1
           /\ cons.k < Len(LenOrder) => dir = "outbound" /\ cons.k = 1
<1>1. cons.k \in 1..(IF dir = "inbound" THEN 1 ELSE 2) /\ dir \in {"inbound", "outbound"}
  BY DEF LinkInv, ConsInv, Types
<1>2. CASE dir = "inbound"
  <2>1. cons.k = 1 /\ LenOrder = <<"inbound">> /\ PopOrder = <<"inbound">>
    BY <1>2, <1>1, Orders
  <2> QED BY <2>1 DEF Ring
<1>3. CASE dir = "outbound"
  <2>1. cons.k \in {1, 2} /\ LenOrder = <<"frames", "msgs">> /\ PopOrder = <<"msgs", "frames">>
    BY <1>3, <1>1, Orders
  <2> QED BY <1>3, <2>1 DEF Ring
<1> QED BY <1>1, <1>2, <1>3

LEMMA PopLoadStep == ASSUME LinkInv, PopLoad PROVE LinkInv'
<1>1. PICK r \in Ring : r = PopOrder[cons.k]
  BY ReceiverRing DEF PopLoad
<1>2. PICK v \in Loads(cseen[r], write_idx[r]) :
        /\ cseen' = [cseen EXCEPT ![r] = v]
        /\ cons' = IF v # read_idx[r] THEN [cons EXCEPT !.at = "read", !.q = r]
                   ELSE IF cons.k < Len(PopOrder) THEN [cons EXCEPT !.k = @ + 1]
                   ELSE [cons EXCEPT !.at = "clear"]
  BY <1>1 DEF PopLoad
<1>3. UNCHANGED <<dir, ringVars, flag, closed, prod, pseen, pushed, got>>
  BY DEF PopLoad
<1>4. /\ cseen' \in [Ring -> Index] /\ cseen'[r] = v /\ read_idx' = read_idx
      /\ v # read_idx[r] => WrappingSub(v, read_idx[r]) > 0
      /\ \A s \in Ring : Ordered(s)'
      /\ \A s \in Ring \ Rings' : Held(s)' = 0
      /\ ProdInv'
  BY <1>2, <1>3, ReceiverLoads
<1>5. /\ cons \in [at : ConsAt, k : 0..2, sum : {0}, q : Ring, item : 0..MaxItems]
      /\ (cons.at = "pop" /\ cons.k < Len(PopOrder)) => dir = "outbound" /\ cons.k = 1
  BY ReceiverRing DEF LinkInv, Types, PopLoad
<1>6. /\ cons' \in [at : ConsAt, k : 0..2, sum : {0}, q : Ring, item : 0..MaxItems]
      /\ \/ cons'.at = "read" /\ cons'.q = r /\ v # read_idx[r]
         \/ cons'.at = "pop" /\ cons'.k = 2 /\ dir = "outbound"
         \/ cons'.at = "clear"
  <2>1. CASE v # read_idx[r]
    BY <2>1, <1>2, <1>5 DEF ConsAt
  <2>2. CASE v = read_idx[r] /\ cons.k < Len(PopOrder)
    <3>1. cons' = [cons EXCEPT !.k = 2] /\ dir = "outbound" /\ cons.at = "pop"
      BY <2>2, <1>2, <1>5 DEF PopLoad
    <3> QED BY <3>1, <1>5
  <2>3. CASE v = read_idx[r] /\ ~(cons.k < Len(PopOrder))
    BY <2>3, <1>2, <1>5 DEF ConsAt
  <2> QED BY <2>1, <2>2, <2>3
<1>7. Types'
  BY <1>3, <1>4, <1>6 DEF LinkInv, Types, ringVars
<1>8. ConsInv'
  BY <1>3, <1>4, <1>6 DEF ConsInv
<1> QED BY <1>4, <1>7, <1>8 DEF LinkInv

LEMMA EmptyLoadStep == ASSUME LinkInv, EmptyLoad PROVE LinkInv'
<1>1. PICK r \in Ring : r = LenOrder[cons.k]
  BY ReceiverRing DEF EmptyLoad
<1>2. PICK v \in Loads(cseen[r], write_idx[r]) :
        /\ cseen' = [cseen EXCEPT ![r] = v]
        /\ cons' = IF v # read_idx[r] THEN Idle
                   ELSE IF cons.k < Len(LenOrder) THEN [cons EXCEPT !.k = @ + 1]
                   ELSE [cons EXCEPT !.at = "clear"]
  BY <1>1 DEF EmptyLoad
<1>3. UNCHANGED <<dir, ringVars, flag, closed, prod, pseen, pushed, got>>
  BY DEF EmptyLoad
<1>4. /\ cseen' \in [Ring -> Index]
      /\ \A s \in Ring : Ordered(s)'
      /\ \A s \in Ring \ Rings' : Held(s)' = 0
      /\ ProdInv'
  BY <1>2, <1>3, ReceiverLoads
<1>5. /\ cons \in [at : ConsAt, k : 0..2, sum : {0}, q : Ring, item : 0..MaxItems]
      /\ (cons.at = "empty" /\ cons.k < Len(LenOrder)) => dir = "outbound" /\ cons.k = 1
  BY ReceiverRing DEF LinkInv, Types, EmptyLoad
<1>6. /\ cons' \in [at : ConsAt, k : 0..2, sum : {0}, q : Ring, item : 0..MaxItems]
      /\ \/ cons'.at = "idle"
         \/ cons'.at = "empty" /\ cons'.k = 2 /\ dir = "outbound"
         \/ cons'.at = "clear"
  <2>1. CASE v # read_idx[r]
    <3>1. 0 \in 0..MaxItems
      BY Constants, SMT
    <3> QED BY <3>1, <2>1, <1>2 DEF ConsAt, Idle, Ring
  <2>2. CASE v = read_idx[r] /\ cons.k < Len(LenOrder)
    <3>1. cons' = [cons EXCEPT !.k = 2] /\ dir = "outbound" /\ cons.at = "empty"
      BY <2>2, <1>2, <1>5 DEF EmptyLoad
    <3> QED BY <3>1, <1>5
  <2>3. CASE v = read_idx[r] /\ ~(cons.k < Len(LenOrder))
    BY <2>3, <1>2, <1>5 DEF ConsAt
  <2> QED BY <2>1, <2>2, <2>3
<1>7. Types'
  BY <1>3, <1>4, <1>6 DEF LinkInv, Types, ringVars
<1>8. ConsInv'
  BY <1>3, <1>6 DEF ConsInv
<1> QED BY <1>4, <1>7, <1>8 DEF LinkInv

LEMMA PopReadStep == ASSUME LinkInv, PopRead PROVE LinkInv'
<1>1. /\ UNCHANGED <<dir, ringVars, flag, closed, prod, pseen, cseen, pushed, got>>
      /\ cons' = [cons EXCEPT !.at = "advance", !.item = buf[cons.q][Slot(read_idx[cons.q])]]
      /\ cons.at = "read"
  BY DEF PopRead
<1>2. buf[cons.q][Slot(read_idx[cons.q])] \in 0..MaxItems
  <2>1. cons.q \in Ring /\ Slot(read_idx[cons.q]) \in 0..(RingCap - 1)
    BY IndexTypes DEF LinkInv
  <2>2. buf[cons.q] \in [0..(RingCap - 1) -> 0..MaxItems]
    BY <2>1 DEF LinkInv, Types
  <2> QED BY <2>1, <2>2
<1>3. /\ cons' \in [at : ConsAt, k : 0..2, sum : {0}, q : Ring, item : 0..MaxItems]
      /\ cons'.at = "advance" /\ cons'.q = cons.q /\ cons'.item = buf[cons.q][Slot(read_idx[cons.q])]
  BY <1>1, <1>2 DEF LinkInv, Types, ConsAt
<1>4. Types'
  BY <1>1, <1>3 DEF LinkInv, Types, ringVars
<1>5. ProdInv'
  BY <1>1, IndicesStand DEF LinkInv, ProdInv, ringVars, Ring
<1>6. ConsInv'
  BY <1>1, <1>3 DEF LinkInv, ConsInv, ringVars
<1> QED BY <1>1, <1>4, <1>5, <1>6, IndicesStand DEF LinkInv

(* What the store of read_idx does to the indices. *)
LEMMA PopMoves ==
    ASSUME LinkInv, PopAdvance, NEW CONSTANT q \in Ring, q = cons.q
    PROVE  /\ read_idx' \in [Ring -> Index]
           /\ read_idx'[q] = Advance(read_idx[q])
           /\ \A s \in Ring \ {q} : read_idx'[s] = read_idx[s]
           /\ Held(q)' = Held(q) - 1 /\ Held(q) > 0
           /\ \A s \in Ring \ {q} : Held(s)' = Held(s)
           /\ \A s \in Ring : Ordered(s)'
           /\ Total' = Total - 1
<1>1. \A s \in Ring : /\ write_idx[s] \in Index /\ read_idx[s] \in Index
                      /\ pseen[s] \in Index /\ cseen[s] \in Index
                      /\ Held(s) \in Nat /\ Ordered(s)
  BY IndexTypes DEF LinkInv
<1>2. read_idx \in [Ring -> Index] /\ WrappingSub(cseen[q], read_idx[q]) > 0
  BY DEF LinkInv, Types, PopAdvance, ConsInv
<1>3. /\ read_idx' = [read_idx EXCEPT ![q] = Advance(@)]
      /\ UNCHANGED <<dir, write_idx, pseen, cseen>>
  BY DEF PopAdvance
<1>4. WrappingSub(write_idx[q], pseen[q]) \in Nat /\ WrappingSub(cseen[q], read_idx[q]) \in Nat
  <2>1. Index \subseteq Nat
    BY Constants, SMT DEF Index
  <2> QED BY <1>1, <2>1, SubCases
<1>5. Held(q) > 0
  BY <1>1, <1>2, <1>4, SMT DEF Ordered
<1>6. /\ Advance(read_idx[q]) \in Index
      /\ WrappingSub(write_idx[q], Advance(read_idx[q])) = Held(q) - 1
      /\ WrappingSub(cseen[q], Advance(read_idx[q])) = WrappingSub(cseen[q], read_idx[q]) - 1
  BY <1>1, <1>2, <1>5, AdvanceRead DEF Held
<1>7. /\ read_idx' \in [Ring -> Index] /\ read_idx'[q] = Advance(read_idx[q])
      /\ \A s \in Ring \ {q} : read_idx'[s] = read_idx[s]
  BY <1>2, <1>3, <1>6
<1>8. Held(q)' = Held(q) - 1 /\ \A s \in Ring \ {q} : Held(s)' = Held(s)
  BY <1>3, <1>6, <1>7 DEF Held
<1>9. \A s \in Ring : Ordered(s)'
  <2> TAKE s \in Ring
  <2>1. CASE s = q
    <3>1. /\ Held(q)' = Held(q) - 1
          /\ WrappingSub(write_idx[q], pseen[q])' = WrappingSub(write_idx[q], pseen[q])
          /\ WrappingSub(cseen[q], read_idx[q])' = WrappingSub(cseen[q], read_idx[q]) - 1
      BY <1>3, <1>6, <1>7, <1>8
    <3>2. /\ Held(q) <= WrappingSub(write_idx[q], pseen[q])
          /\ WrappingSub(write_idx[q], pseen[q]) <= RingCap
          /\ WrappingSub(cseen[q], read_idx[q]) <= Held(q)
          /\ Held(q) \in Nat
      BY <1>1 DEF Ordered
    <3>3. /\ Held(q)' <= WrappingSub(write_idx[q], pseen[q])'
          /\ WrappingSub(write_idx[q], pseen[q])' <= RingCap
          /\ WrappingSub(cseen[q], read_idx[q])' <= Held(q)'
      BY <3>1, <3>2, <1>4, Constants, SMT
    <3> QED BY <2>1, <3>3, <1>3 DEF Ordered, Held
  <2>2. CASE s # q
    <3>1. read_idx'[s] = read_idx[s]
      BY <2>2, <1>7
    <3> QED BY <3>1, <1>1, <1>3 DEF Ordered, Held
  <2> QED BY <2>1, <2>2
<1>10. Total' = Total - 1
  <2>1. Held(q)' = Held(q) + (-1)
    BY <1>1, <1>8, SMT
  <2>2. Total' = Total + (-1)
    BY <2>1, <1>1, <1>8, TotalMoves
  <2>3. Total \in Int
    BY <1>1, SMT DEF Total, Ring
  <2> QED BY <2>2, <2>3, SMT
<1> QED BY <1>5, <1>7, <1>8, <1>9, <1>10

LEMMA PopAdvanceStep == ASSUME LinkInv, PopAdvance PROVE LinkInv'
<1>1. PICK q \in Ring : q = cons.q
  BY IndexTypes DEF LinkInv
<1>2. UNCHANGED <<dir, write_idx, buf, flag, closed, prod, pseen, cseen, pushed>>
  BY DEF PopAdvance
<1>3. cons' = [at |-> "empty", k |-> 1, sum |-> 0, q |-> "inbound", item |-> 0]
  BY DEF PopAdvance, Idle
<1>4. /\ cons' \in [at : ConsAt, k : 0..2, sum : {0}, q : Ring, item : 0..MaxItems]
      /\ cons'.at = "empty" /\ cons'.k = 1
  <2>1. 0 \in 0..MaxItems
    BY Constants, SMT
  <2> QED BY <1>3, <2>1 DEF ConsAt, Ring
<1>5. got' \in [Ring -> Seq(0..MaxItems)]
  <2>1. cons.item \in 0..MaxItems /\ got \in [Ring -> Seq(0..MaxItems)]
    BY DEF LinkInv, Types
  <2>2. got' = [got EXCEPT ![q] = Append(@, cons.item)]
    BY <1>1 DEF PopAdvance
  <2> QED BY <2>1, <2>2
<1>6. Types'
  BY <1>1, <1>2, <1>4, <1>5, PopMoves DEF LinkInv, Types
<1>7. (\A s \in Ring : Held(s) \in Nat /\ Held(s)' <= Held(s)) /\ Total' <= Total /\ Total \in Int
  <2>1. \A s \in Ring : Held(s) \in Nat
    BY IndexTypes DEF LinkInv
  <2>2. Total \in Int
    BY <2>1, SMT DEF Total, Ring
  <2>3. Held(q)' <= Held(q) /\ \A s \in Ring \ {q} : Held(s)' <= Held(s)
    BY <2>1, <1>1, PopMoves
  <2>4. Total' <= Total
    BY <2>2, <1>1, PopMoves
  <2> QED BY <2>1, <2>2, <2>3, <2>4
<1>8. \A s \in Ring : Held(s)' \in Nat
  <2>1. Held(q)' \in Nat /\ \A s \in Ring \ {q} : Held(s)' \in Nat
    BY <1>1, <1>7, PopMoves
  <2> QED BY <2>1
<1>9. ProdInv'
  <2>1. Held("frames")' <= Held("frames") /\ Held("frames") \in Nat /\ Held("frames")' \in Nat
    BY <1>7, <1>8 DEF Ring
  <2>2. Total' \in Int
    BY <1>8, SMT DEF Total, Ring
  <2>3. (prod.at = "len" /\ prod.k = 2) => Held("frames")' <= prod.sum
    <3>1. prod.sum \in Nat
      BY DEF LinkInv, Types
    <3> QED BY <2>1, <3>1, SMT DEF LinkInv, ProdInv
  <2>4. prod.at \in {"push", "write", "publish"} => Total' < Cap
    BY <2>2, <1>7, Constants, SMT DEF LinkInv, ProdInv
  <2> QED BY <2>3, <2>4, <1>2 DEF LinkInv, ProdInv, Rings
<1>10. ConsInv'
  BY <1>4, <1>2 DEF ConsInv
<1>11. \A s \in Ring \ Rings' : Held(s)' = 0
  BY <1>2, <1>7, <1>8, SMT DEF LinkInv, Rings
<1> QED BY <1>1, <1>6, <1>9, <1>10, <1>11, PopMoves DEF LinkInv

LEMMA RecvClearStep == ASSUME LinkInv, RecvClear PROVE LinkInv'
<1>1. UNCHANGED <<dir, ringVars, closed, prod, pseen, cseen, pushed, got>> /\ flag' = FALSE /\ cons' = Idle
  BY DEF RecvClear
<1>2. cons' \in [at : ConsAt, k : 0..2, sum : {0}, q : Ring, item : 0..MaxItems] /\ cons'.at = "idle"
  <2>1. 0 \in 0..MaxItems
    BY Constants, SMT
  <2> QED BY <1>1, <2>1 DEF Idle, ConsAt, Ring
<1>3. Types'
  BY <1>1, <1>2 DEF LinkInv, Types, ringVars
<1>4. ProdInv' /\ ConsInv'
  BY <1>1, <1>2, IndicesStand DEF LinkInv, ProdInv, ConsInv, ringVars, Ring
<1> QED BY <1>1, <1>3, <1>4, IndicesStand DEF LinkInv

LEMMA CloseStep == ASSUME LinkInv, Close PROVE LinkInv'
<1>1. UNCHANGED <<dir, ringVars, flag, prod, cons, pseen, cseen, pushed, got>> /\ closed' = TRUE
  BY DEF Close
<1>2. Types'
  BY <1>1 DEF LinkInv, Types, ringVars
<1>3. ProdInv' /\ ConsInv'
  BY <1>1, IndicesStand DEF LinkInv, ProdInv, ConsInv, ringVars, Ring
<1> QED BY <1>1, <1>2, <1>3, IndicesStand DEF LinkInv

(* LinkInv holds in every reachable state. *)
LEMMA LinkInvariant == LinkSpec => []LinkInv
<1>1. LinkInv /\ [LinkNext]_linkVars => LinkInv'
  <2> SUFFICES ASSUME LinkInv, [LinkNext]_linkVars PROVE LinkInv'
    OBVIOUS
  <2>1. CASE UNCHANGED linkVars
    <3>1. Types' /\ ProdInv' /\ ConsInv'
      BY <2>1 DEF LinkInv, Types, ProdInv, ConsInv, linkVars, Held, Total, Rings
    <3> QED BY <2>1, <3>1, IndicesStand DEF LinkInv, linkVars, ringVars
  <2> QED
    BY <2>1, SendBeginStep, SendLenStep, PushLoadStep, PushWriteStep, PushPublishStep, SendFlagStep,
       RecvBeginStep, PopLoadStep, PopReadStep, PopAdvanceStep, EmptyLoadStep, RecvClearStep, CloseStep
       DEF LinkNext
<1> QED BY <1>1, LinkInvInit, PTL DEF LinkSpec

-----------------------------------------------------------------------------
(* The theorems *)

(* Type correctness of the link (spsc.rs, MemoryConnection): the program   *)
(* counters and indices keep their ranges and no ring holds more items     *)
(* than it has slots.                                                      *)
THEOREM LinkTypeCorrect == LinkSpec => []LinkTypeOK
<1>1. LinkInv => LinkTypeOK
  <2> SUFFICES ASSUME LinkInv PROVE LinkTypeOK
    OBVIOUS
  <2>1. \A r \in Ring : Held(r) <= RingCap
    <3> TAKE r \in Ring
    <3>1. /\ Held(r) <= WrappingSub(write_idx[r], pseen[r])
          /\ WrappingSub(write_idx[r], pseen[r]) <= RingCap
      BY DEF LinkInv, Ordered
    <3>2. Held(r) \in Nat /\ write_idx[r] \in Index /\ pseen[r] \in Index
      BY IndexTypes DEF LinkInv
    <3>3. WrappingSub(write_idx[r], pseen[r]) \in Index
      BY <3>2, SubCases
    <3> QED BY <3>1, <3>2, <3>3, Constants, SMT DEF Index
  <2>2. prod.at \in ProdAt /\ cons.at \in ConsAt
    BY DEF LinkInv, Types
  <2> QED BY <2>1, <2>2 DEF LinkInv, Types, LinkTypeOK, ProdAt, ConsAt
<1> QED BY <1>1, LinkInvariant, PTL

(* push and pop never touch the same slot at the same time, for every      *)
(* capacity and every position of the wrapping indices.                    *)
THEOREM SlotsNeverCollide == LinkSpec => []SlotsDoNotCollide
<1>1. LinkInv => SlotsDoNotCollide
  BY WriteSlotIsFree DEF SlotsDoNotCollide
<1> QED BY <1>1, LinkInvariant, PTL
-----------------------------------------------------------------------------
(* The link implements the channel.                                        *)

Queues == [r \in Ring |-> InFlight(r)]
ChannelState == <<Queues, got, Total>>

(* The items in flight of a ring depend on its own indices and slots. *)
LEMMA SameInFlight ==
    ASSUME LinkInv, NEW CONSTANT r \in Ring, UNCHANGED <<write_idx[r], read_idx[r]>>,
           \A i \in 1..Held(r) : buf'[r][Slot(read_idx[r] + i - 1)] = buf[r][Slot(read_idx[r] + i - 1)]
    PROVE  InFlight(r)' = InFlight(r)
<1>1. Held(r)' = Held(r)
  BY DEF Held
<1> QED BY <1>1 DEF InFlight

(* A step that moves no index and writes no slot is a stuttering step of   *)
(* the channel.                                                            *)
LEMMA QuietStep ==
    ASSUME UNCHANGED <<ringVars, got>>
    PROVE  ChannelState' = ChannelState
BY DEF ringVars, ChannelState, Queues, InFlight, Total, Held

(* The slot is written before it is published, so the write is invisible.  *)
LEMMA WriteIsInvisible ==
    ASSUME LinkInv, PushWrite
    PROVE  ChannelState' = ChannelState
<1>1. PICK q \in Ring : q = prod.q
  BY IndexTypes DEF LinkInv
<1>2. UNCHANGED <<write_idx, read_idx, got>> /\ buf' = [buf EXCEPT ![q][Slot(write_idx[q])] = pushed + 1]
  BY <1>1 DEF PushWrite
<1>3. /\ buf \in [Ring -> [0..(RingCap - 1) -> 0..MaxItems]]
      /\ read_idx[q] \in Index /\ write_idx[q] \in Index /\ pseen[q] \in Index /\ Held(q) \in Nat
  BY <1>1, IndexTypes DEF LinkInv, Types
<1>4. Held(q) < RingCap
  <2>1. Held(q) <= WrappingSub(write_idx[q], pseen[q]) /\ WrappingSub(write_idx[q], pseen[q]) < RingCap
    BY <1>1 DEF LinkInv, ProdInv, PushWrite, Ordered
  <2>2. WrappingSub(write_idx[q], pseen[q]) \in Index
    BY <1>3, SubCases
  <2> QED BY <2>1, <2>2, <1>3, Constants, SMT DEF Index
<1>5. \A r \in Ring : InFlight(r)' = InFlight(r)
  <2> TAKE r \in Ring
  <2>1. CASE r # q
    BY <2>1, <1>2, <1>3, SameInFlight
  <2>2. CASE r = q
    <3>1. ASSUME NEW i \in 1..Held(q)
          PROVE  buf'[q][Slot(read_idx[q] + i - 1)] = buf[q][Slot(read_idx[q] + i - 1)]
      <4>1. i - 1 \in Nat /\ i - 1 < Held(q) /\ Held(q) - (i - 1) < RingCap /\ i \in Nat
        BY <1>3, <1>4, Constants, SMT
      <4>2. Slot(read_idx[q] + Held(q)) # Slot(read_idx[q] + (i - 1))
        BY <4>1, <1>3, OtherSlots
      <4>3. read_idx[q] + i - 1 = read_idx[q] + (i - 1)
        BY <1>3, <4>1, Constants, SMT DEF Index
      <4>4. Slot(write_idx[q]) = Slot(read_idx[q] + Held(q))
        BY <1>3, WriteSlot DEF Held
      <4> QED BY <4>2, <4>3, <4>4, <1>2, <1>3
    <3> QED BY <2>2, <3>1, <1>2, SameInFlight
  <2> QED BY <2>1, <2>2
<1> QED BY <1>2, <1>5 DEF ChannelState, Queues, Total, Held

(* The store of write_idx is the moment an item enters the channel. *)
LEMMA PublishIsPut ==
    ASSUME LinkInv, PushPublish
    PROVE  Channels!ChanNext
<1>1. PICK q \in Ring : q = prod.q
  BY IndexTypes DEF LinkInv
<1>2. /\ UNCHANGED <<read_idx, buf, got>>
      /\ pushed \in 0..MaxItems /\ pushed < MaxItems /\ Total < Cap
      /\ buf[q][Slot(write_idx[q])] = pushed + 1
      /\ read_idx[q] \in Index /\ write_idx[q] \in Index /\ Held(q) \in Nat
  BY <1>1, IndexTypes DEF LinkInv, ProdInv, PushPublish, Types
<1>3. pushed + 1 \in Item
  BY <1>2, Constants, SMT DEF Item
<1>4. /\ Held(q)' = Held(q) + 1 /\ Total' = Total + 1
      /\ \A s \in Ring \ {q} : write_idx'[s] = write_idx[s]
  BY <1>1, PublishMoves
<1>5. \A r \in Ring \ {q} : InFlight(r)' = InFlight(r)
  BY <1>2, <1>4, SameInFlight
<1>6. InFlight(q)' = Append(InFlight(q), pushed + 1)
  <2>1. InFlight(q)' = [i \in 1..(Held(q) + 1) |-> buf[q][Slot(read_idx[q] + i - 1)]]
    BY <1>2, <1>4 DEF InFlight
  <2>2. Len(InFlight(q)) = Held(q) /\ InFlight(q) = [i \in 1..Held(q) |-> buf[q][Slot(read_idx[q] + i - 1)]]
    BY <1>2, SMT DEF InFlight
  <2>3. Append(InFlight(q), pushed + 1) =
          [i \in 1..(Held(q) + 1) |-> IF i = Held(q) + 1 THEN pushed + 1 ELSE InFlight(q)[i]]
    BY <2>2, <1>2, SMT
  <2>4. ASSUME NEW i \in 1..(Held(q) + 1)
        PROVE  buf[q][Slot(read_idx[q] + i - 1)] = IF i = Held(q) + 1 THEN pushed + 1 ELSE InFlight(q)[i]
    <3>1. CASE i = Held(q) + 1
      <4>1. read_idx[q] + i - 1 = read_idx[q] + Held(q)
        BY <3>1, <1>2, Constants, SMT DEF Index
      <4>2. Slot(write_idx[q]) = Slot(read_idx[q] + Held(q))
        BY <1>2, WriteSlot DEF Held
      <4> QED BY <3>1, <4>1, <4>2, <1>2
    <3>2. CASE i # Held(q) + 1
      <4>1. i \in 1..Held(q)
        BY <3>2, <1>2, SMT
      <4> QED BY <3>2, <4>1, <2>2
    <3> QED BY <3>1, <3>2
  <2> QED BY <2>1, <2>3, <2>4
<1>7. Queues' = [Queues EXCEPT ![q] = Append(@, pushed + 1)]
  BY <1>5, <1>6 DEF Queues
<1>8. Channels!Put(q, pushed + 1)
  BY <1>2, <1>4, <1>7 DEF Channels!Put, Queues, Total
<1> QED BY <1>3, <1>8 DEF Channels!ChanNext

(* The store of read_idx is the moment an item leaves it. *)
LEMMA AdvanceIsTake ==
    ASSUME LinkInv, PopAdvance
    PROVE  Channels!ChanNext
<1>1. PICK q \in Ring : q = cons.q
  BY IndexTypes DEF LinkInv
<1>2. /\ UNCHANGED <<write_idx, buf>>
      /\ got' = [got EXCEPT ![q] = Append(@, buf[q][Slot(read_idx[q])])]
      /\ read_idx[q] \in Index /\ write_idx[q] \in Index /\ Held(q) \in Nat
  BY <1>1, IndexTypes DEF LinkInv, ConsInv, PopAdvance, Types
<1>3. /\ Held(q)' = Held(q) - 1 /\ Held(q) > 0 /\ Total' = Total - 1
      /\ read_idx'[q] = Advance(read_idx[q])
      /\ \A s \in Ring \ {q} : read_idx'[s] = read_idx[s]
  BY <1>1, PopMoves
<1>4. \A r \in Ring \ {q} : InFlight(r)' = InFlight(r)
  BY <1>2, <1>3, SameInFlight
<1>5. /\ Len(InFlight(q)) = Held(q)
      /\ InFlight(q) = [i \in 1..Held(q) |-> buf[q][Slot(read_idx[q] + i - 1)]]
  BY <1>2, SMT DEF InFlight
<1>6. InFlight(q) # <<>> /\ Head(InFlight(q)) = buf[q][Slot(read_idx[q])]
  <2>1. read_idx[q] + 1 - 1 = read_idx[q]
    BY <1>2, Constants, SMT DEF Index
  <2>2. 1 \in 1..Held(q)
    BY <1>2, <1>3, SMT
  <2> QED BY <1>3, <1>5, <2>1, <2>2
<1>7. InFlight(q)' = Tail(InFlight(q))
  <2>1. InFlight(q)' = [i \in 1..(Held(q) - 1) |-> buf[q][Slot(Advance(read_idx[q]) + i - 1)]]
    BY <1>2, <1>3 DEF InFlight
  <2>2. Tail(InFlight(q)) = [i \in 1..(Held(q) - 1) |-> InFlight(q)[i + 1]]
    <3>1. InFlight(q) \in Seq(0..MaxItems)
      <4>1. \A i \in 1..Held(q) : buf[q][Slot(read_idx[q] + i - 1)] \in 0..MaxItems
        <5> TAKE i \in 1..Held(q)
        <5>1. read_idx[q] + i - 1 \in Nat
          BY <1>2, Constants, SMT DEF Index
        <5>2. Slot(read_idx[q] + i - 1) \in 0..(RingCap - 1)
          BY <5>1, SlotType
        <5>3. buf[q] \in [0..(RingCap - 1) -> 0..MaxItems]
          BY DEF LinkInv, Types
        <5> QED BY <5>2, <5>3
      <4>2. InFlight(q) \in [1..Held(q) -> 0..MaxItems]
        BY <4>1, <1>5
      <4> QED BY <4>2, <1>2, SeqDef
    <3>2. /\ Len(Tail(InFlight(q))) = Held(q) - 1 /\ Tail(InFlight(q)) \in Seq(0..MaxItems)
          /\ \A i \in 1..(Held(q) - 1) : Tail(InFlight(q))[i] = InFlight(q)[i + 1]
      BY <3>1, <1>5, <1>6, HeadTailProperties
    <3>3. Tail(InFlight(q)) \in [1..(Held(q) - 1) -> 0..MaxItems]
      <4> DEFINE t == Tail(InFlight(q))
      <4> HIDE DEF t
      <4>1. t \in Seq(0..MaxItems) /\ Len(t) = Held(q) - 1
        BY <3>2 DEF t
      <4>2. t \in [1..Len(t) -> 0..MaxItems]
        BY <4>1, LenProperties
      <4> QED BY <4>1, <4>2 DEF t
    <3> QED BY <3>2, <3>3, Zenon
  <2>3. ASSUME NEW i \in 1..(Held(q) - 1)
        PROVE  buf[q][Slot(Advance(read_idx[q]) + i - 1)] = InFlight(q)[i + 1]
    <3>1. i - 1 \in Nat /\ i + 1 \in 1..Held(q) /\ i \in Nat
      BY <1>2, SMT
    <3>2. Advance(read_idx[q]) \in Index
      BY <1>2, <1>3, AdvanceRead DEF Held
    <3>3. Advance(read_idx[q]) + i - 1 = Advance(read_idx[q]) + (i - 1)
      BY <3>1, <3>2, Constants, SMT DEF Index
    <3>4. read_idx[q] + (i + 1) - 1 = read_idx[q] + ((i - 1) + 1)
      BY <3>1, <1>2, Constants, SMT DEF Index
    <3>5. Slot(Advance(read_idx[q]) + (i - 1)) = Slot(read_idx[q] + ((i - 1) + 1))
      BY <3>1, <1>2, AdvancedSlot
    <3> QED BY <3>1, <3>3, <3>4, <3>5, <1>5
  <2> QED BY <2>1, <2>2, <2>3
<1>8. Queues' = [Queues EXCEPT ![q] = Tail(@)] /\ Queues[q] = InFlight(q)
  BY <1>4, <1>7 DEF Queues
<1>9. Channels!Take(q)
  BY <1>2, <1>3, <1>6, <1>8 DEF Channels!Take, Queues, Total
<1> QED BY <1>9 DEF Channels!ChanNext

(* The rings under a MemoryConnection implement the channel: first-in      *)
(* first-out per ring, nothing lost, duplicated or reordered, and never    *)
(* more than the configured limit in flight over both rings together,      *)
(* although each thread works with old values of the other one's indices.  *)
THEOREM LinkImplementsChannel == LinkSpec => ImplementsChannel
<1>1. LinkInit => Channels!ChanInit
  <2> SUFFICES ASSUME LinkInit PROVE Channels!ChanInit
    OBVIOUS
  <2>1. \A r \in Ring : Held(r) = 0
    <3>1. 0 \in Index
      BY Constants, SMT DEF Index
    <3> QED BY <3>1, SubSelf DEF LinkInit, Held
  <2>2. Queues = [r \in Ring |-> <<>>]
    BY <2>1, SMT DEF Queues, InFlight
  <2>3. Total = 0
    BY <2>1, SMT DEF Total, Ring
  <2> QED BY <2>2, <2>3 DEF LinkInit, Channels!ChanInit, Queues, Total
<1>2. LinkInv /\ [LinkNext]_linkVars => [Channels!ChanNext]_ChannelState
  <2> SUFFICES ASSUME LinkInv, [LinkNext]_linkVars, ~Channels!ChanNext
               PROVE  ChannelState' = ChannelState
    OBVIOUS
  <2>1. CASE UNCHANGED linkVars
    BY <2>1, QuietStep DEF linkVars, ringVars
  <2>2. CASE \E q \in Ring : SendBegin(q)
    BY <2>2, QuietStep DEF SendBegin
  <2>3. CASE SendLen \/ PushLoad \/ SendFlag
    BY <2>3, QuietStep DEF SendLen, PushLoad, SendFlag
  <2>4. CASE RecvBegin \/ PopLoad \/ PopRead \/ EmptyLoad \/ RecvClear \/ Close
    BY <2>4, QuietStep DEF RecvBegin, PopLoad, PopRead, EmptyLoad, RecvClear, Close
  <2> QED BY <2>1, <2>2, <2>3, <2>4, WriteIsInvisible, PublishIsPut, AdvanceIsTake DEF LinkNext
<1>3. ChannelState = Channels!chanVars
  BY DEF ChannelState, Queues, Total, Channels!chanVars
<1>4. LinkInv /\ [LinkNext]_linkVars => [Channels!ChanNext]_(Channels!chanVars)
  BY <1>2 DEF ChannelState, Queues, Total, Channels!chanVars
<1> QED BY <1>1, <1>4, LinkInvariant, PTL DEF LinkSpec, ImplementsChannel, Channels!ChanSpec


-----------------------------------------------------------------------------
(* The client.                                                             *)

(* A record with the fields of the client; only those about calls matter. *)
IsClient(c) ==
    /\ c = [state |-> c.state, tclosed |-> c.tclosed, broken |-> c.broken, session |-> c.session,
            nextReq |-> c.nextReq, nextLocal |-> c.nextLocal, calls |-> c.calls,
            results |-> c.results, pendSubs |-> c.pendSubs, handles |-> c.handles]
    /\ c.nextReq \in Nat
    /\ c.calls \in SUBSET Request
    /\ c.results \in [Request -> Nat]

(* What a request adds up to. *)
Balance(c, r) == (IF r \in c.calls THEN 1 ELSE 0) + c.results[r]

(* d is what became of c without a request issued or forgotten. *)
Keeps(c, d) ==
    /\ IsClient(c) /\ IsClient(d)
    /\ c.nextReq <= d.nextReq
    /\ \A r \in Request : Balance(d, r) = Balance(c, r)

UpKind == {"Handshake", "Authenticate", "AttachWorld", "DetachWorld", "Subscribe",
           "Unsubscribe", "Resync", "CallReducer"}
DownKind == {"HandshakeResponse", "AuthResult", "AttachResult", "DetachResult", "Snapshot",
             "Delta", "Stale", "Error", "ReducerResult", "Disconnect", "TickUpdate"}

(* A queue of messages of the given kinds, whatever else they hold. *)
Carries(q, kinds) == \E M : q \in Seq(M) /\ \A m \in M : m.k \in kinds

(* The inductive invariant. *)
ClientInv ==
    /\ Carries(up, UpKind)
    /\ Carries(down, DownKind)
    /\ IsClient(cl)
    /\ issued \in SUBSET Request
    /\ \A r \in issued : r < cl.nextReq
    /\ CallsResolveOnce
-----------------------------------------------------------------------------
(* Operations on the client *)

LEMMA KeepsItself == ASSUME NEW c, IsClient(c) PROVE Keeps(c, c)
BY DEF Keeps, IsClient

LEMMA KeepsTransitive ==
    ASSUME NEW c, NEW d, NEW e, Keeps(c, d), Keeps(d, e)
    PROVE  Keeps(c, e)
<1>1. c.nextReq \in Nat /\ d.nextReq \in Nat /\ e.nextReq \in Nat
  BY DEF Keeps, IsClient
<1>2. c.nextReq <= e.nextReq
  BY <1>1, SMT DEF Keeps
<1> QED BY <1>2 DEF Keeps

(* A change of the other fields. *)
LEMMA SameCalls ==
    ASSUME NEW c, IsClient(c), NEW st, NEW tc, NEW br, NEW se, NEW nl, NEW ps, NEW hs
    PROVE  Keeps(c, [state |-> st, tclosed |-> tc, broken |-> br, session |-> se, nextReq |-> c.nextReq,
                     nextLocal |-> nl, calls |-> c.calls, results |-> c.results,
                     pendSubs |-> ps, handles |-> hs])
BY DEF Keeps, IsClient, Balance

LEMMA OtherField ==
    ASSUME NEW c, IsClient(c), NEW x
    PROVE  /\ Keeps(c, [c EXCEPT !.state = x])
           /\ Keeps(c, [c EXCEPT !.tclosed = x])
           /\ Keeps(c, [c EXCEPT !.session = x])
           /\ Keeps(c, [c EXCEPT !.session.world = x])
           /\ Keeps(c, [c EXCEPT !.pendSubs = x])
           /\ Keeps(c, [c EXCEPT !.handles = x])
           /\ Keeps(c, [c EXCEPT !.broken = x])
<1>1. c = [state |-> c.state, tclosed |-> c.tclosed, broken |-> c.broken, session |-> c.session,
           nextReq |-> c.nextReq, nextLocal |-> c.nextLocal, calls |-> c.calls,
           results |-> c.results, pendSubs |-> c.pendSubs, handles |-> c.handles]
  BY DEF IsClient
<1>2. Keeps(c, [c EXCEPT !.state = x])
  BY <1>1, SameCalls
<1>3. Keeps(c, [c EXCEPT !.tclosed = x])
  BY <1>1, SameCalls
<1>4. Keeps(c, [c EXCEPT !.session = x])
  BY <1>1, SameCalls
<1>5. Keeps(c, [c EXCEPT !.session.world = x])
  BY <1>1, SameCalls
<1>6. Keeps(c, [c EXCEPT !.pendSubs = x])
  BY <1>1, SameCalls
<1>7. Keeps(c, [c EXCEPT !.handles = x])
  BY <1>1, SameCalls
<1>8. Keeps(c, [c EXCEPT !.broken = x])
  BY <1>1, SameCalls
<1> QED BY <1>2, <1>3, <1>4, <1>5, <1>6, <1>7, <1>8

LEMMA OtherFields ==
    ASSUME NEW c, IsClient(c), NEW x, NEW y, NEW z
    PROVE  /\ Keeps(c, [c EXCEPT !.state = x, !.tclosed = y])
           /\ Keeps(c, [c EXCEPT !.tclosed = x, !.state = y])
           /\ Keeps(c, [c EXCEPT !.tclosed = x, !.broken = y])
           /\ Keeps(c, [c EXCEPT !.pendSubs = x, !.handles = y])
           /\ Keeps(c, [c EXCEPT !.session = x, !.pendSubs = y, !.handles = z])
<1>1. Keeps(c, [c EXCEPT !.state = x, !.tclosed = y])
  <2> DEFINE d == [c EXCEPT !.state = x]
  <2>1. Keeps(c, d)
    BY OtherField
  <2> HIDE DEF d
  <2>2. IsClient(d)
    BY <2>1 DEF Keeps
  <2>3. Keeps(d, [d EXCEPT !.tclosed = y])
    BY <2>2, OtherField
  <2> QED BY <2>1, <2>3, KeepsTransitive DEF d
<1>2. Keeps(c, [c EXCEPT !.tclosed = x, !.state = y])
  <2> DEFINE d == [c EXCEPT !.tclosed = x]
  <2>1. Keeps(c, d)
    BY OtherField
  <2> HIDE DEF d
  <2>2. IsClient(d)
    BY <2>1 DEF Keeps
  <2>3. Keeps(d, [d EXCEPT !.state = y])
    BY <2>2, OtherField
  <2> QED BY <2>1, <2>3, KeepsTransitive DEF d
<1>3. Keeps(c, [c EXCEPT !.pendSubs = x, !.handles = y])
  <2> DEFINE d == [c EXCEPT !.pendSubs = x]
  <2>1. Keeps(c, d)
    BY OtherField
  <2> HIDE DEF d
  <2>2. IsClient(d)
    BY <2>1 DEF Keeps
  <2>3. Keeps(d, [d EXCEPT !.handles = y])
    BY <2>2, OtherField
  <2> QED BY <2>1, <2>3, KeepsTransitive DEF d
<1>4. Keeps(c, [c EXCEPT !.session = x, !.pendSubs = y, !.handles = z])
  <2> DEFINE d == [c EXCEPT !.session = x]
             e == [d EXCEPT !.pendSubs = y]
  <2>1. Keeps(c, d)
    BY OtherField
  <2> HIDE DEF d
  <2>2. IsClient(d)
    BY <2>1 DEF Keeps
  <2>3. Keeps(d, e)
    BY <2>2, OtherField
  <2> HIDE DEF e
  <2>4. IsClient(e)
    BY <2>3 DEF Keeps
  <2>5. Keeps(e, [e EXCEPT !.handles = z])
    BY <2>4, OtherField
  <2> QED BY <2>1, <2>3, <2>5, KeepsTransitive DEF d, e
<1>5. Keeps(c, [c EXCEPT !.tclosed = x, !.broken = y])
  <2> DEFINE d == [c EXCEPT !.tclosed = x]
  <2>1. Keeps(c, d)
    BY OtherField
  <2> HIDE DEF d
  <2>2. IsClient(d)
    BY <2>1 DEF Keeps
  <2>3. Keeps(d, [d EXCEPT !.broken = y])
    BY <2>2, OtherField
  <2> QED BY <2>1, <2>3, KeepsTransitive DEF d
<1> QED BY <1>1, <1>2, <1>3, <1>4, <1>5

LEMMA FailKeeps == ASSUME NEW c, IsClient(c) PROVE Keeps(c, FailPendingCalls(c))
<1> DEFINE d == FailPendingCalls(c)
           n == [r \in Request |-> IF r \in c.calls THEN c.results[r] + 1 ELSE c.results[r]]
<1>1. n \in [Request -> Nat]
  BY DEF IsClient
<1>2. /\ d = [c EXCEPT !.calls = {}, !.results = n]
      /\ d.calls = {} /\ d.results = n /\ d.nextReq = c.nextReq /\ IsClient(d)
  <2>1. d = [c EXCEPT !.calls = {}, !.results = n]
    BY DEF FailPendingCalls
  <2> HIDE DEF d, n
  <2> QED BY <1>1, <2>1 DEF IsClient
<1>3. \A r \in Request : Balance(d, r) = Balance(c, r)
  <2> TAKE r \in Request
  <2>1. c.results[r] \in Nat
    BY DEF IsClient
  <2> QED BY <1>2, <2>1 DEF Balance
<1>4. c.nextReq \in Nat
  BY DEF IsClient
<1>5. c.nextReq <= d.nextReq
  BY <1>2, <1>4
<1> HIDE DEF d
<1>6. Keeps(c, d)
  BY <1>2, <1>3, <1>5 DEF Keeps
<1> QED BY <1>6 DEF d

LEMMA EndedKeeps ==
    ASSUME NEW c, IsClient(c)
    PROVE  Keeps(c, Ended(c)) /\ Keeps(c, TransitionToClosed(c))
<1> DEFINE f == FailPendingCalls(c)
<1>1. Keeps(c, f) /\ IsClient(f)
  BY FailKeeps DEF Keeps
<1> HIDE DEF f
<1>2. Keeps(f, [f EXCEPT !.session = NoSession, !.pendSubs = {}, !.handles = <<>>])
  BY <1>1, OtherFields
<1>3. Keeps(c, Ended(c)) /\ IsClient(Ended(c))
  BY <1>1, <1>2, KeepsTransitive DEF Ended, f, Keeps
<1>4. Keeps(Ended(c), TransitionToClosed(c))
  BY <1>3, OtherFields DEF TransitionToClosed
<1> QED BY <1>3, <1>4, KeepsTransitive

LEMMA SnapshotKeeps == ASSUME NEW c, NEW m, IsClient(c) PROVE Keeps(c, ApplySnapshot(c, m))
<1>1. \A p, h : Keeps(c, [c EXCEPT !.pendSubs = p, !.handles = h])
  BY OtherFields
<1>2. \A l, h : Keeps(c, [c EXCEPT !.handles[l] = h])
  <2> TAKE l, h
  <2>1. [c EXCEPT !.handles[l] = h] = [c EXCEPT !.handles = [c.handles EXCEPT ![l] = h]]
    BY DEF IsClient
  <2> QED BY <2>1, OtherField
<1> QED BY <1>1, <1>2, KeepsItself DEF ApplySnapshot

LEMMA OtherHandlersKeep ==
    ASSUME NEW c, NEW m, IsClient(c)
    PROVE  Keeps(c, ApplyDelta(c, m)) /\ Keeps(c, MarkStale(c, m)) /\ Keeps(c, Rejected(c, m))
<1>1. \A h : Keeps(c, [c EXCEPT !.handles = h])
  BY OtherField
<1>2. \A p, h : Keeps(c, [c EXCEPT !.pendSubs = p, !.handles = h])
  BY OtherFields
<1> QED BY <1>1, <1>2 DEF ApplyDelta, MarkStale, Rejected

LEMMA TakeResultKeeps == ASSUME NEW c, NEW m, IsClient(c) PROVE Keeps(c, TakeResult(c, m))
<1> DEFINE d == TakeResult(c, m)
<1>1. CASE m.req \notin c.calls
  BY <1>1, KeepsItself DEF TakeResult
<1>2. CASE m.req \in c.calls
  <2> DEFINE q == m.req
             n == [c.results EXCEPT ![q] = @ + 1]
  <2>1. d = [c EXCEPT !.calls = @ \ {q}, !.results = n]
    BY <1>2 DEF TakeResult, IsClient
  <2>2. q \in Request /\ n \in [Request -> Nat] /\ q \in c.calls
    BY <1>2 DEF IsClient
  <2>3. \A r \in Request : n[r] = (IF r = q THEN c.results[r] + 1 ELSE c.results[r]) /\ c.results[r] \in Nat
    BY <2>2 DEF IsClient
  <2> HIDE DEF d, n, q
  <2>4. d.calls = c.calls \ {q} /\ d.results = n /\ d.nextReq = c.nextReq /\ IsClient(d)
    BY <2>1, <2>2 DEF IsClient
  <2>5. \A r \in Request : Balance(d, r) = Balance(c, r)
    BY <2>2, <2>3, <2>4 DEF Balance
  <2>6. c.nextReq \in Nat
    BY DEF IsClient
  <2> QED BY <2>4, <2>5, <2>6 DEF Keeps, d
<1> QED BY <1>1, <1>2

LEMMA DetachedKeeps == ASSUME NEW c, IsClient(c) PROVE Keeps(c, Detached(c))
<1> DEFINE d == [c EXCEPT !.session.world = None]
<1>1. Keeps(c, d)
  BY OtherField
<1>2. Keeps(d, FailPendingCalls(d))
  BY <1>1, FailKeeps DEF Keeps
<1> QED BY <1>1, <1>2, KeepsTransitive DEF Detached

(* Dispatching one message keeps the balance. *)
LEMMA DispatchKeeps ==
    ASSUME NEW c, NEW m, IsClient(c), m.k \in DownKind
    PROVE  Keeps(c, Dispatch(c, m))
<1>1. CASE c.tclosed
  BY <1>1, KeepsItself DEF Dispatch
<1>2. CASE ~c.tclosed /\ m.k = "HandshakeResponse"
  <2>1. \A s, t : Keeps(c, [c EXCEPT !.state = s]) /\ Keeps(c, [c EXCEPT !.state = s, !.tclosed = t])
    BY OtherField, OtherFields
  <2> QED BY <1>2, <2>1 DEF Dispatch
<1>3. CASE ~c.tclosed /\ m.k \in {"AuthResult", "AttachResult"}
  <2>1. \A s : Keeps(c, [c EXCEPT !.session = s]) /\ Keeps(c, [c EXCEPT !.session.world = s])
    BY OtherField
  <2> QED BY <1>3, <2>1, KeepsItself DEF Dispatch
<1>4. CASE ~c.tclosed /\ m.k = "DetachResult"
  BY <1>4, DetachedKeeps DEF Dispatch
<1>5. CASE ~c.tclosed /\ m.k = "Snapshot"
  BY <1>5, SnapshotKeeps DEF Dispatch
<1>6. CASE ~c.tclosed /\ m.k \in {"Delta", "Stale", "Error"}
  BY <1>6, OtherHandlersKeep DEF Dispatch
<1>7. CASE ~c.tclosed /\ m.k = "ReducerResult"
  BY <1>7, TakeResultKeeps DEF Dispatch
<1>8. CASE ~c.tclosed /\ m.k = "Disconnect"
  BY <1>8, EndedKeeps DEF Dispatch
<1>9. CASE ~c.tclosed /\ m.k = "TickUpdate"
  BY <1>9, KeepsItself DEF Dispatch
<1> QED BY <1>1, <1>2, <1>3, <1>4, <1>5, <1>6, <1>7, <1>8, <1>9 DEF DownKind

(* The loop of pump: the recursion is well defined, and a whole batch of   *)
(* messages keeps the balance.                                             *)
LEMMA DispatchedKeeps ==
    ASSUME NEW c, IsClient(c), NEW ms, NEW n \in Nat, \A i \in 1..n : ms[i].k \in DownKind
    PROVE  Keeps(c, Dispatched(c, ms, n))
<1> DEFINE Runs(f, k) == f = [i \in 0..k |-> IF i = 0 THEN c ELSE Dispatch(f[i - 1], ms[i])]
           Exist == {k \in Nat : \E f : Runs(f, k)}
<1>1. 0 \in Exist
  <2>1. Runs([i \in 0..0 |-> c], 0)
    OBVIOUS
  <2> QED BY <2>1
<1>2. ASSUME NEW k \in Nat, k \in Exist PROVE k + 1 \in Exist
  <2>1. PICK f : Runs(f, k)
    BY <1>2
  <2> DEFINE g == [i \in 0..(k + 1) |-> IF i <= k THEN f[i] ELSE Dispatch(f[k], ms[k + 1])]
  <2>2. ASSUME NEW i \in 0..(k + 1)
        PROVE  g[i] = IF i = 0 THEN c ELSE Dispatch(g[i - 1], ms[i])
    <3>1. CASE i = 0
      <4>1. g[0] = f[0] /\ f[0] = c
        BY <2>1
      <4> QED BY <3>1, <4>1
    <3>2. CASE i \in 1..k
      <4>1. i - 1 \in 0..k /\ i \in 0..k /\ i # 0
        BY <3>2
      <4>2. g[i] = f[i] /\ g[i - 1] = f[i - 1]
        BY <4>1
      <4>3. f[i] = Dispatch(f[i - 1], ms[i])
        BY <2>1, <4>1
      <4> QED BY <4>1, <4>2, <4>3
    <3>3. CASE i = k + 1
      <4>1. g[i] = Dispatch(f[k], ms[k + 1]) /\ g[i - 1] = f[k] /\ i # 0
        BY <3>3
      <4> QED BY <3>3, <4>1
    <3> QED BY <3>1, <3>2, <3>3
  <2>3. Runs(g, k + 1)
    BY <2>2, Zenon
  <2> HIDE DEF g, Runs
  <2> QED BY <2>3
<1>3. n \in Exist
  <2> HIDE DEF Exist
  <2> QED BY <1>1, <1>2, InductionOnNat
<1> DEFINE seen == CHOOSE f : Runs(f, n)
<1>4. Runs(seen, n)
  <2>1. \E f : Runs(f, n)
    BY <1>3
  <2> HIDE DEF Runs
  <2> QED BY <2>1
<1>5. Dispatched(c, ms, n) = seen[n]
  BY DEF Dispatched
<1> HIDE DEF seen
<1> DEFINE Kept == {k \in Nat : k <= n => Keeps(c, seen[k])}
<1>6. 0 \in Kept
  <2>1. seen[0] = c
    BY <1>4
  <2> QED BY <2>1, KeepsItself
<1>7. ASSUME NEW k \in Nat, k \in Kept PROVE k + 1 \in Kept
  <2> SUFFICES ASSUME k + 1 <= n PROVE Keeps(c, seen[k + 1])
    OBVIOUS
  <2>1. Keeps(c, seen[k])
    BY <1>7
  <2>2. seen[k + 1] = Dispatch(seen[k], ms[k + 1])
    <3>1. k + 1 \in 0..n /\ k + 1 # 0 /\ (k + 1) - 1 = k
      OBVIOUS
    <3> QED BY <1>4, <3>1
  <2>3. ms[k + 1].k \in DownKind
    OBVIOUS
  <2>4. Keeps(seen[k], Dispatch(seen[k], ms[k + 1]))
    BY <2>1, <2>3, DispatchKeeps DEF Keeps
  <2> QED BY <2>1, <2>2, <2>4, KeepsTransitive
<1>8. n \in Kept
  <2> HIDE DEF Kept
  <2> QED BY <1>6, <1>7, InductionOnNat
<1> QED BY <1>5, <1>8
-----------------------------------------------------------------------------
(* Messages under way *)

LEMMA CarriesNothing == ASSUME NEW K PROVE Carries(<<>>, K)
<1>1. PICK M : M = {}
  OBVIOUS
<1>2. <<>> \in Seq(M) /\ \A m \in M : m.k \in K
  BY <1>1
<1> QED BY <1>2 DEF Carries

LEMMA CarriesMore ==
    ASSUME NEW q, NEW K, Carries(q, K), NEW m, m.k \in K
    PROVE  Carries(Append(q, m), K) /\ Carries(q \o <<m>>, K)
<1>1. PICK M : q \in Seq(M) /\ \A x \in M : x.k \in K
  BY DEF Carries
<1> DEFINE N == M \cup {m}
<1>2. q \in Seq(N) /\ \A x \in N : x.k \in K
  BY <1>1, SeqMonotonic
<1>3. Append(q, m) \in Seq(N) /\ q \o <<m>> \in Seq(N)
  <2> HIDE DEF N
  <2>1. m \in N
    BY DEF N
  <2> QED BY <1>2, <2>1
<1> QED BY <1>2, <1>3 DEF Carries

LEMMA CarriesRest ==
    ASSUME NEW q, NEW K, Carries(q, K), q # <<>>
    PROVE  Carries(Tail(q), K) /\ Head(q).k \in K
<1>1. PICK M : q \in Seq(M) /\ \A x \in M : x.k \in K
  BY DEF Carries
<1>2. Tail(q) \in Seq(M) /\ Head(q) \in M
  BY <1>1, HeadTailProperties
<1> QED BY <1>1, <1>2 DEF Carries

LEMMA CarriesEach ==
    ASSUME NEW q, NEW K, Carries(q, K)
    PROVE  Len(q) \in Nat /\ \A i \in 1..Len(q) : q[i].k \in K
<1>1. PICK M : q \in Seq(M) /\ \A x \in M : x.k \in K
  BY DEF Carries
<1> QED BY <1>1

LEMMA KindOfMessage ==
    ASSUME NEW k, NEW m, NEW b, NEW x, NEW y
    PROVE  /\ Msg(k).k = k /\ Reply(k, m).k = k /\ Refuse(k, m).k = k
           /\ [Msg(k) EXCEPT !.ok = b].k = k /\ [Msg(k) EXCEPT !.world = x].k = k
           /\ [Msg(k) EXCEPT !.sub = x, !.world = y].k = k
           /\ [Msg(k) EXCEPT !.req = x, !.ok = y].k = k
           /\ [Reply(k, m) EXCEPT !.sub = x, !.world = y].k = k
           /\ [Msg(k) EXCEPT !.req = x].k = k /\ [Msg(k) EXCEPT !.sub = x].k = k
BY DEF Msg, Reply, Refuse

(* What the gateway answers is of a kind the client knows. *)
LEMMA AnswersAreKnown ==
    ASSUME NEW m, m.k \in UpKind, NEW r \in Handled(m)
    PROVE  r[2] = <<>> \/ \E d : r[2] = <<d>> /\ d.k \in DownKind
<1> DEFINE Goal == r[2] = <<>> \/ \E d : r[2] = <<d>> /\ d.k \in DownKind
<1> SUFFICES Goal
  OBVIOUS
<1>1. ASSUME NEW s, NEW d, d.k \in DownKind, r = <<s, <<d>>>> PROVE Goal
  <2>1. r[2] = <<d>>
    BY <1>1
  <2> QED BY <1>1, <2>1
<1>2. ASSUME NEW s, r = <<s, <<>>>> PROVE Goal
  BY <1>2
<1> HIDE DEF Goal
<1>3. CASE m.k = "Handshake"
  <2>1. PICK d : r = <<sv, <<d>>>> /\ d.k = "HandshakeResponse"
    <3>1. PICK b \in BOOLEAN : r = <<sv, <<[Msg("HandshakeResponse") EXCEPT !.ok = b]>>>>
      BY <1>3 DEF Handled
    <3>2. [Msg("HandshakeResponse") EXCEPT !.ok = b].k = "HandshakeResponse"
      BY DEF Msg
    <3> QED BY <3>1, <3>2
  <2> QED BY <2>1, <1>1 DEF DownKind
<1>4. CASE m.k = "Authenticate"
  <2>1. \E s : \/ r = <<s, <<Msg("Error")>>>>
               \/ r = <<s, <<Msg("AuthResult")>>>>
               \/ r = <<s, <<Refuse("AuthResult", m)>>>>
    BY <1>4 DEF Handled
  <2> QED BY <2>1, <1>1, KindOfMessage DEF DownKind
<1>5. CASE m.k = "AttachWorld"
  <2> DEFINE d == [Msg("AttachResult") EXCEPT !.world = m.world]
  <2>1. \E s : \/ r = <<s, <<Msg("Error")>>>>
               \/ r = <<s, <<d>>>>
               \/ r = <<s, <<Refuse("AttachResult", m)>>>>
    BY <1>5 DEF Handled
  <2>2. d.k = "AttachResult"
    BY DEF d, Msg, Reply
  <2> HIDE DEF d
  <2> QED BY <2>1, <2>2, <1>1, KindOfMessage DEF DownKind
<1>6. CASE m.k = "DetachWorld"
  <2>1. \E s : r = <<s, <<Msg("Error")>>>> \/ r = <<s, <<Msg("DetachResult")>>>>
    BY <1>6 DEF Handled
  <2> QED BY <2>1, <1>1, KindOfMessage DEF DownKind
<1>7. CASE m.k = "Subscribe"
  <2> DEFINE d == [Reply("Snapshot", m) EXCEPT !.sub = nextSub[sv.world], !.world = sv.world]
  <2>1. \E s : \/ r = <<s, <<Reply("Error", m)>>>>
               \/ r = <<s, <<d>>>>
    BY <1>7 DEF Handled
  <2>2. d.k = "Snapshot"
    BY DEF d, Msg, Reply
  <2> HIDE DEF d
  <2> QED BY <2>1, <2>2, <1>1, KindOfMessage DEF DownKind
<1>8. CASE m.k = "Unsubscribe"
  <2>1. \E s : r = <<s, <<>>>> \/ r = <<s, <<Msg("Error")>>>>
    BY <1>8 DEF Handled
  <2> QED BY <2>1, <1>1, <1>2, KindOfMessage DEF DownKind
<1>9. CASE m.k = "Resync"
  <2> DEFINE d == [Msg("Snapshot") EXCEPT !.sub = m.sub, !.world = sv.world]
  <2>1. \E s : \/ r = <<s, <<d>>>>
               \/ r = <<s, <<Msg("Error")>>>>
    BY <1>9 DEF Handled
  <2>2. d.k = "Snapshot"
    BY DEF d, Msg, Reply
  <2> HIDE DEF d
  <2> QED BY <2>1, <2>2, <1>1, KindOfMessage DEF DownKind
<1>10. CASE m.k = "CallReducer"
  <2>1. \E s : \/ r = <<s, <<Refuse("ReducerResult", m)>>>> \/ r = <<s, <<>>>>
               \/ r = <<s, <<Msg("Error")>>>>
    BY <1>10 DEF Handled
  <2> QED BY <2>1, <1>1, <1>2, KindOfMessage DEF DownKind
<1> QED BY <1>3, <1>4, <1>5, <1>6, <1>7, <1>8, <1>9, <1>10 DEF UpKind
-----------------------------------------------------------------------------
(* The invariant *)

LEMMA ClientInvInit == ClientInit => ClientInv
<1> SUFFICES ASSUME ClientInit PROVE ClientInv
  OBVIOUS
<1>1. cl = NewClient /\ up = <<>> /\ down = <<>> /\ issued = {}
  BY DEF ClientInit
<1>2. IsClient(cl)
  BY <1>1 DEF NewClient, IsClient
<1>3. CallsResolveOnce
  BY <1>1 DEF NewClient, CallsResolveOnce
<1> QED BY <1>1, <1>2, <1>3, CarriesNothing DEF ClientInv

(* A step that keeps the balance and issues nothing. *)
LEMMA BalancedStep ==
    ASSUME ClientInv, Keeps(cl, cl'), issued' = issued, Carries(up', UpKind), Carries(down', DownKind)
    PROVE  ClientInv'
<1>1. \A r \in Request : Balance(cl', r) = Balance(cl, r)
  BY DEF Keeps
<1>2. CallsResolveOnce'
  BY <1>1 DEF ClientInv, CallsResolveOnce, Balance
<1>3. \A r \in issued' : r < cl'.nextReq
  BY DEF ClientInv, Keeps, IsClient, Request
<1> QED BY <1>2, <1>3 DEF ClientInv, Keeps

(* The two outcomes of a send. *)
LEMMA RefusedKeeps == ASSUME NEW c, IsClient(c) PROVE Keeps(c, AfterRefusal(c))
BY OtherFields DEF AfterRefusal

LEMMA SendStep ==
    ASSUME ClientInv, NEW m, m.k \in UpKind, NEW sent, NEW kept, Send(m, sent, kept),
           Keeps(cl, sent), Keeps(cl, kept), UNCHANGED <<down, issued>>
    PROVE  ClientInv'
<1>1. CASE Sent(m, sent)
  <2>1. cl' = sent /\ Carries(up', UpKind)
    BY <1>1, CarriesMore DEF Sent, ClientInv
  <2> QED BY <2>1, BalancedStep DEF ClientInv
<1>2. CASE Refused(kept)
  <2>1. Keeps(cl, cl') /\ up' = up
    BY <1>2, RefusedKeeps, KeepsTransitive DEF Refused, Keeps
  <2> QED BY <2>1, BalancedStep DEF ClientInv
<1> QED BY <1>1, <1>2 DEF Send

LEMMA ConnectionStep ==
    ASSUME ClientInv, Connect \/ Reconnect \/ Disconnect
    PROVE  ClientInv'
<1>0. IsClient(cl)
  BY DEF ClientInv
<1>1. ASSUME NEW c, Keeps(cl, c), Fresh(c) PROVE ClientInv'
  <2>1. Keeps(cl, cl')
    <3>1. cl' = [c EXCEPT !.tclosed = FALSE, !.broken = FALSE] /\ IsClient(c)
      BY <1>1 DEF Fresh, Keeps
    <3>2. Keeps(c, cl')
      BY <3>1, OtherFields
    <3> QED BY <3>2, <1>1, KeepsTransitive
  <2>2. Carries(up', UpKind)
    <3> DEFINE m == Msg("Handshake")
    <3>1. up' = Append(<<>>, m)
      BY <1>1 DEF Fresh
    <3>2. m.k \in UpKind
      BY DEF Msg, UpKind
    <3> HIDE DEF m
    <3>3. Carries(Append(<<>>, m), UpKind)
      BY <3>2, CarriesNothing, CarriesMore
    <3> QED BY <3>1, <3>3
  <2>3. Carries(down', DownKind) /\ issued' = issued
    BY <1>1, CarriesNothing DEF Fresh
  <2> QED BY <2>1, <2>2, <2>3, BalancedStep
<1>2. CASE Connect
  BY <1>0, <1>1, <1>2, OtherField DEF Connect
<1>3. CASE Reconnect
  <2>1. Keeps(cl, Ended(cl)) /\ IsClient(Ended(cl))
    BY <1>0, EndedKeeps DEF Keeps
  <2>2. Keeps(cl, [Ended(cl) EXCEPT !.state = "Reconnecting"])
    BY <2>1, OtherField, KeepsTransitive
  <2> QED BY <1>1, <1>3, <2>2 DEF Reconnect
<1>4. CASE Disconnect
  <2>1. Keeps(cl, cl') /\ UNCHANGED <<up, down, issued>>
    BY <1>0, <1>4, EndedKeeps DEF Disconnect
  <2> QED BY <2>1, BalancedStep DEF ClientInv
<1> QED BY <1>2, <1>3, <1>4

LEMMA RequestStep ==
    ASSUME ClientInv,
           Authenticate \/ Detach \/ (\E w \in World : Attach(w))
               \/ (\E l \in Local : Unsubscribe(l) \/ Resync(l))
    PROVE  ClientInv'
<1>0. IsClient(cl) /\ Keeps(cl, cl)
  BY KeepsItself DEF ClientInv
<1>1. CASE Authenticate
  BY <1>0, <1>1, SendStep, KindOfMessage DEF Authenticate, UpKind
<1>2. CASE Detach
  BY <1>0, <1>2, SendStep, KindOfMessage DEF Detach, UpKind
<1>3. CASE \E w \in World : Attach(w)
  <2>1. PICK w \in World : Attach(w)
    BY <1>3
  <2> DEFINE m == [Msg("AttachWorld") EXCEPT !.world = w]
  <2>2. m.k \in UpKind
    BY DEF Msg, UpKind
  <2>3. Send(m, cl, cl) /\ UNCHANGED <<down, issued>>
    BY <2>1 DEF Attach
  <2> HIDE DEF m
  <2> QED BY <1>0, <2>2, <2>3, SendStep
<1>4. CASE \E l \in Local : Resync(l)
  <2>1. PICK l \in Local : Resync(l)
    BY <1>4
  <2> DEFINE m == [Msg("Resync") EXCEPT !.sub = cl.handles[l].server]
  <2>2. m.k \in UpKind
    BY DEF Msg, UpKind
  <2>3. Send(m, cl, cl) /\ UNCHANGED <<down, issued>>
    BY <2>1 DEF Resync
  <2> HIDE DEF m
  <2> QED BY <1>0, <2>2, <2>3, SendStep
<1>5. CASE \E l \in Local : Unsubscribe(l)
  <2>1. PICK l \in Local : Unsubscribe(l)
    BY <1>5
  <2> DEFINE m == [Msg("Unsubscribe") EXCEPT !.sub = cl.handles[l].server]
             d == [cl EXCEPT !.handles = WithoutHandle(@, l), !.pendSubs = {p \in @ : p[2] # l}]
  <2>2. m.k \in UpKind
    BY DEF Msg, UpKind
  <2>3. Send(m, d, cl) /\ UNCHANGED <<down, issued>>
    BY <2>1 DEF Unsubscribe
  <2>4. Keeps(cl, d)
    <3> DEFINE h == [cl EXCEPT !.handles = WithoutHandle(@, l)]
    <3>1. Keeps(cl, h)
      BY <1>0, OtherField
    <3>2. PICK ps : d = [h EXCEPT !.pendSubs = ps]
      BY <1>0 DEF IsClient
    <3> HIDE DEF h, d
    <3>3. IsClient(h)
      BY <3>1 DEF Keeps
    <3>4. Keeps(h, d)
      BY <3>2, <3>3, OtherField
    <3> QED BY <3>1, <3>4, KeepsTransitive
  <2> HIDE DEF m, d
  <2> QED BY <1>0, <2>2, <2>3, <2>4, SendStep
<1> QED BY <1>1, <1>2, <1>3, <1>4, <1>5

(* The id of a request that is only taken: subscribe, and a refused call. *)
LEMMA NextRequestKeeps ==
    ASSUME NEW c, IsClient(c)
    PROVE  Keeps(c, [c EXCEPT !.nextReq = @ + 1])
<1> DEFINE d == [c EXCEPT !.nextReq = @ + 1]
<1>1. c.nextReq \in Nat
  BY DEF IsClient
<1>2. /\ d.nextReq = c.nextReq + 1 /\ d.calls = c.calls /\ d.results = c.results
      /\ d = [state |-> d.state, tclosed |-> d.tclosed, broken |-> d.broken, session |-> d.session,
              nextReq |-> d.nextReq, nextLocal |-> d.nextLocal, calls |-> d.calls,
              results |-> d.results, pendSubs |-> d.pendSubs, handles |-> d.handles]
  BY DEF IsClient
<1> HIDE DEF d
<1>3. IsClient(d)
  BY <1>1, <1>2 DEF IsClient
<1>4. Keeps(c, d)
  BY <1>1, <1>2, <1>3 DEF Keeps, Balance
<1> QED BY <1>4 DEF d

LEMMA SubscribeStep == ASSUME ClientInv, Subscribe PROVE ClientInv'
<1> DEFINE d == [cl EXCEPT !.nextReq = @ + 1]
           kept == [cl EXCEPT !.nextReq = @ + 1, !.nextLocal = @ + 1]
           sent == [kept EXCEPT !.pendSubs = @ \cup {<<cl.nextReq, cl.nextLocal>>},
                                !.handles = WithHandle(@, cl.nextLocal, NewHandle)]
           m == [Msg("Subscribe") EXCEPT !.req = cl.nextReq]
<1>1. Keeps(cl, d) /\ IsClient(cl)
  BY NextRequestKeeps DEF ClientInv, Keeps
<1>2. kept = [d EXCEPT !.nextLocal = cl.nextLocal + 1]
  BY <1>1 DEF IsClient
<1>3. m.k \in UpKind
  BY DEF Msg, UpKind
<1>4. Send(m, sent, kept) /\ UNCHANGED <<down, issued>>
  BY DEF Subscribe
<1>5. PICK ps, hs : sent = [kept EXCEPT !.pendSubs = ps, !.handles = hs]
  OBVIOUS
<1> HIDE DEF d, kept, sent, m
<1>6. IsClient(d)
  BY <1>1 DEF Keeps
<1>7. Keeps(d, kept)
  <2>1. kept = [state |-> d.state, tclosed |-> d.tclosed, broken |-> d.broken, session |-> d.session,
                nextReq |-> d.nextReq, nextLocal |-> cl.nextLocal + 1, calls |-> d.calls,
                results |-> d.results, pendSubs |-> d.pendSubs, handles |-> d.handles]
    BY <1>2, <1>6 DEF IsClient
  <2> QED BY <2>1, <1>6, SameCalls
<1>8. Keeps(cl, kept) /\ IsClient(kept)
  BY <1>1, <1>7, KeepsTransitive DEF Keeps
<1>9. Keeps(kept, sent)
  BY <1>5, <1>8, OtherFields
<1>10. Keeps(cl, sent)
  BY <1>8, <1>9, KeepsTransitive
<1> QED BY <1>3, <1>4, <1>8, <1>10, SendStep

(* A call that is sent: a fresh id, pending from now on. *)
LEMMA CallStep == ASSUME ClientInv, CallReducer PROVE ClientInv'
<1> DEFINE kept == [cl EXCEPT !.nextReq = @ + 1]
           m == [Msg("CallReducer") EXCEPT !.req = cl.nextReq]
<1>1. Keeps(cl, kept) /\ IsClient(cl)
  BY NextRequestKeeps DEF ClientInv, Keeps
<1>2. m.k \in UpKind
  BY DEF Msg, UpKind
<1>3. down' = down /\ cl.nextReq \in Request
  BY DEF CallReducer
<1>4. CASE Refused(kept) /\ UNCHANGED issued
  <2> HIDE DEF kept
  <2>1. Send(m, kept, kept)
    BY <1>4 DEF Send
  <2> QED BY <2>1, <1>1, <1>2, <1>3, <1>4, SendStep
<1>5. CASE Sent(m, [kept EXCEPT !.calls = @ \cup {cl.nextReq}]) /\ issued' = issued \cup {cl.nextReq}
  <2> DEFINE q == cl.nextReq
  <2>1. cl' = [cl EXCEPT !.nextReq = q + 1, !.calls = cl.calls \cup {q}]
    BY <1>1, <1>5 DEF Sent, IsClient
  <2>2. q \in Nat /\ cl.calls \in SUBSET Request /\ cl.results \in [Request -> Nat]
    BY <1>1 DEF IsClient
  <2>3. cl'.nextReq = q + 1 /\ cl'.calls = cl.calls \cup {q} /\ cl'.results = cl.results /\ IsClient(cl')
    <3>1. /\ cl'.nextReq = q + 1 /\ cl'.calls = cl.calls \cup {q} /\ cl'.results = cl.results
          /\ cl' = [state |-> cl'.state, tclosed |-> cl'.tclosed, broken |-> cl'.broken, session |-> cl'.session,
                    nextReq |-> cl'.nextReq, nextLocal |-> cl'.nextLocal, calls |-> cl'.calls,
                    results |-> cl'.results, pendSubs |-> cl'.pendSubs, handles |-> cl'.handles]
      BY <1>1, <2>1 DEF IsClient
    <3> QED BY <3>1, <2>2, <1>3 DEF IsClient
  <2>4. Carries(up', UpKind)
    <3> HIDE DEF m
    <3> QED BY <1>2, <1>5, CarriesMore DEF Sent, ClientInv
  <2>5. q \notin issued
    BY <2>2 DEF ClientInv
  <2>6. CallsResolveOnce'
    <3> SUFFICES ASSUME NEW r \in Request
                 PROVE  (IF r \in cl'.calls THEN 1 ELSE 0) + cl'.results[r] = IF r \in issued' THEN 1 ELSE 0
      BY DEF CallsResolveOnce
    <3>1. (IF r \in cl.calls THEN 1 ELSE 0) + cl.results[r] = IF r \in issued THEN 1 ELSE 0
      BY DEF ClientInv, CallsResolveOnce
    <3>2. cl.results[r] \in Nat
      BY <2>2
    <3>3. r = q => r \notin cl.calls /\ cl.results[r] = 0
      BY <3>1, <3>2, <2>5
    <3> QED BY <3>1, <3>2, <3>3, <2>3, <1>5
  <2>7. issued' \in SUBSET Request /\ \A r \in issued' : r < cl'.nextReq
    BY <1>3, <1>5, <2>2, <2>3 DEF ClientInv, Request
  <2> QED BY <2>3, <2>4, <2>6, <2>7, <1>3 DEF ClientInv
<1> QED BY <1>4, <1>5 DEF CallReducer

LEMMA PumpStep == ASSUME ClientInv, Pump PROVE ClientInv'
<1>1. IsClient(cl) /\ Len(down) \in Nat /\ \A i \in 1..Len(down) : down[i].k \in DownKind
  BY CarriesEach DEF ClientInv
<1>2. UNCHANGED <<up, issued>> /\ down' = <<>>
  BY DEF Pump
<1>3. PICK n \in 0..Len(down) :
        \/ cl' = Dispatched(cl, down, n)
        \/ cl' = TransitionToClosed(Dispatched(cl, down, n))
        \/ cl' = [Dispatched(cl, down, n) EXCEPT !.broken = TRUE]
  BY <1>1 DEF Pump
<1> DEFINE seen == Dispatched(cl, down, n)
<1>4. Keeps(cl, seen)
  <2>1. n \in Nat /\ \A i \in 1..n : down[i].k \in DownKind
    BY <1>1
  <2> QED BY <2>1, <1>1, DispatchedKeeps
<1>5. cl' = seen \/ cl' = TransitionToClosed(seen) \/ cl' = [seen EXCEPT !.broken = TRUE]
  BY <1>3
<1> HIDE DEF seen
<1>6. Keeps(cl, cl')
  <2>1. IsClient(seen)
    BY <1>4 DEF Keeps
  <2>2. Keeps(seen, TransitionToClosed(seen)) /\ Keeps(seen, [seen EXCEPT !.broken = TRUE])
    BY <2>1, EndedKeeps, OtherField
  <2>3. Keeps(cl, TransitionToClosed(seen)) /\ Keeps(cl, [seen EXCEPT !.broken = TRUE])
    BY <1>4, <2>2, KeepsTransitive
  <2> QED BY <1>4, <1>5, <2>3
<1> QED BY <1>2, <1>6, BalancedStep, CarriesNothing DEF ClientInv

(* What a send leaves in the queue. *)
LEMMA SendsCarry ==
    ASSUME NEW s, NEW d, NEW m, NEW o \in Sends(s, d, m), Carries(d, DownKind), m.k \in DownKind
    PROVE  Carries(o[2], DownKind)
<1>1. o[2] = d \/ o[2] = Append(d, m)
  BY DEF Sends
<1> QED BY <1>1, CarriesMore

LEMMA ServeStep == ASSUME ClientInv, Serve PROVE ClientInv'
<1>1. up # <<>> /\ up' = Tail(up) /\ UNCHANGED <<cl, issued>>
  BY DEF Serve, CanServe
<1>2. PICK r \in Handled(Head(up)) :
        \/ r[2] = <<>> /\ down' = down
        \/ r[2] # <<>> /\ \E o \in Sends(r[1], down, r[2][1]) : down' = o[2]
  BY DEF Serve
<1>3. Carries(up', UpKind) /\ Head(up).k \in UpKind
  BY <1>1, CarriesRest DEF ClientInv
<1>4. Carries(down', DownKind)
  <2>1. r[2] = <<>> \/ \E d : r[2] = <<d>> /\ d.k \in DownKind
    BY <1>3, AnswersAreKnown
  <2>2. CASE r[2] = <<>>
    BY <2>2, <1>2 DEF ClientInv
  <2>3. CASE r[2] # <<>>
    <3>1. r[2][1].k \in DownKind
      BY <2>1, <2>3
    <3> QED BY <3>1, <2>3, <1>2, SendsCarry DEF ClientInv
  <2> QED BY <2>2, <2>3
<1>5. Keeps(cl, cl')
  BY <1>1, KeepsItself DEF ClientInv
<1> QED BY <1>1, <1>3, <1>4, <1>5, BalancedStep

LEMMA GatewayStep ==
    ASSUME ClientInv, Answer \/ Update \/ Broadcast \/ Drop
    PROVE  ClientInv'
<1>1. UNCHANGED <<cl, up, issued>>
  BY DEF Answer, Update, Broadcast, Drop
<1>2. Carries(down, DownKind)
  BY DEF ClientInv
<1>3. Carries(down', DownKind)
  <2>1. CASE Answer
    <3>1. PICK r \in sv.calls, b \in BOOLEAN :
            \E o \in Sends([sv EXCEPT !.calls = @ \ {r}], down,
                          [Msg("ReducerResult") EXCEPT !.req = r, !.ok = b]) : down' = o[2]
      BY <2>1 DEF Answer
    <3> DEFINE m == [Msg("ReducerResult") EXCEPT !.req = r, !.ok = b]
    <3>2. m.k \in DownKind
      BY DEF Msg, DownKind
    <3>3. PICK o \in Sends([sv EXCEPT !.calls = @ \ {r}], down, m) : down' = o[2]
      BY <3>1
    <3> HIDE DEF m
    <3> QED BY <3>2, <3>3, <1>2, SendsCarry
  <2>2. CASE Update
    <3>1. PICK s \in sv.subs, k \in {"Delta", "Stale"} :
            \E o \in Sends(sv, down, [Msg(k) EXCEPT !.sub = s, !.world = sv.world]) : down' = o[2]
      BY <2>2 DEF Update
    <3> DEFINE m == [Msg(k) EXCEPT !.sub = s, !.world = sv.world]
    <3>2. m.k = k
      BY DEF Msg
    <3>3. m.k \in DownKind
      BY <3>2 DEF DownKind
    <3>4. PICK o \in Sends(sv, down, m) : down' = o[2]
      BY <3>1
    <3> HIDE DEF m
    <3> QED BY <3>3, <3>4, <1>2, SendsCarry
  <2>3. CASE Broadcast
    <3> DEFINE m == Msg("TickUpdate")
    <3>1. m.k \in DownKind
      BY DEF Msg, DownKind
    <3>2. PICK o \in Sends(sv, down, m) : down' = o[2]
      BY <2>3 DEF Broadcast
    <3> HIDE DEF m
    <3> QED BY <3>1, <3>2, <1>2, SendsCarry
  <2>4. CASE Drop
    <3> DEFINE m == Msg("Disconnect")
    <3>1. m.k \in DownKind
      BY DEF Msg, DownKind
    <3>2. down' = down \/ down' = Append(down, m)
      BY <2>4 DEF Drop
    <3> HIDE DEF m
    <3> QED BY <3>1, <3>2, <1>2, CarriesMore
  <2> QED BY <2>1, <2>2, <2>3, <2>4
<1>4. Keeps(cl, cl')
  BY <1>1, KeepsItself DEF ClientInv
<1> QED BY <1>1, <1>3, <1>4, BalancedStep DEF ClientInv

(* Every reducer call the program holds an id for is pending or has        *)
(* exactly one result: in pump (whatever a batch of messages holds), in    *)
(* fail_pending_calls, and whichever way an attachment or a connection     *)
(* ends and a new one begins.                                              *)
THEOREM EveryCallResolvesOnce == ClientSpec => []CallsResolveOnce
<1>1. ClientInv /\ [ClientNext]_clientVars => ClientInv'
  <2> SUFFICES ASSUME ClientInv, [ClientNext]_clientVars PROVE ClientInv'
    OBVIOUS
  <2>1. CASE UNCHANGED clientVars
    BY <2>1, KeepsItself, BalancedStep DEF clientVars, ClientInv
  <2> QED BY <2>1, ConnectionStep, RequestStep, SubscribeStep, CallStep, PumpStep, ServeStep, GatewayStep
          DEF ClientNext
<1>2. ClientInv => CallsResolveOnce
  BY DEF ClientInv
<1> QED BY <1>1, <1>2, ClientInvInit, PTL DEF ClientSpec
=============================================================================
