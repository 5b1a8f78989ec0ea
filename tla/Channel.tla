------------------------------- MODULE Channel -------------------------------
(***************************************************************************)
(* What an in-process link promises: first-in first-out queues that share  *)
(* one limit.  A sender that is accepted puts its item at the back of its  *)
(* queue, the receiver takes the front of a queue, and nothing else        *)
(* happens to an item.                                                     *)
(***************************************************************************)
EXTENDS Naturals, Sequences

CONSTANTS Queue, Item, Limit

VARIABLES
    queue, taken,
    load         \* how many items are in flight over all queues

chanVars == <<queue, taken, load>>

ChanInit == /\ queue = [q \in Queue |-> <<>>]
            /\ taken = [q \in Queue |-> <<>>]
            /\ load = 0

Put(q, i) == /\ load < Limit
             /\ load' = load + 1
             /\ queue' = [queue EXCEPT ![q] = Append(@, i)]
             /\ UNCHANGED taken

Take(q) == /\ queue[q] # <<>>
           /\ load' = load - 1
           /\ taken' = [taken EXCEPT ![q] = Append(@, Head(queue[q]))]
           /\ queue' = [queue EXCEPT ![q] = Tail(@)]

ChanNext == \E q \in Queue : Take(q) \/ \E i \in Item : Put(q, i)

ChanSpec == ChanInit /\ [][ChanNext]_chanVars
=============================================================================
