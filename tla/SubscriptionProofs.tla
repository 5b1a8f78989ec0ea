------------------------- MODULE SubscriptionProofs -------------------------
(***************************************************************************)
(* Proofs about subscriptions and the views of the client SDK, for every   *)
(* number of rows, queries, subscriptions and commits.                     *)
(*                                                                         *)
(* A shared view is characterised without counting: what is visible lies   *)
(* before what is not, and there are cap rows of it or all there are       *)
(* (IsTop).  Each branch of sync_window keeps this for windows of two or   *)
(* more; in a window of one it keeps one row of those there are (One).     *)
(* Either way the updates it announces turn the rows shown before into the *)
(* rows shown after.                                                       *)
(***************************************************************************)
EXTENDS ClientView, Induction, SequenceTheorems, FiniteSetTheorems

-----------------------------------------------------------------------------
(* The loops have the values their recursion says. *)

(* apply_changes, change by change. *)
LEMMA ApplySteps ==
    ASSUME NEW q, NEW view, NEW changes, NEW seq, NEW len \in Nat
    PROVE  /\ ApplyFirst(q, view, changes, seq, 0)
                = [window |-> view.window, visible |-> view.visible, out |-> <<>>]
           /\ ApplyFirst(q, view, changes, seq, len + 1)
                = NextChange(q, ApplyFirst(q, view, changes, seq, len), changes[len + 1], seq)
<1> DEFINE Start == [window |-> view.window, visible |-> view.visible, out |-> <<>>]
           Step(x, i) == NextChange(q, x, changes[i], seq)
           Runs(g, k) == g = [i \in 0 .. k |-> IF i = 0 THEN Start ELSE Step(g[i - 1], i)]
           Exist == {k \in Nat : \E g : Runs(g, k)}
           run(k) == CHOOSE g : Runs(g, k)
<1>1. ASSUME NEW k \in Nat PROVE ApplyFirst(q, view, changes, seq, k) = run(k)[k]
  BY DEF ApplyFirst
<1> HIDE DEF Start, Step
<1>2. 0 \in Exist
  <2>1. Runs([i \in 0 .. 0 |-> Start], 0)
    OBVIOUS
  <2> QED BY <2>1
<1>3. ASSUME NEW k \in Nat, k \in Exist PROVE k + 1 \in Exist
  <2>1. PICK g : Runs(g, k)
    BY <1>3
  <2> DEFINE h == [i \in 0 .. k + 1 |-> IF i <= k THEN g[i] ELSE Step(g[k], k + 1)]
  <2>2. ASSUME NEW i \in 0 .. k + 1
        PROVE  h[i] = IF i = 0 THEN Start ELSE Step(h[i - 1], i)
    <3>1. CASE i = 0
      <4>1. h[0] = g[0] /\ g[0] = Start
        BY <2>1
      <4> QED BY <3>1, <4>1
    <3>2. CASE i \in 1 .. k
      <4>1. i - 1 \in 0 .. k /\ i \in 0 .. k /\ i # 0
        BY <3>2
      <4>2. h[i] = g[i] /\ h[i - 1] = g[i - 1]
        BY <4>1
      <4>3. g[i] = Step(g[i - 1], i)
        BY <2>1, <4>1
      <4> QED BY <4>1, <4>2, <4>3
    <3>3. CASE i = k + 1
      <4>1. h[i] = Step(g[k], k + 1) /\ h[i - 1] = g[k] /\ i # 0
        BY <3>3
      <4> QED BY <3>3, <4>1
    <3> QED BY <3>1, <3>2, <3>3
  <2>3. Runs(h, k + 1)
    BY <2>2, Zenon
  <2> HIDE DEF h, Runs
  <2> QED BY <2>3
<1>4. \A k \in Nat : \E g : Runs(g, k)
  <2> HIDE DEF Exist
  <2>1. Nat \subseteq Exist
    BY <1>2, <1>3, InductionOnNat
  <2> QED BY <2>1 DEF Exist
<1>5. ASSUME NEW k \in Nat PROVE Runs(run(k), k)
  <2> HIDE DEF Runs
  <2> QED BY <1>4
<1> HIDE DEF run
<1>6. ASSUME NEW k \in Nat PROVE run(k)[0] = Start
  BY <1>5
<1>7. ASSUME NEW k \in Nat, NEW i \in 1 .. k
      PROVE  run(k)[i] = Step(run(k)[i - 1], i)
  <2>1. i \in 0 .. k /\ i # 0
    OBVIOUS
  <2> QED BY <1>5, <2>1
<1>8. ASSUME NEW n \in Nat PROVE run(n + 1)[n] = run(n)[n]
  <2> DEFINE Same == {k \in Nat : k <= n => run(n + 1)[k] = run(n)[k]}
  <2>1. 0 \in Same
    BY <1>6
  <2>2. ASSUME NEW k \in Nat, k \in Same PROVE k + 1 \in Same
    <3> SUFFICES ASSUME k + 1 <= n PROVE run(n + 1)[k + 1] = run(n)[k + 1]
      OBVIOUS
    <3>1. k + 1 \in 1 .. n /\ k + 1 \in 1 .. n + 1 /\ (k + 1) - 1 = k
      OBVIOUS
    <3>2. run(n + 1)[k] = run(n)[k]
      BY <2>2
    <3> QED BY <1>7, <3>1, <3>2
  <2>3. n \in Same
    <3> HIDE DEF Same
    <3> QED BY <2>1, <2>2, InductionOnNat
  <2> QED BY <2>3
<1>9. ASSUME NEW n \in Nat PROVE ApplyFirst(q, view, changes, seq, n + 1) = Step(ApplyFirst(q, view, changes, seq, n), n + 1)
  <2>1. n + 1 \in Nat /\ n + 1 \in 1 .. n + 1 /\ (n + 1) - 1 = n
    OBVIOUS
  <2>2. run(n + 1)[n + 1] = Step(run(n + 1)[n], n + 1)
    BY <1>7, <2>1
  <2> QED BY <1>1, <1>8, <2>1, <2>2
<1>10. ApplyFirst(q, view, changes, seq, 0) = Start
  BY <1>1, <1>6
<1> QED BY <1>9, <1>10 DEF Start, Step

(* The consumer, update by update. *)
LEMMA ReplaySteps ==
    ASSUME NEW held, NEW updates
    PROVE  /\ ReplayFirst(held, updates, 0) = held
           /\ \A n \in Nat : ReplayFirst(held, updates, n + 1) = Replay(ReplayFirst(held, updates, n), updates[n + 1])
<1> DEFINE Start == held
           Step(x, i) == Replay(x, updates[i])
           Runs(g, k) == g = [i \in 0 .. k |-> IF i = 0 THEN Start ELSE Step(g[i - 1], i)]
           Exist == {k \in Nat : \E g : Runs(g, k)}
           run(k) == CHOOSE g : Runs(g, k)
<1>1. ASSUME NEW k \in Nat PROVE ReplayFirst(held, updates, k) = run(k)[k]
  BY DEF ReplayFirst
<1> HIDE DEF Start, Step
<1>2. 0 \in Exist
  <2>1. Runs([i \in 0 .. 0 |-> Start], 0)
    OBVIOUS
  <2> QED BY <2>1
<1>3. ASSUME NEW k \in Nat, k \in Exist PROVE k + 1 \in Exist
  <2>1. PICK g : Runs(g, k)
    BY <1>3
  <2> DEFINE h == [i \in 0 .. k + 1 |-> IF i <= k THEN g[i] ELSE Step(g[k], k + 1)]
  <2>2. ASSUME NEW i \in 0 .. k + 1
        PROVE  h[i] = IF i = 0 THEN Start ELSE Step(h[i - 1], i)
    <3>1. CASE i = 0
      <4>1. h[0] = g[0] /\ g[0] = Start
        BY <2>1
      <4> QED BY <3>1, <4>1
    <3>2. CASE i \in 1 .. k
      <4>1. i - 1 \in 0 .. k /\ i \in 0 .. k /\ i # 0
        BY <3>2
      <4>2. h[i] = g[i] /\ h[i - 1] = g[i - 1]
        BY <4>1
      <4>3. g[i] = Step(g[i - 1], i)
        BY <2>1, <4>1
      <4> QED BY <4>1, <4>2, <4>3
    <3>3. CASE i = k + 1
      <4>1. h[i] = Step(g[k], k + 1) /\ h[i - 1] = g[k] /\ i # 0
        BY <3>3
      <4> QED BY <3>3, <4>1
    <3> QED BY <3>1, <3>2, <3>3
  <2>3. Runs(h, k + 1)
    BY <2>2, Zenon
  <2> HIDE DEF h, Runs
  <2> QED BY <2>3
<1>4. \A k \in Nat : \E g : Runs(g, k)
  <2> HIDE DEF Exist
  <2>1. Nat \subseteq Exist
    BY <1>2, <1>3, InductionOnNat
  <2> QED BY <2>1 DEF Exist
<1>5. ASSUME NEW k \in Nat PROVE Runs(run(k), k)
  <2> HIDE DEF Runs
  <2> QED BY <1>4
<1> HIDE DEF run
<1>6. ASSUME NEW k \in Nat PROVE run(k)[0] = Start
  BY <1>5
<1>7. ASSUME NEW k \in Nat, NEW i \in 1 .. k
      PROVE  run(k)[i] = Step(run(k)[i - 1], i)
  <2>1. i \in 0 .. k /\ i # 0
    OBVIOUS
  <2> QED BY <1>5, <2>1
<1>8. ASSUME NEW n \in Nat PROVE run(n + 1)[n] = run(n)[n]
  <2> DEFINE Same == {k \in Nat : k <= n => run(n + 1)[k] = run(n)[k]}
  <2>1. 0 \in Same
    BY <1>6
  <2>2. ASSUME NEW k \in Nat, k \in Same PROVE k + 1 \in Same
    <3> SUFFICES ASSUME k + 1 <= n PROVE run(n + 1)[k + 1] = run(n)[k + 1]
      OBVIOUS
    <3>1. k + 1 \in 1 .. n /\ k + 1 \in 1 .. n + 1 /\ (k + 1) - 1 = k
      OBVIOUS
    <3>2. run(n + 1)[k] = run(n)[k]
      BY <2>2
    <3> QED BY <1>7, <3>1, <3>2
  <2>3. n \in Same
    <3> HIDE DEF Same
    <3> QED BY <2>1, <2>2, InductionOnNat
  <2> QED BY <2>3
<1>9. ASSUME NEW n \in Nat PROVE ReplayFirst(held, updates, n + 1) = Step(ReplayFirst(held, updates, n), n + 1)
  <2>1. n + 1 \in Nat /\ n + 1 \in 1 .. n + 1 /\ (n + 1) - 1 = n
    OBVIOUS
  <2>2. run(n + 1)[n + 1] = Step(run(n + 1)[n], n + 1)
    BY <1>7, <2>1
  <2> QED BY <1>1, <1>8, <2>1, <2>2
<1>10. ReplayFirst(held, updates, 0) = Start
  BY <1>1, <1>6
<1> QED BY <1>9, <1>10 DEF Start, Step

(* The SDK, update by update. *)
LEMMA ReceiveSteps ==
    ASSUME NEW view, NEW updates
    PROVE  /\ ReceiveFirst(view, updates, 0) = view
           /\ \A n \in Nat : ReceiveFirst(view, updates, n + 1) = Receive(ReceiveFirst(view, updates, n), updates[n + 1])
<1> DEFINE Start == view
           Step(x, i) == Receive(x, updates[i])
           Runs(g, k) == g = [i \in 0 .. k |-> IF i = 0 THEN Start ELSE Step(g[i - 1], i)]
           Exist == {k \in Nat : \E g : Runs(g, k)}
           run(k) == CHOOSE g : Runs(g, k)
<1>1. ASSUME NEW k \in Nat PROVE ReceiveFirst(view, updates, k) = run(k)[k]
  BY DEF ReceiveFirst
<1> HIDE DEF Start, Step
<1>2. 0 \in Exist
  <2>1. Runs([i \in 0 .. 0 |-> Start], 0)
    OBVIOUS
  <2> QED BY <2>1
<1>3. ASSUME NEW k \in Nat, k \in Exist PROVE k + 1 \in Exist
  <2>1. PICK g : Runs(g, k)
    BY <1>3
  <2> DEFINE h == [i \in 0 .. k + 1 |-> IF i <= k THEN g[i] ELSE Step(g[k], k + 1)]
  <2>2. ASSUME NEW i \in 0 .. k + 1
        PROVE  h[i] = IF i = 0 THEN Start ELSE Step(h[i - 1], i)
    <3>1. CASE i = 0
      <4>1. h[0] = g[0] /\ g[0] = Start
        BY <2>1
      <4> QED BY <3>1, <4>1
    <3>2. CASE i \in 1 .. k
      <4>1. i - 1 \in 0 .. k /\ i \in 0 .. k /\ i # 0
        BY <3>2
      <4>2. h[i] = g[i] /\ h[i - 1] = g[i - 1]
        BY <4>1
      <4>3. g[i] = Step(g[i - 1], i)
        BY <2>1, <4>1
      <4> QED BY <4>1, <4>2, <4>3
    <3>3. CASE i = k + 1
      <4>1. h[i] = Step(g[k], k + 1) /\ h[i - 1] = g[k] /\ i # 0
        BY <3>3
      <4> QED BY <3>3, <4>1
    <3> QED BY <3>1, <3>2, <3>3
  <2>3. Runs(h, k + 1)
    BY <2>2, Zenon
  <2> HIDE DEF h, Runs
  <2> QED BY <2>3
<1>4. \A k \in Nat : \E g : Runs(g, k)
  <2> HIDE DEF Exist
  <2>1. Nat \subseteq Exist
    BY <1>2, <1>3, InductionOnNat
  <2> QED BY <2>1 DEF Exist
<1>5. ASSUME NEW k \in Nat PROVE Runs(run(k), k)
  <2> HIDE DEF Runs
  <2> QED BY <1>4
<1> HIDE DEF run
<1>6. ASSUME NEW k \in Nat PROVE run(k)[0] = Start
  BY <1>5
<1>7. ASSUME NEW k \in Nat, NEW i \in 1 .. k
      PROVE  run(k)[i] = Step(run(k)[i - 1], i)
  <2>1. i \in 0 .. k /\ i # 0
    OBVIOUS
  <2> QED BY <1>5, <2>1
<1>8. ASSUME NEW n \in Nat PROVE run(n + 1)[n] = run(n)[n]
  <2> DEFINE Same == {k \in Nat : k <= n => run(n + 1)[k] = run(n)[k]}
  <2>1. 0 \in Same
    BY <1>6
  <2>2. ASSUME NEW k \in Nat, k \in Same PROVE k + 1 \in Same
    <3> SUFFICES ASSUME k + 1 <= n PROVE run(n + 1)[k + 1] = run(n)[k + 1]
      OBVIOUS
    <3>1. k + 1 \in 1 .. n /\ k + 1 \in 1 .. n + 1 /\ (k + 1) - 1 = k
      OBVIOUS
    <3>2. run(n + 1)[k] = run(n)[k]
      BY <2>2
    <3> QED BY <1>7, <3>1, <3>2
  <2>3. n \in Same
    <3> HIDE DEF Same
    <3> QED BY <2>1, <2>2, InductionOnNat
  <2> QED BY <2>3
<1>9. ASSUME NEW n \in Nat PROVE ReceiveFirst(view, updates, n + 1) = Step(ReceiveFirst(view, updates, n), n + 1)
  <2>1. n + 1 \in Nat /\ n + 1 \in 1 .. n + 1 /\ (n + 1) - 1 = n
    OBVIOUS
  <2>2. run(n + 1)[n + 1] = Step(run(n + 1)[n], n + 1)
    BY <1>7, <2>1
  <2> QED BY <1>1, <1>8, <2>1, <2>2
<1>10. ReceiveFirst(view, updates, 0) = Start
  BY <1>1, <1>6
<1> QED BY <1>9, <1>10 DEF Start, Step

(* What is replayed in two parts. *)
LEMMA ReplaySame ==
    ASSUME NEW h, NEW a, NEW b, NEW l \in Nat, \A i \in 1 .. l : a[i] = b[i]
    PROVE  ReplayFirst(h, a, l) = ReplayFirst(h, b, l)
<1> DEFINE S == {i \in 0 .. l : ReplayFirst(h, a, i) = ReplayFirst(h, b, i)}
<1>1. 0 \in S
  BY ReplaySteps
<1>2. ASSUME NEW i \in 1 .. l, i - 1 \in S PROVE i \in S
  <2>1. i - 1 \in Nat /\ (i - 1) + 1 = i /\ i \in 0 .. l
    OBVIOUS
  <2>2. /\ ReplayFirst(h, a, i) = Replay(ReplayFirst(h, a, i - 1), a[i])
        /\ ReplayFirst(h, b, i) = Replay(ReplayFirst(h, b, i - 1), b[i])
    <3>1. PICK j \in Nat : j = i - 1 /\ j + 1 = i
      BY <2>1
    <3>2. ReplayFirst(h, a, j + 1) = Replay(ReplayFirst(h, a, j), a[j + 1])
      BY ReplaySteps
    <3>3. ReplayFirst(h, b, j + 1) = Replay(ReplayFirst(h, b, j), b[j + 1])
      BY ReplaySteps
    <3> QED BY <3>1, <3>2, <3>3
  <2>3. ReplayFirst(h, a, i - 1) = ReplayFirst(h, b, i - 1)
    BY <1>2
  <2> QED BY <2>1, <2>2, <2>3
<1>3. l \in S
  <2> HIDE DEF S
  <2> QED BY <1>1, <1>2, InductionOnInterval
<1> QED BY <1>3

LEMMA ReplayConcat ==
    ASSUME NEW h, NEW S, NEW a \in Seq(S), NEW b \in Seq(S)
    PROVE  ReplayFirst(h, a \o b, Len(a \o b)) = ReplayFirst(ReplayFirst(h, a, Len(a)), b, Len(b))
<1> DEFINE c == a \o b
           m == Len(a)
           n == Len(b)
           mid == ReplayFirst(h, a, m)
<1>1. m \in Nat /\ n \in Nat
  BY LenProperties
<1>2. Len(c) = m + n
  BY ConcatProperties
<1>3. \A i \in 1 .. m : c[i] = a[i]
  <2>1. \A i \in 1 .. m : i \in 1 .. m + n /\ i <= m
    BY <1>1
  <2> QED BY <2>1, ConcatProperties
<1>4. \A i \in 1 .. n : c[m + i] = b[i]
  <2>1. \A i \in 1 .. n : m + i \in 1 .. m + n /\ ~(m + i <= m) /\ (m + i) - m = i
    BY <1>1
  <2> QED BY <2>1, ConcatProperties
<1> HIDE DEF c, m, n
<1>5. ReplayFirst(h, c, m) = mid
  BY <1>1, <1>3, ReplaySame
<1> HIDE DEF mid
<1> DEFINE T == {i \in 0 .. n : ReplayFirst(h, c, m + i) = ReplayFirst(mid, b, i)}
<1>6. 0 \in T
  BY <1>1, <1>5, ReplaySteps
<1>7. ASSUME NEW i \in 1 .. n, i - 1 \in T PROVE i \in T
  <2>1. /\ i - 1 \in Nat /\ (i - 1) + 1 = i /\ i \in 0 .. n
        /\ m + (i - 1) \in Nat /\ (m + (i - 1)) + 1 = m + i
    BY <1>1
  <2>2. /\ ReplayFirst(h, c, m + i) = Replay(ReplayFirst(h, c, m + (i - 1)), c[m + i])
        /\ ReplayFirst(mid, b, i) = Replay(ReplayFirst(mid, b, i - 1), b[i])
    <3>1. PICK j \in Nat, k \in Nat :
             j = i - 1 /\ j + 1 = i /\ k = m + (i - 1) /\ k + 1 = m + i
      BY <2>1
    <3>2. ReplayFirst(h, c, k + 1) = Replay(ReplayFirst(h, c, k), c[k + 1])
      BY ReplaySteps
    <3>3. ReplayFirst(mid, b, j + 1) = Replay(ReplayFirst(mid, b, j), b[j + 1])
      BY ReplaySteps
    <3> QED BY <3>1, <3>2, <3>3
  <2>3. ReplayFirst(h, c, m + (i - 1)) = ReplayFirst(mid, b, i - 1)
    BY <1>7
  <2> QED BY <1>4, <2>1, <2>2, <2>3
<1>8. n \in T
  <2> HIDE DEF T
  <2>1. 0 .. n \subseteq T
    BY <1>1, <1>6, <1>7, InductionOnInterval
  <2> QED BY <1>1, <2>1
<1>9. ReplayFirst(h, c, Len(c)) = ReplayFirst(mid, b, n)
  BY <1>2, <1>8
<1> QED BY <1>9 DEF c, m, n, mid

(* What is received in two parts. *)
LEMMA ReceiveSame ==
    ASSUME NEW h, NEW a, NEW b, NEW l \in Nat, \A i \in 1 .. l : a[i] = b[i]
    PROVE  ReceiveFirst(h, a, l) = ReceiveFirst(h, b, l)
<1> DEFINE S == {i \in 0 .. l : ReceiveFirst(h, a, i) = ReceiveFirst(h, b, i)}
<1>1. 0 \in S
  BY ReceiveSteps
<1>2. ASSUME NEW i \in 1 .. l, i - 1 \in S PROVE i \in S
  <2>1. i - 1 \in Nat /\ (i - 1) + 1 = i /\ i \in 0 .. l
    OBVIOUS
  <2>2. /\ ReceiveFirst(h, a, i) = Receive(ReceiveFirst(h, a, i - 1), a[i])
        /\ ReceiveFirst(h, b, i) = Receive(ReceiveFirst(h, b, i - 1), b[i])
    <3>1. PICK j \in Nat : j = i - 1 /\ j + 1 = i
      BY <2>1
    <3>2. ReceiveFirst(h, a, j + 1) = Receive(ReceiveFirst(h, a, j), a[j + 1])
      BY ReceiveSteps
    <3>3. ReceiveFirst(h, b, j + 1) = Receive(ReceiveFirst(h, b, j), b[j + 1])
      BY ReceiveSteps
    <3> QED BY <3>1, <3>2, <3>3
  <2>3. ReceiveFirst(h, a, i - 1) = ReceiveFirst(h, b, i - 1)
    BY <1>2
  <2> QED BY <2>1, <2>2, <2>3
<1>3. l \in S
  <2> HIDE DEF S
  <2> QED BY <1>1, <1>2, InductionOnInterval
<1> QED BY <1>3

LEMMA ReceiveConcat ==
    ASSUME NEW h, NEW S, NEW a \in Seq(S), NEW b \in Seq(S)
    PROVE  ReceiveFirst(h, a \o b, Len(a \o b)) = ReceiveFirst(ReceiveFirst(h, a, Len(a)), b, Len(b))
<1> DEFINE c == a \o b
           m == Len(a)
           n == Len(b)
           mid == ReceiveFirst(h, a, m)
<1>1. m \in Nat /\ n \in Nat
  BY LenProperties
<1>2. Len(c) = m + n
  BY ConcatProperties
<1>3. \A i \in 1 .. m : c[i] = a[i]
  <2>1. \A i \in 1 .. m : i \in 1 .. m + n /\ i <= m
    BY <1>1
  <2> QED BY <2>1, ConcatProperties
<1>4. \A i \in 1 .. n : c[m + i] = b[i]
  <2>1. \A i \in 1 .. n : m + i \in 1 .. m + n /\ ~(m + i <= m) /\ (m + i) - m = i
    BY <1>1
  <2> QED BY <2>1, ConcatProperties
<1> HIDE DEF c, m, n
<1>5. ReceiveFirst(h, c, m) = mid
  BY <1>1, <1>3, ReceiveSame
<1> HIDE DEF mid
<1> DEFINE T == {i \in 0 .. n : ReceiveFirst(h, c, m + i) = ReceiveFirst(mid, b, i)}
<1>6. 0 \in T
  BY <1>1, <1>5, ReceiveSteps
<1>7. ASSUME NEW i \in 1 .. n, i - 1 \in T PROVE i \in T
  <2>1. /\ i - 1 \in Nat /\ (i - 1) + 1 = i /\ i \in 0 .. n
        /\ m + (i - 1) \in Nat /\ (m + (i - 1)) + 1 = m + i
    BY <1>1
  <2>2. /\ ReceiveFirst(h, c, m + i) = Receive(ReceiveFirst(h, c, m + (i - 1)), c[m + i])
        /\ ReceiveFirst(mid, b, i) = Receive(ReceiveFirst(mid, b, i - 1), b[i])
    <3>1. PICK j \in Nat, k \in Nat :
             j = i - 1 /\ j + 1 = i /\ k = m + (i - 1) /\ k + 1 = m + i
      BY <2>1
    <3>2. ReceiveFirst(h, c, k + 1) = Receive(ReceiveFirst(h, c, k), c[k + 1])
      BY ReceiveSteps
    <3>3. ReceiveFirst(mid, b, j + 1) = Receive(ReceiveFirst(mid, b, j), b[j + 1])
      BY ReceiveSteps
    <3> QED BY <3>1, <3>2, <3>3
  <2>3. ReceiveFirst(h, c, m + (i - 1)) = ReceiveFirst(mid, b, i - 1)
    BY <1>7
  <2> QED BY <1>4, <2>1, <2>2, <2>3
<1>8. n \in T
  <2> HIDE DEF T
  <2>1. 0 .. n \subseteq T
    BY <1>1, <1>6, <1>7, InductionOnInterval
  <2> QED BY <1>1, <2>1
<1>9. ReceiveFirst(h, c, Len(c)) = ReceiveFirst(mid, b, n)
  BY <1>2, <1>8
<1> QED BY <1>9 DEF c, m, n, mid

LEMMA ReplayShort ==
    ASSUME NEW h, NEW s
    PROVE  /\ Len(s) = 0 => ReplayAll(h, s) = h
           /\ Len(s) = 1 => ReplayAll(h, s) = Replay(h, s[1])
           /\ Len(s) = 2 => ReplayAll(h, s) = Replay(Replay(h, s[1]), s[2])
<1> DEFINE one == 1
<1>0. one \in Nat
  OBVIOUS
<1>1. 0 + 1 = one /\ one + 1 = 2
  OBVIOUS
<1>2. ReplayFirst(h, s, 0) = h
  BY ReplaySteps
<1>3. ReplayFirst(h, s, 0 + 1) = Replay(ReplayFirst(h, s, 0), s[0 + 1])
  BY ReplaySteps
<1> HIDE DEF one
<1>4. ReplayFirst(h, s, one + 1) = Replay(ReplayFirst(h, s, one), s[one + 1])
  BY <1>0, ReplaySteps
<1>5. /\ ReplayFirst(h, s, one) = Replay(h, s[one])
      /\ ReplayFirst(h, s, 2) = Replay(Replay(h, s[one]), s[2])
  BY <1>1, <1>2, <1>3, <1>4
<1> QED BY <1>2, <1>5 DEF ReplayAll, one

LEMMA ReceiveShort ==
    ASSUME NEW v, NEW u
    PROVE  /\ ReceiveFirst(v, <<>>, Len(<<>>)) = v
           /\ ReceiveFirst(v, <<u>>, Len(<<u>>)) = Receive(v, u)
<1>1. ReceiveFirst(v, <<u>>, 0 + 1) = Receive(ReceiveFirst(v, <<u>>, 0), <<u>>[0 + 1])
  BY ReceiveSteps
<1>2. ReceiveFirst(v, <<u>>, 0) = v /\ ReceiveFirst(v, <<>>, 0) = v
  BY ReceiveSteps
<1>3. Len(<<>>) = 0 /\ Len(<<u>>) = 0 + 1 /\ <<u>>[0 + 1] = u
  OBVIOUS
<1> QED BY <1>1, <1>2, <1>3

-----------------------------------------------------------------------------
(* The order of keys. *)

Key == [sort : Nat, id : Nat]

LEMMA BeforeOrder ==
    ASSUME NEW q, NEW a \in Key, NEW b \in Key
    PROVE  /\ ~(Before(q, a, b) /\ Before(q, b, a)) /\ ~Before(q, a, a)
           /\ a = b \/ Before(q, a, b) \/ Before(q, b, a)
           /\ \A c \in Key : Before(q, a, b) /\ Before(q, b, c) => Before(q, a, c)
<1>1. a.sort \in Nat /\ a.id \in Nat /\ b.sort \in Nat /\ b.id \in Nat
  BY DEF Key
<1>2. a.sort = b.sort /\ a.id = b.id => a = b
  BY DEF Key
<1>3. ASSUME NEW c \in Key, Before(q, a, b), Before(q, b, c) PROVE Before(q, a, c)
  <2>1. c.sort \in Nat /\ c.id \in Nat
    BY DEF Key
  <2> QED BY <1>1, <1>3, <2>1 DEF Before
<1> QED BY <1>1, <1>2, <1>3 DEF Before

(* Finite sets of keys have a first and a last one. *)
LEMMA FirstExists ==
    ASSUME NEW q, NEW K \in SUBSET Key, IsFiniteSet(K), K # {}
    PROVE  FirstKey(q, K) \in K /\ \A l \in K : l = FirstKey(q, K) \/ Before(q, FirstKey(q, K), l)
<1> DEFINE Below(k) == {l \in K : Before(q, l, k)}
           Counts == {Cardinality(Below(k)) : k \in K}
<1>1. ASSUME NEW k \in K PROVE IsFiniteSet(Below(k)) /\ Cardinality(Below(k)) \in Nat
  BY FS_Subset, FS_CardinalityType
<1>2. Counts \subseteq Nat /\ Counts # {}
  BY <1>1
<1>3. PICK n \in Counts : \A y \in Counts : n <= y
  <2> HIDE DEF Counts
  <2> QED BY <1>2, LeastNatural
<1>4. PICK k \in K : n = Cardinality(Below(k))
  BY <1>3
<1>5. ASSUME NEW l \in K PROVE l = k \/ Before(q, k, l)
  <2> SUFFICES ASSUME Before(q, l, k) PROVE FALSE
    BY BeforeOrder
  <2>1. Below(l) \in SUBSET Below(k) /\ l \in Below(k) /\ l \notin Below(l)
    BY BeforeOrder
  <2>2. Cardinality(Below(l)) <= Cardinality(Below(k)) /\ Cardinality(Below(l)) # Cardinality(Below(k))
    <3> HIDE DEF Below
    <3> QED BY <1>1, <2>1, FS_Subset
  <2>3. Cardinality(Below(k)) <= Cardinality(Below(l))
    BY <1>3, <1>4
  <2> HIDE DEF Below
  <2> QED BY <1>1, <2>2, <2>3
<1>6. \E x \in K : \A l \in K : l = x \/ Before(q, x, l)
  BY <1>5
<1> QED BY <1>6 DEF FirstKey

LEMMA LastExists ==
    ASSUME NEW q, NEW K \in SUBSET Key, IsFiniteSet(K), K # {}
    PROVE  LastKey(q, K) \in K /\ \A l \in K : l = LastKey(q, K) \/ Before(q, l, LastKey(q, K))
<1> DEFINE Over(k) == {l \in K : Before(q, k, l)}
           Counts == {Cardinality(Over(k)) : k \in K}
<1>1. ASSUME NEW k \in K PROVE IsFiniteSet(Over(k)) /\ Cardinality(Over(k)) \in Nat
  BY FS_Subset, FS_CardinalityType
<1>2. Counts \subseteq Nat /\ Counts # {}
  BY <1>1
<1>3. PICK n \in Counts : \A y \in Counts : n <= y
  <2> HIDE DEF Counts
  <2> QED BY <1>2, LeastNatural
<1>4. PICK k \in K : n = Cardinality(Over(k))
  BY <1>3
<1>5. ASSUME NEW l \in K PROVE l = k \/ Before(q, l, k)
  <2> SUFFICES ASSUME Before(q, k, l) PROVE FALSE
    BY BeforeOrder
  <2>1. Over(l) \in SUBSET Over(k) /\ l \in Over(k) /\ l \notin Over(l)
    BY BeforeOrder
  <2>2. Cardinality(Over(l)) <= Cardinality(Over(k)) /\ Cardinality(Over(l)) # Cardinality(Over(k))
    <3> HIDE DEF Over
    <3> QED BY <1>1, <2>1, FS_Subset
  <2>3. Cardinality(Over(k)) <= Cardinality(Over(l))
    BY <1>3, <1>4
  <2> HIDE DEF Over
  <2> QED BY <1>1, <2>2, <2>3
<1>6. \E x \in K : \A l \in K : l = x \/ Before(q, l, x)
  BY <1>5
<1> QED BY <1>6 DEF LastKey

(* The first cap keys of K, without counting what is before each. *)
IsTop(q, K, V) ==
    /\ V \subseteq K
    /\ \A k \in V, l \in K \ V : Before(q, k, l)
    /\ Cardinality(V) <= q.cap
    /\ V = K \/ Cardinality(V) = q.cap

LEMMA TopCapIs ==
    ASSUME NEW q, q.cap \in Nat \ {0}, NEW K \in SUBSET Key, IsFiniteSet(K)
    PROVE  IsTop(q, K, TopCap(q, K))
<1> DEFINE V == TopCap(q, K)
           Below(k) == {l \in K : Before(q, l, k)}
<1>1. ASSUME NEW k PROVE k \in V <=> k \in K /\ Cardinality(Below(k)) < q.cap
  BY DEF TopCap
<1>2. ASSUME NEW k \in K PROVE IsFiniteSet(Below(k)) /\ Cardinality(Below(k)) \in Nat
  BY FS_Subset, FS_CardinalityType
<1> HIDE DEF V
<1>3. V \in SUBSET K /\ IsFiniteSet(V) /\ Cardinality(V) \in Nat
  <2>1. V \in SUBSET K
    BY <1>1
  <2>2. IsFiniteSet(V)
    BY <2>1, FS_Subset
  <2> QED BY <2>1, <2>2, FS_CardinalityType
<1>4. ASSUME NEW k \in V, NEW l \in K \ V PROVE Before(q, k, l)
  <2>1. k \in K /\ l \in K /\ k # l
    BY <1>1, <1>4
  <2> SUFFICES ASSUME Before(q, l, k) PROVE FALSE
    BY <2>1, BeforeOrder
  <2>2. Below(l) \in SUBSET Below(k)
    BY <2>1, BeforeOrder
  <2>3. Cardinality(Below(l)) <= Cardinality(Below(k))
    <3> HIDE DEF Below
    <3> QED BY <1>2, <2>1, <2>2, FS_Subset
  <2>4. Cardinality(Below(k)) < q.cap /\ ~(Cardinality(Below(l)) < q.cap)
    BY <1>1, <1>4, <2>1
  <2>5. Cardinality(Below(k)) \in Nat /\ Cardinality(Below(l)) \in Nat
    BY <1>2, <2>1
  <2> HIDE DEF Below
  <2> QED BY <2>3, <2>4, <2>5
<1>5. Cardinality(V) <= q.cap
  <2>1. CASE V = {}
    <3>1. Cardinality(V) = 0
      BY <2>1, FS_EmptySet
    <3> QED BY <3>1
  <2>2. CASE V # {}
    <3> DEFINE x == LastKey(q, V)
    <3>1. x \in V /\ \A l \in V : l = x \/ Before(q, l, x)
      BY <1>3, <2>2, LastExists
    <3> HIDE DEF x
    <3>2. V \ {x} \in SUBSET Below(x)
      BY <1>3, <3>1
    <3>3. Cardinality(V \ {x}) = Cardinality(V) - 1
      BY <1>3, <3>1, FS_RemoveElement
    <3>4. x \in K /\ Cardinality(Below(x)) < q.cap
      BY <1>1, <3>1
    <3>5. Cardinality(V \ {x}) <= Cardinality(Below(x)) /\ Cardinality(Below(x)) \in Nat
      <4> HIDE DEF Below
      <4> QED BY <1>2, <3>2, <3>4, FS_Subset
    <3> HIDE DEF Below
    <3> QED BY <1>3, <3>3, <3>4, <3>5
  <2> QED BY <2>1, <2>2
<1>6. ASSUME V # K PROVE Cardinality(V) = q.cap
  <2> DEFINE R == K \ V
             x == FirstKey(q, R)
  <2>1. R # {} /\ R \in SUBSET Key /\ IsFiniteSet(R)
    BY <1>3, <1>6, FS_Subset
  <2>2. x \in R /\ \A l \in R : l = x \/ Before(q, x, l)
    <3> HIDE DEF R
    <3> QED BY <2>1, FirstExists
  <2> HIDE DEF x
  <2>3. Below(x) \in SUBSET V
    BY <2>2, BeforeOrder
  <2>4. ~(Cardinality(Below(x)) < q.cap) /\ Cardinality(Below(x)) \in Nat
    BY <1>1, <1>2, <2>2
  <2>5. Cardinality(Below(x)) <= Cardinality(V)
    <3> HIDE DEF Below
    <3> QED BY <1>3, <2>3, FS_Subset
  <2> HIDE DEF Below
  <2> QED BY <1>3, <1>5, <2>4, <2>5
<1>7. IsTop(q, K, V)
  BY <1>3, <1>4, <1>5, <1>6 DEF IsTop
<1> QED BY <1>7 DEF V

LEMMA TopUnique ==
    ASSUME NEW q, q.cap \in Nat \ {0}, NEW K \in SUBSET Key, IsFiniteSet(K),
           NEW V, IsTop(q, K, V)
    PROVE  V = TopCap(q, K)
<1> DEFINE Below(k) == {l \in K : Before(q, l, k)}
<1>1. V \in SUBSET K /\ IsFiniteSet(V) /\ Cardinality(V) \in Nat
  <2>1. V \in SUBSET K
    BY DEF IsTop
  <2>2. IsFiniteSet(V)
    BY <2>1, FS_Subset
  <2> QED BY <2>1, <2>2, FS_CardinalityType
<1>2. ASSUME NEW k \in K PROVE IsFiniteSet(Below(k)) /\ Cardinality(Below(k)) \in Nat
  BY FS_Subset, FS_CardinalityType
<1>3. ASSUME NEW k \in V PROVE Cardinality(Below(k)) < q.cap
  <2>1. Below(k) \in SUBSET (V \ {k})
    BY <1>1, <1>3, BeforeOrder DEF IsTop
  <2>2. IsFiniteSet(V \ {k}) /\ Cardinality(V \ {k}) = Cardinality(V) - 1
    BY <1>1, <1>3, FS_RemoveElement
  <2>3. k \in K
    BY <1>1, <1>3
  <2>4. Cardinality(Below(k)) <= Cardinality(V \ {k}) /\ Cardinality(Below(k)) \in Nat
    <3> HIDE DEF Below
    <3> QED BY <1>2, <2>1, <2>2, <2>3, FS_Subset
  <2>5. Cardinality(V) <= q.cap
    BY DEF IsTop
  <2> HIDE DEF Below
  <2> QED BY <1>1, <2>2, <2>4, <2>5
<1>4. ASSUME NEW k \in K \ V PROVE ~(Cardinality(Below(k)) < q.cap)
  <2>1. V \in SUBSET Below(k)
    BY <1>1, <1>4 DEF IsTop
  <2>2. Cardinality(V) = q.cap
    BY <1>1, <1>4 DEF IsTop
  <2>3. Cardinality(V) <= Cardinality(Below(k)) /\ Cardinality(Below(k)) \in Nat
    <3> HIDE DEF Below
    <3> QED BY <1>2, <1>4, <2>1, FS_Subset
  <2> HIDE DEF Below
  <2> QED BY <1>1, <2>2, <2>3
<1>5. TopCap(q, K) = {k \in K : Cardinality(Below(k)) < q.cap}
  BY DEF TopCap
<1> HIDE DEF Below
<1> QED BY <1>1, <1>3, <1>4, <1>5

-----------------------------------------------------------------------------
(* Windows and their keys. *)

Window == [RowId -> Cell]

LEMMA RowFacts ==
    /\ RowId \subseteq Nat /\ IsFiniteSet(RowId)
    /\ \A row \in Row : row \in Nat /\ row # None
<1>1. MaxRows - 1 \in Int
  BY SubscriptionAssumption
<1>2. IsFiniteSet(0 .. MaxRows - 1)
  BY <1>1, FS_Interval
<1>3. 0 .. MaxRows - 1 \subseteq Nat
  BY <1>1
<1> QED BY <1>2, <1>3, NoneAssumption, SubscriptionAssumption DEF RowId

LEMMA KeyTyped ==
    ASSUME NEW q, NEW id \in RowId, NEW row \in Row
    PROVE  KeyOf(q, id, row) \in Key /\ KeyOf(q, id, row) \in [sort : Row \cup {0}, id : RowId]
           /\ KeyOf(q, id, row).id = id
<1>1. id \in Nat /\ row \in Nat
  BY RowFacts
<1> QED BY <1>1 DEF KeyOf, Key

LEMMA KeyIs ==
    ASSUME NEW q, NEW w \in Window, NEW k
    PROVE  k \in Keys(q, w) <=> \E id \in RowId : w[id] \in Row /\ k = KeyOf(q, id, w[id])
<1>1. \A id \in RowId : w[id] # None <=> w[id] \in Row
  BY RowFacts DEF Window, Cell
<1> QED BY <1>1 DEF Keys

LEMMA KeyHasId ==
    ASSUME NEW q, NEW w \in Window, NEW k \in Keys(q, w)
    PROVE  /\ k \in Key /\ k \in [sort : Row \cup {0}, id : RowId]
           /\ k.id \in RowId /\ w[k.id] \in Row /\ k = KeyOf(q, k.id, w[k.id])
<1>1. PICK id \in RowId : w[id] \in Row /\ k = KeyOf(q, id, w[id])
  BY KeyIs
<1> QED BY <1>1, KeyTyped

LEMMA KeysFinite ==
    ASSUME NEW q, NEW w \in Window
    PROVE  Keys(q, w) \in SUBSET Key /\ IsFiniteSet(Keys(q, w))
<1>1. Keys(q, w) \in SUBSET Key
  BY KeyHasId
<1> DEFINE f == [k \in Keys(q, w) |-> k.id]
<1>2. f \in [Keys(q, w) -> RowId]
  BY KeyHasId
<1>3. \A a, b \in Keys(q, w) : f[a] = f[b] => a = b
  BY KeyHasId
<1>4. f \in Injection(Keys(q, w), RowId)
  <2> HIDE DEF f
  <2> QED BY <1>2, <1>3 DEF Injection, IsInjective
<1>5. IsFiniteSet(Keys(q, w))
  BY <1>4, RowFacts, FS_Injection
<1> QED BY <1>1, <1>5

(* What a change makes of the keys: the row's old one goes, its new comes. *)
LEMMA KeysChange ==
    ASSUME NEW q, NEW w \in Window, NEW id \in RowId, NEW cell \in Cell
    PROVE  LET v == [w EXCEPT ![id] = cell]
           IN  /\ v \in Window /\ v[id] = cell /\ \A j \in RowId \ {id} : v[j] = w[j]
               /\ \A k : k \in Keys(q, v) <=>
                     \/ k \in Keys(q, w) /\ k.id # id
                     \/ cell # None /\ k = KeyOf(q, id, cell)
               /\ \A k \in Keys(q, w) : k.id = id <=> w[id] # None /\ k = KeyOf(q, id, w[id])
               /\ w[id] # None => KeyOf(q, id, w[id]) \in Keys(q, w)
<1> DEFINE v == [w EXCEPT ![id] = cell]
<1>1. v \in Window /\ v[id] = cell /\ \A j \in RowId \ {id} : v[j] = w[j]
  BY DEF Window
<1> HIDE DEF v
<1>2. cell # None <=> cell \in Row
  BY RowFacts DEF Cell
<1>3. w[id] # None <=> w[id] \in Row
  BY RowFacts DEF Cell, Window
<1>4. ASSUME NEW k \in Keys(q, v)
      PROVE  (k \in Keys(q, w) /\ k.id # id) \/ (cell # None /\ k = KeyOf(q, id, cell))
  <2>1. k.id \in RowId /\ v[k.id] \in Row /\ k = KeyOf(q, k.id, v[k.id])
    BY <1>1, <1>4, KeyHasId
  <2>2. CASE k.id = id
    BY <1>1, <1>2, <2>1, <2>2
  <2>3. CASE k.id # id
    <3>1. v[k.id] = w[k.id]
      BY <1>1, <2>1, <2>3
    <3> QED BY <2>1, <2>3, <3>1, KeyIs
  <2> QED BY <2>2, <2>3
<1>5. ASSUME NEW k \in Keys(q, w), k.id # id PROVE k \in Keys(q, v)
  <2>1. k.id \in RowId /\ w[k.id] \in Row /\ k = KeyOf(q, k.id, w[k.id])
    BY <1>5, KeyHasId
  <2>2. v[k.id] = w[k.id]
    BY <1>1, <1>5, <2>1
  <2> QED BY <1>1, <2>1, <2>2, KeyIs
<1>6. cell # None => KeyOf(q, id, cell) \in Keys(q, v)
  BY <1>1, <1>2, KeyIs
<1>7. ASSUME NEW k \in Keys(q, w) PROVE k.id = id <=> w[id] # None /\ k = KeyOf(q, id, w[id])
  BY <1>3, <1>7, KeyHasId, KeyTyped
<1>8. w[id] # None => KeyOf(q, id, w[id]) \in Keys(q, w)
  BY <1>3, KeyIs
<1> QED BY <1>1, <1>4, <1>5, <1>6, <1>7, <1>8 DEF v

-----------------------------------------------------------------------------
(* The branches of sync_window keep the first cap keys. *)

(* next_after_visible: the keys behind all visible ones. *)
IsBehind(q, K, V, A) == \A k : k \in A <=> k \in K /\ \A v \in V : Before(q, v, k)

LEMMA AboveIs ==
    ASSUME NEW q, NEW w \in Window, NEW V \in SUBSET Key, IsFiniteSet(V)
    PROVE  IsBehind(q, Keys(q, w), V, Above(q, w, V))
<1> SUFFICES ASSUME NEW k
             PROVE  k \in Above(q, w, V) <=> k \in Keys(q, w) /\ \A v \in V : Before(q, v, k)
  BY DEF IsBehind
<1>1. CASE V = {}
  BY <1>1 DEF Above
<1>2. CASE V # {}
  <2> DEFINE x == LastKey(q, V)
  <2>1. x \in V /\ \A v \in V : v = x \/ Before(q, v, x)
    BY <1>2, LastExists
  <2>2. Above(q, w, V) = {l \in Keys(q, w) : Before(q, x, l)}
    BY <1>2 DEF Above
  <2> HIDE DEF x
  <2>3. Keys(q, w) \in SUBSET Key
    BY KeysFinite
  <2>4. ASSUME k \in Keys(q, w), Before(q, x, k), NEW v \in V PROVE Before(q, v, k)
    <3>1. x \in Key /\ v \in Key /\ k \in Key
      BY <2>1, <2>3, <2>4
    <3> QED BY <2>1, <2>4, <3>1, BeforeOrder
  <2> QED BY <2>1, <2>2, <2>4
<1> QED BY <1>1, <1>2

(* A visible key is gone: the next-best one takes its place. *)
LEMMA LeaveTop ==
    ASSUME NEW q, q.cap \in Nat \ {0}, NEW K \in SUBSET Key, IsFiniteSet(K),
           NEW V \in SUBSET K, \A k \in V, l \in K \ V : Before(q, k, l),
           Cardinality(V) + 1 <= q.cap, V = K \/ Cardinality(V) + 1 = q.cap,
           NEW A, IsBehind(q, K, V, A)
    PROVE  /\ A = {} => IsTop(q, K, V)
           /\ A # {} => FirstKey(q, A) \in K \ V /\ IsTop(q, K, V \cup {FirstKey(q, A)})
<1> \A k : k \in A <=> k \in K /\ \A v \in V : Before(q, v, k)
  BY DEF IsBehind
<1>1. A = K \ V /\ A \in SUBSET Key /\ IsFiniteSet(A)
  <2>1. A = K \ V
    BY BeforeOrder
  <2> QED BY <2>1, FS_Subset
<1>2. IsFiniteSet(V) /\ Cardinality(V) \in Nat
  BY FS_Subset, FS_CardinalityType
<1>3. ASSUME A = {} PROVE IsTop(q, K, V)
  <2>1. V = K
    BY <1>1, <1>3
  <2> QED BY <1>2, <2>1 DEF IsTop
<1>4. ASSUME A # {} PROVE FirstKey(q, A) \in K \ V /\ IsTop(q, K, V \cup {FirstKey(q, A)})
  <2> DEFINE f == FirstKey(q, A)
  <2>1. f \in A /\ \A l \in A : l = f \/ Before(q, f, l)
    BY <1>1, <1>4, FirstExists
  <2> HIDE DEF f
  <2>2. f \in K /\ f \notin V
    BY <1>1, <2>1
  <2>3. Cardinality(V \cup {f}) = Cardinality(V) + 1
    BY <1>2, <2>2, FS_AddElement
  <2>4. Cardinality(V) + 1 = q.cap
    BY <2>2
  <2>5. ASSUME NEW k \in V \cup {f}, NEW l \in K \ (V \cup {f}) PROVE Before(q, k, l)
    BY <1>1, <2>1, <2>5
  <2>6. IsTop(q, K, V \cup {f})
    BY <1>2, <2>2, <2>3, <2>4, <2>5 DEF IsTop
  <2> QED BY <2>2, <2>6 DEF f
<1> QED BY <1>3, <1>4

(* A visible key moves: it stays, or leaves to the next-best one. *)
Stays(q, V, kn, A) ==
    V = {} \/ A = {} \/ kn = FirstKey(q, A) \/ Before(q, kn, FirstKey(q, A))

LEMMA MoveTop ==
    ASSUME NEW q, q.cap \in Nat, q.cap > 1, NEW K \in SUBSET Key, IsFiniteSet(K),
           NEW V, IsTop(q, K, V), NEW ko \in V, NEW kn \in Key, kn \notin K \ {ko},
           NEW A, IsBehind(q, (K \ {ko}) \cup {kn}, V \ {ko}, A)
    PROVE  /\ Stays(q, V \ {ko}, kn, A)
                => IsTop(q, (K \ {ko}) \cup {kn}, (V \ {ko}) \cup {kn})
           /\ ~Stays(q, V \ {ko}, kn, A)
                => /\ FirstKey(q, A) \in (K \ {ko}) \ V
                   /\ IsTop(q, (K \ {ko}) \cup {kn}, (V \ {ko}) \cup {FirstKey(q, A)})
<1> \A k : k \in A <=> k \in (K \ {ko}) \cup {kn} /\ \A v \in V \ {ko} : Before(q, v, k)
  BY DEF IsBehind
<1> DEFINE K1 == (K \ {ko}) \cup {kn}
           V0 == V \ {ko}
           f == FirstKey(q, A)
           stays == V0 = {} \/ A = {} \/ kn = f \/ Before(q, kn, f)
<1>0. stays <=> Stays(q, V \ {ko}, kn, A)
  BY DEF Stays
<1>1. V \in SUBSET K /\ IsFiniteSet(V) /\ Cardinality(V) \in Nat
  <2>1. V \in SUBSET K
    BY DEF IsTop
  <2>2. IsFiniteSet(V)
    BY <2>1, FS_Subset
  <2> QED BY <2>1, <2>2, FS_CardinalityType
<1>2. IsFiniteSet(V0) /\ Cardinality(V0) \in Nat /\ Cardinality(V) = Cardinality(V0) + 1 /\ V0 \in SUBSET Key
  <2>1. IsFiniteSet(V0) /\ Cardinality(V0) = Cardinality(V) - 1
    BY <1>1, FS_RemoveElement
  <2>2. Cardinality(V0) \in Nat
    BY <2>1, FS_CardinalityType
  <2> HIDE DEF V0
  <2>3. Cardinality(V) = Cardinality(V0) + 1
    BY <1>1, <2>1, <2>2
  <2> QED BY <1>1, <2>1, <2>2, <2>3 DEF V0
<1>3. K1 \in SUBSET Key /\ IsFiniteSet(K1)
  <2>1. IsFiniteSet(K \ {ko})
    BY FS_RemoveElement
  <2> QED BY <2>1, FS_AddElement
<1>4. A \in SUBSET K1 /\ IsFiniteSet(A) /\ A \in SUBSET Key
  <2>1. A \in SUBSET K1
    OBVIOUS
  <2> QED BY <1>3, <2>1, FS_Subset
<1>5. A # {} => f \in A /\ \A l \in A : l = f \/ Before(q, f, l)
  BY <1>4, FirstExists
<1>6. kn \notin V0 /\ kn \in K1
  BY <1>1
<1>7. Cardinality(V0 \cup {kn}) = Cardinality(V)
  BY <1>2, <1>6, FS_AddElement
<1>8. Cardinality(V) <= q.cap /\ (V = K \/ Cardinality(V) = q.cap)
  BY DEF IsTop
<1>9. ASSUME NEW l \in K \ V PROVE l \in A
  BY <1>1, <1>9 DEF IsTop
<1>10. ASSUME stays PROVE IsTop(q, K1, V0 \cup {kn})
  <2>1. CASE V = K
    <3>1. V0 \cup {kn} = K1
      BY <2>1
    <3> QED BY <1>7, <1>8, <3>1 DEF IsTop
  <2>2. CASE V # K
    <3>1. Cardinality(V) = q.cap
      BY <1>8, <2>2
    <3>2. V0 # {}
      <4>1. Cardinality(V0) # 0
        BY <1>2, <3>1
      <4> QED BY <4>1, FS_EmptySet
    <3>3. PICK x \in K \ V : TRUE
      BY <1>1, <2>2
    <3>4. A # {}
      BY <1>9, <3>3
    <3>5. kn = f \/ Before(q, kn, f)
      BY <1>10, <3>2, <3>4
    <3>6. ASSUME NEW k \in V0 \cup {kn}, NEW l \in K1 \ (V0 \cup {kn}) PROVE Before(q, k, l)
      <4>1. l \in K \ V /\ l \in A /\ l \in Key
        BY <1>3, <1>9, <3>6
      <4>2. CASE k \in V0
        BY <4>1, <4>2
      <4>3. CASE k = kn
        <5>1. f \in Key /\ kn \in Key
          BY <1>4, <1>5, <3>4
        <5>2. l = f \/ Before(q, f, l)
          BY <1>5, <3>4, <4>1
        <5>3. l # kn
          BY <3>6
        <5> HIDE DEF f
        <5> QED BY <3>5, <4>1, <4>3, <5>1, <5>2, <5>3, BeforeOrder
      <4> QED BY <3>6, <4>2, <4>3
    <3>7. V0 \cup {kn} \subseteq K1
      BY <1>1
    <3> QED BY <1>7, <1>8, <3>1, <3>6, <3>7 DEF IsTop
  <2> QED BY <2>1, <2>2
<1>11. ASSUME ~stays PROVE f \in (K \ {ko}) \ V /\ IsTop(q, K1, V0 \cup {f})
  <2>1. V0 # {} /\ A # {} /\ f # kn /\ ~Before(q, kn, f)
    BY <1>11
  <2>2. f \in A /\ f \in Key
    BY <1>4, <1>5, <2>1
  <2>3. Before(q, f, kn)
    BY <2>1, <2>2, BeforeOrder
  <2>4. ASSUME NEW k \in V0, NEW l \in K1 \ V0 PROVE Before(q, k, l)
    <3>1. CASE l \in K \ V
      BY <1>9, <2>4, <3>1
    <3>2. CASE l = kn
      <4>1. Before(q, k, f) /\ k \in Key
        BY <1>2, <2>2, <2>4
      <4> QED BY <2>2, <2>3, <3>2, <4>1, BeforeOrder
    <3> QED BY <2>4, <3>1, <3>2
  <2>5. V0 \in SUBSET K1
    BY <1>1
  <2>6. f \in (K \ {ko}) \ V
    <3>1. f \in K \ {ko}
      BY <2>1, <2>2
    <3>2. f \notin V0
      BY <1>2, <2>2, BeforeOrder
    <3> QED BY <3>1, <3>2
  <2>7. Cardinality(V0) + 1 = q.cap
    <3>1. V # K
      BY <2>6
    <3> QED BY <1>2, <1>8, <3>1
  <2>8. Cardinality(V0) + 1 <= q.cap
    BY <2>7
  <2>9. IsBehind(q, K1, V0, A)
    OBVIOUS
  <2> HIDE DEF K1, V0, f
  <2>10. IsTop(q, K1, V0 \cup {FirstKey(q, A)})
    BY <1>3, <2>1, <2>4, <2>5, <2>7, <2>8, <2>9, LeaveTop
  <2> QED BY <2>6, <2>10 DEF f
<1> QED BY <1>0, <1>10, <1>11

(* A key that was not visible is gone. *)
LEMMA HiddenTop ==
    ASSUME NEW q, NEW K, NEW V, IsTop(q, K, V), NEW L \in SUBSET K, V \subseteq L
    PROVE  IsTop(q, L, V)
BY DEF IsTop

(* A key comes: it enters, and evicts the last one if there is no room. *)
LEMMA EnterTop ==
    ASSUME NEW q, q.cap \in Nat \ {0}, NEW K \in SUBSET Key, IsFiniteSet(K),
           NEW V, IsTop(q, K, V), NEW kn \in Key, kn \notin K
    PROVE  /\ ~(Cardinality(V) >= q.cap) => IsTop(q, K \cup {kn}, V \cup {kn})
           /\ Cardinality(V) >= q.cap =>
                /\ LastKey(q, V) \in V
                /\ Before(q, kn, LastKey(q, V))
                      => IsTop(q, K \cup {kn}, (V \ {LastKey(q, V)}) \cup {kn})
                /\ ~Before(q, kn, LastKey(q, V)) => IsTop(q, K \cup {kn}, V)
<1> DEFINE x == LastKey(q, V)
<1>1. V \in SUBSET K /\ IsFiniteSet(V) /\ Cardinality(V) \in Nat
  <2>1. V \in SUBSET K
    BY DEF IsTop
  <2>2. IsFiniteSet(V)
    BY <2>1, FS_Subset
  <2> QED BY <2>1, <2>2, FS_CardinalityType
<1>2. kn \notin V
  BY <1>1
<1>3. Cardinality(V \cup {kn}) = Cardinality(V) + 1
  BY <1>1, <1>2, FS_AddElement
<1>4. ASSUME ~(Cardinality(V) >= q.cap) PROVE IsTop(q, K \cup {kn}, V \cup {kn})
  <2>1. V = K
    BY <1>1, <1>4 DEF IsTop
  <2>2. Cardinality(V \cup {kn}) <= q.cap
    BY <1>1, <1>3, <1>4
  <2> QED BY <2>1, <2>2 DEF IsTop
<1>5. ASSUME Cardinality(V) >= q.cap
      PROVE  /\ Cardinality(V) = q.cap /\ x \in V /\ x \in Key /\ V \in SUBSET Key
             /\ \A v \in V : v = x \/ Before(q, v, x)
  <2>1. Cardinality(V) = q.cap
    BY <1>1, <1>5 DEF IsTop
  <2>2. V # {} /\ V \in SUBSET Key
    BY <1>1, <2>1, FS_EmptySet
  <2> QED BY <1>1, <2>1, <2>2, LastExists
<1> HIDE DEF x
<1>6. ASSUME Cardinality(V) >= q.cap, Before(q, kn, x) PROVE IsTop(q, K \cup {kn}, (V \ {x}) \cup {kn})
  <2> DEFINE W == V \ {x}
  <2>1. IsFiniteSet(W) /\ Cardinality(W) = Cardinality(V) - 1 /\ kn \notin W
    BY <1>1, <1>2, <1>5, <1>6, FS_RemoveElement
  <2>2. Cardinality(W \cup {kn}) = Cardinality(W) + 1
    <3> HIDE DEF W
    <3> QED BY <2>1, FS_AddElement
  <2>3. Cardinality(W \cup {kn}) = q.cap
    <3> HIDE DEF W
    <3> QED BY <1>1, <1>5, <1>6, <2>1, <2>2
  <2>4. ASSUME NEW k \in W \cup {kn}, NEW l \in (K \cup {kn}) \ (W \cup {kn}) PROVE Before(q, k, l)
    <3>1. CASE l = x
      BY <1>5, <1>6, <2>4, <3>1
    <3>2. CASE l \in K \ V
      <4>1. \A v \in V : Before(q, v, l)
        BY <3>2 DEF IsTop
      <4>2. CASE k \in W
        BY <4>1, <4>2
      <4>3. CASE k = kn
        <5>1. Before(q, x, l) /\ x \in Key /\ l \in Key
          BY <1>5, <1>6, <3>2, <4>1
        <5> QED BY <1>6, <4>3, <5>1, BeforeOrder
      <4> QED BY <2>4, <4>2, <4>3
    <3> QED BY <2>4, <3>1, <3>2
  <2>5. W \cup {kn} \subseteq K \cup {kn} /\ Cardinality(W \cup {kn}) <= q.cap
    BY <1>1, <2>3
  <2> QED BY <2>3, <2>4, <2>5 DEF IsTop
<1>7. ASSUME Cardinality(V) >= q.cap, ~Before(q, kn, x) PROVE IsTop(q, K \cup {kn}, V)
  <2>1. kn # x
    BY <1>2, <1>5, <1>7
  <2>2. Before(q, x, kn)
    BY <1>5, <1>7, <2>1, BeforeOrder
  <2>3. ASSUME NEW v \in V PROVE Before(q, v, kn)
    BY <1>5, <1>7, <2>2, <2>3, BeforeOrder
  <2> QED BY <1>1, <1>5, <1>7, <2>3 DEF IsTop
<1> QED BY <1>4, <1>5, <1>6, <1>7 DEF x

(* A window of one shows some row, where there is one. *)
One(K, V) == (K = {} /\ V = {}) \/ \E k \in K : V = {k}

Proper(q, K, V) == IF q.cap = 1 THEN One(K, V) ELSE IsTop(q, K, V)

LEMMA ProperIs ==
    ASSUME NEW q, NEW K, IsFiniteSet(K), NEW V, Proper(q, K, V)
    PROVE  V \in SUBSET K /\ IsFiniteSet(V)
<1>1. V \in SUBSET K
  BY DEF Proper, One, IsTop
<1> QED BY <1>1, FS_Subset

(* What one row of them is: with it gone nothing is left to show. *)
LEMMA OneIs ==
    ASSUME NEW q, q.cap = 1, NEW K, NEW V, Proper(q, K, V), NEW k \in V
    PROVE  V = {k} /\ k \in K
BY DEF Proper, One

LEMMA TopProper ==
    ASSUME NEW q, q.cap \in Nat \ {0}, NEW K \in SUBSET Key, IsFiniteSet(K)
    PROVE  Proper(q, K, TopCap(q, K))
<1> DEFINE V == TopCap(q, K)
<1>1. IsTop(q, K, V)
  BY TopCapIs
<1> HIDE DEF V
<1>2. ASSUME q.cap = 1 PROVE One(K, V)
  <2>1. V \in SUBSET K /\ IsFiniteSet(V)
    BY <1>1, FS_Subset DEF IsTop
  <2>2. CASE Cardinality(V) = 1
    <3>1. PICK k : V = {k}
      BY <2>1, <2>2, FS_Singleton
    <3> QED BY <2>1, <3>1 DEF One
  <2>3. CASE Cardinality(V) # 1
    <3>1. V = K /\ Cardinality(V) <= 1 /\ Cardinality(V) \in Nat
      BY <1>1, <1>2, <2>1, <2>3, FS_CardinalityType DEF IsTop
    <3>2. Cardinality(V) = 0
      BY <2>3, <3>1
    <3>3. V = {}
      BY <2>1, <3>2, FS_EmptySet
    <3> QED BY <3>1, <3>3 DEF One
  <2> QED BY <2>2, <2>3
<1> QED BY <1>1, <1>2 DEF Proper, V

LEMMA LeaveProper ==
    ASSUME NEW q, q.cap \in Nat \ {0}, NEW K \in SUBSET Key, IsFiniteSet(K),
           NEW V, Proper(q, K, V), NEW ko \in V,
           NEW A, IsBehind(q, K \ {ko}, V \ {ko}, A)
    PROVE  /\ A = {} => Proper(q, K \ {ko}, V \ {ko})
           /\ A # {} => /\ FirstKey(q, A) \in (K \ {ko}) \ (V \ {ko})
                        /\ Proper(q, K \ {ko}, (V \ {ko}) \cup {FirstKey(q, A)})
<1> DEFINE L == K \ {ko}
           V0 == V \ {ko}
<1>1. V \in SUBSET K /\ IsFiniteSet(V) /\ Cardinality(V) \in Nat
  BY ProperIs, FS_CardinalityType
<1>2. L \in SUBSET Key /\ IsFiniteSet(L) /\ V0 \in SUBSET L
  BY <1>1, FS_RemoveElement
<1>3. CASE q.cap = 1
  <2>1. V0 = {}
    BY <1>3, OneIs
  <2>2. A = L
    BY <2>1 DEF IsBehind
  <2>3. A # {} => FirstKey(q, A) \in A
    BY <1>2, <2>2, FirstExists
  <2> HIDE DEF L, V0
  <2>4. A = {} => Proper(q, L, V0)
    BY <1>3, <2>1, <2>2 DEF Proper, One
  <2>5. A # {} => FirstKey(q, A) \in L \ V0 /\ Proper(q, L, V0 \cup {FirstKey(q, A)})
    BY <1>3, <2>1, <2>2, <2>3 DEF Proper, One
  <2> QED BY <2>4, <2>5 DEF L, V0
<1>4. CASE q.cap # 1
  <2>1. IsTop(q, K, V)
    BY <1>4 DEF Proper
  <2>2. Cardinality(V) = Cardinality(V0) + 1
    <3>1. Cardinality(V0) = Cardinality(V) - 1
      BY <1>1, FS_RemoveElement
    <3> QED BY <1>1, <3>1
  <2>3. Cardinality(V0) + 1 <= q.cap /\ (V0 = L \/ Cardinality(V0) + 1 = q.cap)
    <3>1. Cardinality(V) <= q.cap /\ (V = K \/ Cardinality(V) = q.cap)
      BY <2>1 DEF IsTop
    <3>2. V = K => V0 = L
      OBVIOUS
    <3> QED BY <2>2, <3>1, <3>2
  <2>4. \A k \in V0, l \in L \ V0 : Before(q, k, l)
    BY <2>1 DEF IsTop
  <2>5. IsBehind(q, L, V0, A)
    OBVIOUS
  <2> HIDE DEF L, V0
  <2>6. /\ A = {} => IsTop(q, L, V0)
        /\ A # {} => FirstKey(q, A) \in L \ V0 /\ IsTop(q, L, V0 \cup {FirstKey(q, A)})
    BY <1>2, <2>3, <2>4, <2>5, LeaveTop
  <2> QED BY <1>4, <2>6 DEF Proper, L, V0
<1> QED BY <1>3, <1>4

LEMMA MoveProper ==
    ASSUME NEW q, q.cap \in Nat \ {0}, NEW K \in SUBSET Key, IsFiniteSet(K),
           NEW V, Proper(q, K, V), NEW ko \in V, NEW kn \in Key, kn \notin K \ {ko},
           NEW A, IsBehind(q, (K \ {ko}) \cup {kn}, V \ {ko}, A)
    PROVE  /\ Stays(q, V \ {ko}, kn, A)
                => Proper(q, (K \ {ko}) \cup {kn}, (V \ {ko}) \cup {kn})
           /\ ~Stays(q, V \ {ko}, kn, A)
                => /\ FirstKey(q, A) \in (K \ {ko}) \ V
                   /\ Proper(q, (K \ {ko}) \cup {kn}, (V \ {ko}) \cup {FirstKey(q, A)})
<1>1. CASE q.cap = 1
  <2>1. V \ {ko} = {}
    BY <1>1, OneIs
  <2>2. Proper(q, (K \ {ko}) \cup {kn}, {kn})
    BY <1>1 DEF Proper, One
  <2>3. (V \ {ko}) \cup {kn} = {kn}
    BY <2>1
  <2>4. Stays(q, V \ {ko}, kn, A)
    BY <2>1 DEF Stays
  <2> QED BY <2>2, <2>3, <2>4
<1>2. CASE q.cap # 1
  <2> DEFINE K1 == (K \ {ko}) \cup {kn}
             V0 == V \ {ko}
             f == FirstKey(q, A)
             stays == Stays(q, V \ {ko}, kn, A)
  <2>1. IsTop(q, K, V) /\ q.cap \in Nat /\ q.cap > 1
    BY <1>2 DEF Proper
  <2>2. /\ stays => IsTop(q, K1, V0 \cup {kn})
        /\ ~stays => f \in (K \ {ko}) \ V /\ IsTop(q, K1, V0 \cup {f})
    BY <2>1, MoveTop
  <2>3. \A U : IsTop(q, K1, U) => Proper(q, K1, U)
    BY <1>2 DEF Proper
  <2> HIDE DEF K1
  <2>4. /\ stays => Proper(q, K1, V0 \cup {kn})
        /\ ~stays => f \in (K \ {ko}) \ V /\ Proper(q, K1, V0 \cup {f})
    BY <2>2, <2>3
  <2> QED BY <2>4 DEF K1
<1> QED BY <1>1, <1>2

LEMMA HiddenProper ==
    ASSUME NEW q, NEW K, NEW V, Proper(q, K, V), NEW L \in SUBSET K, V \subseteq L
    PROVE  Proper(q, L, V)
<1>1. CASE q.cap = 1
  BY <1>1 DEF Proper, One
<1>2. CASE q.cap # 1
  BY <1>2, HiddenTop DEF Proper
<1> QED BY <1>1, <1>2

LEMMA EnterProper ==
    ASSUME NEW q, q.cap \in Nat \ {0}, NEW K \in SUBSET Key, IsFiniteSet(K),
           NEW V, Proper(q, K, V), NEW kn \in Key, kn \notin K
    PROVE  /\ ~(Cardinality(V) >= q.cap) => Proper(q, K \cup {kn}, V \cup {kn})
           /\ Cardinality(V) >= q.cap =>
                /\ LastKey(q, V) \in V
                /\ Before(q, kn, LastKey(q, V))
                      => Proper(q, K \cup {kn}, (V \ {LastKey(q, V)}) \cup {kn})
                /\ ~Before(q, kn, LastKey(q, V)) => Proper(q, K \cup {kn}, V)
<1>1. CASE q.cap = 1 /\ V = {}
  <2>1. Cardinality(V) = 0
    BY <1>1, FS_EmptySet
  <2>2. Proper(q, K \cup {kn}, V \cup {kn})
    BY <1>1 DEF Proper, One
  <2> QED BY <1>1, <2>1, <2>2
<1>2. CASE q.cap = 1 /\ V # {}
  <2>1. PICK k \in K : V = {k}
    BY <1>2 DEF Proper, One
  <2>2. Cardinality(V) = 1 /\ IsFiniteSet(V) /\ V \in SUBSET Key
    BY <2>1, FS_Singleton
  <2>3. LastKey(q, V) \in V
    BY <1>2, <2>2, LastExists
  <2>4. Proper(q, K \cup {kn}, {kn}) /\ Proper(q, K \cup {kn}, V)
    BY <1>2, <2>1 DEF Proper, One
  <2>5. (V \ {LastKey(q, V)}) \cup {kn} = {kn}
    BY <2>1, <2>3
  <2> QED BY <1>2, <2>2, <2>3, <2>4, <2>5
<1>3. CASE q.cap # 1
  <2>1. IsTop(q, K, V)
    BY <1>3 DEF Proper
  <2> QED BY <1>3, <2>1, EnterTop DEF Proper
<1> QED BY <1>1, <1>2, <1>3

-----------------------------------------------------------------------------
(* One change: the view after it, and the stream that leads there. *)

LEMMA ShownIs ==
    ASSUME NEW view, view.window \in Window
    PROVE  /\ Shown(view) \in Window
           /\ \A id \in RowId : Shown(view)[id] = IF \E k \in view.visible : k.id = id
                                                  THEN view.window[id] ELSE None
BY DEF Shown, Window, Cell

LEMMA ReplayDelta ==
    ASSUME NEW held \in Window, NEW seq \in Nat, NEW id \in RowId, NEW row \in Row
    PROVE  /\ DeleteUpdate(seq, id) \in Delta
           /\ Replay(held, DeleteUpdate(seq, id)) = [held EXCEPT ![id] = None]
           /\ InsertUpdate(seq, id, row) \in Delta
           /\ Replay(held, InsertUpdate(seq, id, row)) = [held EXCEPT ![id] = row]
           /\ UpdateUpdate(seq, id, row) \in Delta
           /\ Replay(held, UpdateUpdate(seq, id, row)) = [held EXCEPT ![id] = row]
<1>1. held # StaleView
  BY StaleAssumption DEF Window
<1>2. DeleteUpdate(seq, id) \in Delta /\ InsertUpdate(seq, id, row) \in Delta /\ UpdateUpdate(seq, id, row) \in Delta
  BY DEF DeleteUpdate, InsertUpdate, UpdateUpdate, Delta
<1>3. /\ DeleteUpdate(seq, id).kind = "Delete" /\ DeleteUpdate(seq, id).id = id
      /\ InsertUpdate(seq, id, row).kind = "Insert" /\ InsertUpdate(seq, id, row).id = id
      /\ InsertUpdate(seq, id, row).row = row
      /\ UpdateUpdate(seq, id, row).kind = "Update" /\ UpdateUpdate(seq, id, row).id = id
      /\ UpdateUpdate(seq, id, row).row = row
  BY DEF DeleteUpdate, InsertUpdate, UpdateUpdate
<1>4. ASSUME NEW u, u.kind = "Delete" PROVE Replay(held, u) = [held EXCEPT ![u.id] = None]
  BY <1>1, <1>4 DEF Replay
<1>5. ASSUME NEW u, u.kind \in {"Insert", "Update"} PROVE Replay(held, u) = [held EXCEPT ![u.id] = u.row]
  BY <1>1, <1>5 DEF Replay
<1> QED BY <1>2, <1>3, <1>4, <1>5

(* The rows shown for V, but for what is said of one row. *)
Holds(held, w, V, id) ==
    /\ held \in Window
    /\ \A j \in RowId \ {id} : held[j] = IF \E k \in V : k.id = j THEN w[j] ELSE None

Outcome(q, w, held, next) ==
    /\ next.window = w
    /\ Proper(q, Keys(q, w), next.visible)
    /\ next.out \in Seq(Delta)
    /\ ReplayAll(held, next.out) = Shown(next)

LEMMA ShownEqual ==
    ASSUME NEW held \in Window, NEW view, view.window \in Window,
           \A id \in RowId : held[id] = IF \E k \in view.visible : k.id = id
                                        THEN view.window[id] ELSE None
    PROVE  held = Shown(view)
<1>1. Shown(view) \in Window /\ \A id \in RowId : Shown(view)[id] = held[id]
  BY ShownIs
<1> QED BY <1>1 DEF Window

LEMMA OneDelta ==
    ASSUME NEW u \in Delta PROVE <<u>> \in Seq(Delta) /\ <<>> \in Seq(Delta)
OBVIOUS

LEMMA TwoDeltas ==
    ASSUME NEW u \in Delta, NEW v \in Delta PROVE <<u, v>> \in Seq(Delta)
OBVIOUS

LEMMA LeaveOutcome ==
    ASSUME NEW q, q.cap \in Nat \ {0}, NEW w \in Window, NEW V \in SUBSET Keys(q, w),
           NEW id \in RowId, NEW seq \in Nat, NEW held, Holds(held, w, V, id),
           \A k \in V : k.id # id,
           Above(q, w, V) = {} => Proper(q, Keys(q, w), V),
           Above(q, w, V) # {} =>
              /\ FirstKey(q, Above(q, w, V)) \in Keys(q, w)
              /\ FirstKey(q, Above(q, w, V)).id # id
              /\ Proper(q, Keys(q, w), V \cup {FirstKey(q, Above(q, w, V))})
    PROVE  Outcome(q, w, held, Leave(q, w, V, id, seq))
<1> DEFINE A == Above(q, w, V)
           f == FirstKey(q, A)
           next == Leave(q, w, V, id, seq)
           mid == [held EXCEPT ![id] = None]
<1>1. Keys(q, w) \in SUBSET Key /\ IsFiniteSet(Keys(q, w))
  BY KeysFinite
<1>2. held \in Window /\ mid \in Window
  BY DEF Holds, Window, Cell
<1>3. \A j \in RowId : mid[j] = IF j = id THEN None ELSE held[j]
  BY <1>2 DEF Window
<1>4. \A j \in RowId : mid[j] = IF \E k \in V : k.id = j THEN w[j] ELSE None
  BY <1>3 DEF Holds
<1>5. CASE A = {}
  <2>1. next = [window |-> w, visible |-> V, out |-> <<DeleteUpdate(seq, id)>>]
    BY <1>5 DEF Leave
  <2> HIDE DEF next
  <2>2. next.window = w /\ next.visible = V /\ next.out = <<DeleteUpdate(seq, id)>>
    BY <2>1
  <2>3. DeleteUpdate(seq, id) \in Delta /\ Replay(held, DeleteUpdate(seq, id)) = mid
    <3>1. CASE Row = {}
      <4>1. Replay(held, DeleteUpdate(seq, id)) = mid
        <5>1. held # StaleView
          BY <1>2, StaleAssumption DEF Window
        <5> QED BY <5>1 DEF Replay, DeleteUpdate
      <4> QED BY <4>1 DEF DeleteUpdate, Delta
    <3>2. CASE Row # {}
      BY <1>2, <3>2, ReplayDelta
    <3> QED BY <3>1, <3>2
  <2>4. Proper(q, Keys(q, w), V)
    BY <1>5
  <2>5. ReplayAll(held, next.out) = mid
    <3>1. Len(next.out) = 1 /\ next.out[1] = DeleteUpdate(seq, id)
      BY <2>2
    <3>2. ReplayAll(held, next.out) = Replay(held, next.out[1])
      BY <3>1, ReplayShort
    <3> QED BY <2>3, <3>1, <3>2
  <2>6. mid = Shown(next)
    <3> HIDE DEF mid
    <3> QED BY <1>2, <1>4, <2>2, ShownEqual
  <2>7. next.out \in Seq(Delta)
    BY <2>2, <2>3, OneDelta
  <2>8. Outcome(q, w, held, next)
    BY <2>2, <2>4, <2>5, <2>6, <2>7 DEF Outcome
  <2> QED BY <2>8 DEF next
<1>6. CASE A # {}
  <2>1. next = [window |-> w, visible |-> V \cup {f},
                out |-> <<DeleteUpdate(seq, id), InsertUpdate(seq, f.id, w[f.id])>>]
    BY <1>6 DEF Leave
  <2>2. f \in Keys(q, w) /\ f.id # id /\ Proper(q, Keys(q, w), V \cup {f})
    BY <1>6
  <2> HIDE DEF next, f
  <2>3. next.window = w /\ next.visible = V \cup {f}
        /\ next.out = <<DeleteUpdate(seq, id), InsertUpdate(seq, f.id, w[f.id])>>
    BY <2>1
  <2>4. f.id \in RowId /\ w[f.id] \in Row
    BY <2>2, KeyHasId
  <2> DEFINE end == [mid EXCEPT ![f.id] = w[f.id]]
  <2>5. DeleteUpdate(seq, id) \in Delta /\ Replay(held, DeleteUpdate(seq, id)) = mid
    BY <1>2, <2>4, ReplayDelta
  <2>6. InsertUpdate(seq, f.id, w[f.id]) \in Delta /\ Replay(mid, InsertUpdate(seq, f.id, w[f.id])) = end
    <3> HIDE DEF mid
    <3>1. mid \in Window
      BY <1>2
    <3>2. PICK j \in RowId, row \in Row : j = f.id /\ row = w[f.id]
      BY <2>4
    <3>3. /\ InsertUpdate(seq, j, row) \in Delta
          /\ Replay(mid, InsertUpdate(seq, j, row)) = [mid EXCEPT ![j] = row]
      BY <3>1, ReplayDelta
    <3> QED BY <3>2, <3>3
  <2>7. end \in Window /\ \A j \in RowId : end[j] = IF j = f.id THEN w[f.id] ELSE mid[j]
    <3> HIDE DEF mid
    <3> QED BY <1>2, <2>4 DEF Window, Cell
  <2> HIDE DEF end, mid
  <2>8. \A j \in RowId : end[j] = IF \E k \in V \cup {f} : k.id = j THEN w[j] ELSE None
    BY <1>4, <2>4, <2>7
  <2>9. Proper(q, Keys(q, w), V \cup {f})
    BY <2>2
  <2>10. ReplayAll(held, next.out) = end
    <3> DEFINE d == DeleteUpdate(seq, id)
               e == InsertUpdate(seq, f.id, w[f.id])
    <3>1. next.out = <<d, e>> /\ Replay(held, d) = mid /\ Replay(mid, e) = end
      BY <2>3, <2>5, <2>6
    <3> HIDE DEF d, e
    <3>2. Len(next.out) = 2 /\ next.out[1] = d /\ next.out[2] = e
      BY <3>1
    <3>3. ReplayAll(held, next.out) = Replay(Replay(held, next.out[1]), next.out[2])
      BY <3>2, ReplayShort
    <3> QED BY <3>1, <3>2, <3>3
  <2>11. end = Shown(next)
    BY <2>3, <2>7, <2>8, ShownEqual
  <2>12. next.out \in Seq(Delta)
    BY <2>3, <2>5, <2>6, TwoDeltas
  <2>13. Outcome(q, w, held, next)
    BY <2>3, <2>9, <2>10, <2>11, <2>12 DEF Outcome
  <2> QED BY <2>13 DEF next
<1> QED BY <1>5, <1>6

(* An update of one row that is visible afterwards. *)
LEMMA PutOutcome ==
    ASSUME NEW q, q.cap \in Nat \ {0}, NEW w \in Window, NEW V, NEW kn \in Keys(q, w),
           NEW held, Holds(held, w, V, kn.id),
           Proper(q, Keys(q, w), V \cup {kn}),
           NEW u \in Delta, Replay(held, u) = [held EXCEPT ![kn.id] = w[kn.id]],
           NEW next, next = [window |-> w, visible |-> V \cup {kn}, out |-> <<u>>]
    PROVE  Outcome(q, w, held, next)
<1> DEFINE end == [held EXCEPT ![kn.id] = w[kn.id]]
<1>1. Keys(q, w) \in SUBSET Key /\ IsFiniteSet(Keys(q, w))
  BY KeysFinite
<1>2. kn.id \in RowId /\ w[kn.id] \in Row /\ held \in Window
  BY KeyHasId DEF Holds
<1>3. end \in Window /\ \A j \in RowId : end[j] = IF j = kn.id THEN w[kn.id] ELSE held[j]
  BY <1>2 DEF Window, Cell
<1>4. Replay(held, u) = end
  OBVIOUS
<1> HIDE DEF end
<1>5. next.window = w /\ next.visible = V \cup {kn} /\ next.out = <<u>>
  OBVIOUS
<1>6. \A j \in RowId : end[j] = IF \E k \in V \cup {kn} : k.id = j THEN w[j] ELSE None
  BY <1>2, <1>3 DEF Holds
<1>7. Proper(q, Keys(q, w), V \cup {kn})
  OBVIOUS
<1>8. ReplayAll(held, next.out) = end
  <2>1. Len(next.out) = 1 /\ next.out[1] = u
    BY <1>5
  <2>2. ReplayAll(held, next.out) = Replay(held, next.out[1])
    BY <2>1, ReplayShort
  <2> QED BY <1>4, <2>1, <2>2
<1>9. end = Shown(next)
  BY <1>3, <1>5, <1>6, ShownEqual
<1>10. next.out \in Seq(Delta)
  BY <1>5, OneDelta
<1> QED BY <1>5, <1>7, <1>8, <1>9, <1>10 DEF Outcome

LEMMA EnterOutcome ==
    ASSUME NEW q, q.cap \in Nat \ {0}, NEW w \in Window, NEW V \in SUBSET Keys(q, w),
           NEW kn \in Keys(q, w), NEW seq \in Nat,
           NEW held, Holds(held, w, V, kn.id), held[kn.id] = None,
           \A k \in V : k.id # kn.id,
           Proper(q, Keys(q, w) \ {kn}, V)
    PROVE  Outcome(q, w, held, Enter(q, w, V, kn, seq))
<1> DEFINE K == Keys(q, w)
           L == K \ {kn}
           x == LastKey(q, V)
           insert == InsertUpdate(seq, kn.id, w[kn.id])
           next == Enter(q, w, V, kn, seq)
<1>1. K \in SUBSET Key /\ IsFiniteSet(K)
  BY KeysFinite
<1>2. L \in SUBSET Key /\ IsFiniteSet(L) /\ kn \notin L /\ kn \in Key /\ L \cup {kn} = K
  BY <1>1, FS_RemoveElement
<1>3. /\ ~(Cardinality(V) >= q.cap) => Proper(q, K, V \cup {kn})
      /\ Cardinality(V) >= q.cap =>
            /\ x \in V
            /\ Before(q, kn, x) => Proper(q, K, (V \ {x}) \cup {kn})
            /\ ~Before(q, kn, x) => Proper(q, K, V)
  <2> HIDE DEF L, K
  <2>1. Proper(q, L, V)
    BY DEF L, K
  <2> QED BY <1>2, <2>1, EnterProper
<1>4. kn.id \in RowId /\ w[kn.id] \in Row /\ held \in Window
  BY KeyHasId DEF Holds
<1>5. insert \in Delta /\ Replay(held, insert) = [held EXCEPT ![kn.id] = w[kn.id]]
  BY <1>4, ReplayDelta
<1>6. CASE ~(Cardinality(V) >= q.cap)
  <2>1. next = [window |-> w, visible |-> V \cup {kn}, out |-> <<insert>>]
    BY <1>6 DEF Enter
  <2> HIDE DEF next, insert
  <2>2. Outcome(q, w, held, next)
    BY <1>3, <1>5, <1>6, <2>1, PutOutcome
  <2> QED BY <2>2 DEF next
<1>7. CASE Cardinality(V) >= q.cap /\ Before(q, kn, x)
  <2> DEFINE out2 == DeleteUpdate(seq, x.id)
             U == (V \ {x}) \cup {kn}
             mid == [held EXCEPT ![x.id] = None]
             end == [mid EXCEPT ![kn.id] = w[kn.id]]
  <2>1. next = [window |-> w, visible |-> U, out |-> <<out2, insert>>]
    BY <1>7 DEF Enter
  <2>2. x \in V /\ Proper(q, K, U)
    BY <1>3, <1>7
  <2> HIDE DEF x
  <2>3. x.id \in RowId /\ x.id # kn.id
    BY <2>2, KeyHasId
  <2>4. out2 \in Delta /\ Replay(held, out2) = mid
    <3>1. x.id \in RowId /\ w[kn.id] \in Row /\ held \in Window
      BY <1>4, <2>3
    <3> QED BY <3>1, ReplayDelta
  <2>5. mid \in Window /\ \A j \in RowId : mid[j] = IF j = x.id THEN None ELSE held[j]
    BY <1>4, <2>3 DEF Window, Cell
  <2> HIDE DEF mid
  <2>6. Replay(mid, insert) = end
    BY <1>4, <2>5, ReplayDelta
  <2>7. end \in Window /\ \A j \in RowId : end[j] = IF j = kn.id THEN w[kn.id] ELSE mid[j]
    BY <1>4, <2>5 DEF Window, Cell
  <2> HIDE DEF end, insert, out2, next
  <2>8. ASSUME NEW j \in RowId PROVE end[j] = IF \E k \in U : k.id = j THEN w[j] ELSE None
    <3>1. CASE j = kn.id
      BY <2>7, <3>1
    <3>2. CASE j # kn.id /\ j = x.id
      <4>1. end[j] = None
        BY <2>5, <2>7, <3>2
      <4>2. \A k \in V : k.id = j => k = x
        BY <2>2, <3>2, KeyHasId
      <4> QED BY <3>2, <4>1, <4>2
    <3>3. CASE j # kn.id /\ j # x.id
      <4>1. end[j] = held[j]
        BY <2>5, <2>7, <3>3
      <4>2. held[j] = IF \E k \in V : k.id = j THEN w[j] ELSE None
        BY <3>3 DEF Holds
      <4>3. (\E k \in V : k.id = j) <=> (\E k \in U : k.id = j)
        BY <3>3
      <4> QED BY <4>1, <4>2, <4>3
    <3> QED BY <3>1, <3>2, <3>3
  <2>9. Proper(q, K, U)
    BY <2>2
  <2>10. next.window = w /\ next.visible = U /\ next.out = <<out2, insert>>
    BY <2>1
  <2>11. ReplayAll(held, next.out) = end
    <3>1. Len(next.out) = 2 /\ next.out[1] = out2 /\ next.out[2] = insert
      BY <2>10
    <3>2. ReplayAll(held, next.out) = Replay(Replay(held, next.out[1]), next.out[2])
      BY <3>1, ReplayShort
    <3> QED BY <2>4, <2>6, <3>1, <3>2
  <2>12. end = Shown(next)
    <3> HIDE DEF U
    <3> QED BY <2>7, <2>8, <2>10, ShownEqual
  <2>13. next.out \in Seq(Delta)
    BY <1>5, <2>4, <2>10, TwoDeltas
  <2>14. Outcome(q, w, held, next)
    BY <2>9, <2>10, <2>11, <2>12, <2>13 DEF Outcome
  <2> QED BY <2>14 DEF next
<1>8. CASE Cardinality(V) >= q.cap /\ ~Before(q, kn, x)
  <2>1. next = [window |-> w, visible |-> V, out |-> <<>>]
    BY <1>8 DEF Enter
  <2>2. Proper(q, K, V)
    BY <1>3, <1>8
  <2> HIDE DEF next
  <2>3. next.window = w /\ next.visible = V /\ next.out = <<>>
    BY <2>1
  <2>4. Proper(q, K, V)
    BY <2>2
  <2>5. \A j \in RowId : held[j] = IF \E k \in V : k.id = j THEN w[j] ELSE None
    BY DEF Holds
  <2>6. held = Shown(next)
    BY <1>4, <2>3, <2>5, ShownEqual
  <2>7. ReplayAll(held, next.out) = held
    <3>1. Len(next.out) = 0
      BY <2>3
    <3> QED BY <3>1, ReplayShort
  <2>8. next.out \in Seq(Delta)
    BY <2>3
  <2>9. Outcome(q, w, held, next)
    BY <2>3, <2>4, <2>6, <2>7, <2>8 DEF Outcome
  <2> QED BY <2>9 DEF next
<1> QED BY <1>6, <1>7, <1>8

LEMMA MoveOutcome ==
    ASSUME NEW q, q.cap \in Nat \ {0}, NEW w \in Window, NEW id \in RowId, NEW seq \in Nat,
           NEW K \in SUBSET Key, IsFiniteSet(K), NEW V, Proper(q, K, V),
           NEW ko \in V, NEW kn \in Keys(q, w), kn.id = id,
           Keys(q, w) = (K \ {ko}) \cup {kn}, \A k \in K \ {ko} : k.id # id,
           NEW held, Holds(held, w, V \ {ko}, id)
    PROVE  Outcome(q, w, held, Move(q, w, V \ {ko}, kn, seq))
<1> DEFINE V0 == V \ {ko}
           A == Above(q, w, V0)
           f == FirstKey(q, A)
           stays == Stays(q, V0, kn, A)
           update == UpdateUpdate(seq, kn.id, w[kn.id])
           next == Move(q, w, V0, kn, seq)
<1>1. V \subseteq K /\ V0 \in SUBSET Key /\ IsFiniteSet(V0)
  <2>1. V \in SUBSET K
    BY ProperIs
  <2>2. V0 \in SUBSET K
    BY <2>1
  <2> QED BY <2>1, <2>2, FS_Subset
<1>2. IsBehind(q, (K \ {ko}) \cup {kn}, V0, A)
  <2> HIDE DEF V0
  <2> QED BY <1>1, AboveIs
<1>3. kn \in Key /\ kn \notin K \ {ko} /\ kn.id \in RowId /\ w[kn.id] \in Row
  BY KeyHasId
<1>4. /\ stays => Proper(q, Keys(q, w), V0 \cup {kn})
      /\ ~stays => f \in (K \ {ko}) \ V /\ Proper(q, Keys(q, w), V0 \cup {f})
  <2> HIDE DEF A
  <2> DEFINE K1 == (K \ {ko}) \cup {kn}
  <2>1. IsBehind(q, (K \ {ko}) \cup {kn}, V \ {ko}, A)
    BY <1>2
  <2>2. /\ stays => Proper(q, K1, V0 \cup {kn})
        /\ ~stays => f \in (K \ {ko}) \ V /\ Proper(q, K1, V0 \cup {f})
    BY <1>3, <2>1, MoveProper
  <2>3. Keys(q, w) = K1
    OBVIOUS
  <2> HIDE DEF K1, stays, V0, f
  <2> QED BY <2>2, <2>3
<1>5. CASE stays
  <2>1. next = [window |-> w, visible |-> V0 \cup {kn}, out |-> <<update>>]
    BY <1>5 DEF Move, Stays
  <2>2. held \in Window
    BY DEF Holds
  <2>3. update \in Delta /\ Replay(held, update) = [held EXCEPT ![kn.id] = w[kn.id]]
    BY <1>3, <2>2, ReplayDelta
  <2>4. Holds(held, w, V0, kn.id) /\ q.cap \in Nat \ {0}
    OBVIOUS
  <2>5. Proper(q, Keys(q, w), V0 \cup {kn})
    BY <1>4, <1>5
  <2> HIDE DEF next, update, V0
  <2>6. Outcome(q, w, held, next)
    BY <2>1, <2>3, <2>4, <2>5, PutOutcome
  <2> QED BY <2>6 DEF next, V0
<1>6. CASE ~stays
  <2>1. next = Leave(q, w, V0, id, seq)
    BY <1>6 DEF Move, Stays
  <2>2. f \in Keys(q, w) /\ f.id # id /\ Proper(q, Keys(q, w), V0 \cup {f}) /\ A # {}
    BY <1>4, <1>6 DEF Stays
  <2>3. V0 \in SUBSET Keys(q, w) /\ \A k \in V0 : k.id # id
    BY <1>1
  <2>4. Holds(held, w, V0, id) /\ q.cap \in Nat \ {0}
    OBVIOUS
  <2> HIDE DEF V0
  <2>5. Outcome(q, w, held, Leave(q, w, V0, id, seq))
    BY <2>2, <2>3, <2>4, LeaveOutcome
  <2> HIDE DEF next
  <2>6. Outcome(q, w, held, next)
    BY <2>1, <2>5
  <2> QED BY <2>6 DEF next, V0
<1> QED BY <1>5, <1>6

(* apply_change: what is visible stays the first cap rows, and the updates *)
(* say exactly what has changed.                                           *)
LEMMA ChangeOutcome ==
    ASSUME NEW q, q.cap \in Nat \ {0}, NEW view, view.window \in Window,
           Proper(q, Keys(q, view.window), view.visible),
           NEW c, c.id \in RowId, c.new \in Cell, NEW seq \in Nat
    PROVE  Outcome(q, [view.window EXCEPT ![c.id] = IF Matches(q, c.new) THEN c.new ELSE None],
                   Shown(view), ApplyChange(q, view, c, seq))
<1> DEFINE w0 == view.window
           id == c.id
           K == Keys(q, w0)
           V == view.visible
           matches == Matches(q, c.new)
           cell == IF matches THEN c.new ELSE None
           w == [w0 EXCEPT ![id] = cell]
           was == w0[id] # None
           ko == KeyOf(q, id, w0[id])
           kn == KeyOf(q, id, c.new)
           V0 == IF was THEN V \ {ko} ELSE V
           held == Shown(view)
           next == ApplyChange(q, view, c, seq)
<1>1. cell \in Cell /\ (cell # None <=> matches) /\ (matches => c.new = cell /\ c.new \in Row)
  BY RowFacts DEF Cell, Matches
<1>2. K \in SUBSET Key /\ IsFiniteSet(K) /\ q.cap \in Nat \ {0}
  BY KeysFinite
<1>3. Proper(q, K, V)
  OBVIOUS
<1>4. V \subseteq K
  BY <1>2, <1>3, ProperIs
<1>5. /\ w \in Window /\ w[id] = cell /\ \A j \in RowId \ {id} : w[j] = w0[j]
      /\ \A k : k \in Keys(q, w) <=>
            \/ k \in K /\ k.id # id
            \/ cell # None /\ k = KeyOf(q, id, cell)
      /\ \A k \in K : k.id = id <=> was /\ k = ko
      /\ was => ko \in K
  <2> HIDE DEF cell
  <2> QED BY <1>1, KeysChange
<1>6. matches => kn \in Keys(q, w) /\ kn.id = id /\ kn \in Key
  <2>1. matches => kn \in Keys(q, w)
    BY <1>1, <1>5
  <2> QED BY <1>1, <2>1, KeyTyped
<1>7. held \in Window /\ \A j \in RowId : held[j] = IF \E k \in V : k.id = j THEN w0[j] ELSE None
  BY ShownIs
<1> HIDE DEF w, K, V, cell, ko, kn, held
<1>8. \A k : k \in V0 <=> k \in V /\ k.id # id
  BY <1>4, <1>5
<1>9. V0 \in SUBSET Keys(q, w) /\ \A k \in V0 : k.id # id
  BY <1>4, <1>5, <1>8
<1>10. Holds(held, w, V0, id)
  <2>1. ASSUME NEW j \in RowId \ {id} PROVE held[j] = IF \E k \in V0 : k.id = j THEN w[j] ELSE None
    <3>1. (\E k \in V0 : k.id = j) <=> (\E k \in V : k.id = j)
      BY <1>8, <2>1
    <3>2. w[j] = w0[j]
      BY <1>5, <2>1
    <3> QED BY <1>7, <2>1, <3>1, <3>2
  <2> HIDE DEF V0
  <2> QED BY <1>7, <2>1 DEF Holds
<1>11. ASSUME matches PROVE Keys(q, w) = {k \in K : k.id # id} \cup {kn}
  BY <1>1, <1>5, <1>11 DEF kn
<1>12. ASSUME ~matches PROVE Keys(q, w) = {k \in K : k.id # id}
  BY <1>1, <1>5, <1>12
<1>13. ASSUME was PROVE {k \in K : k.id # id} = K \ {ko}
  BY <1>5, <1>13
<1>14. next = CASE matches /\ (was /\ ko \in V) -> Move(q, w, V0, kn, seq)
                [] matches /\ ~(was /\ ko \in V) -> Enter(q, w, V0, kn, seq)
                [] ~matches /\ (was /\ ko \in V) -> Leave(q, w, V0, id, seq)
                [] OTHER -> [window |-> w, visible |-> V0, out |-> <<>>]
  BY DEF ApplyChange, w, ko, kn, cell, V
<1> HIDE DEF next, V0, matches
<1>15. CASE matches /\ (was /\ ko \in V)
  <2>1. next = Move(q, w, V0, kn, seq) /\ V0 = V \ {ko}
    BY <1>14, <1>15 DEF V0
  <2>2. Keys(q, w) = (K \ {ko}) \cup {kn}
    BY <1>11, <1>13, <1>15
  <2>3. \A k \in K \ {ko} : k.id # id
    BY <1>5, <1>15
  <2>4. Holds(held, w, V \ {ko}, id) /\ kn \in Keys(q, w) /\ kn.id = id
    BY <1>6, <1>10, <1>15, <2>1
  <2>5. Outcome(q, w, held, Move(q, w, V \ {ko}, kn, seq))
    <3> HIDE DEF was
    <3> QED BY <1>2, <1>3, <1>5, <1>15, <2>2, <2>3, <2>4, MoveOutcome
  <2>6. Outcome(q, w, held, next)
    BY <2>1, <2>5
  <2> QED BY <2>6 DEF next, w, held, cell, matches
<1>16. CASE matches /\ ~(was /\ ko \in V)
  <2>1. next = Enter(q, w, V0, kn, seq)
    BY <1>14, <1>16
  <2>2. V0 = V
    BY <1>16 DEF V0
  <2>3. Keys(q, w) \ {kn} = {k \in K : k.id # id}
    BY <1>6, <1>11, <1>16
  <2>4. V \subseteq {k \in K : k.id # id}
    BY <1>4, <1>8, <2>2
  <2>5. Proper(q, Keys(q, w) \ {kn}, V)
    <3> DEFINE L == {k \in K : k.id # id}
    <3>1. L \in SUBSET K /\ V \subseteq L
      BY <2>4
    <3>2. Proper(q, L, V)
      <4> HIDE DEF L
      <4> QED BY <1>3, <3>1, HiddenProper
    <3> QED BY <2>3, <3>2
  <2>6. held[kn.id] = None
    <3>1. ~ \E k \in V : k.id = id
      BY <1>8, <2>2
    <3> QED BY <1>6, <1>7, <1>16, <3>1
  <2>7. kn \in Keys(q, w) /\ kn.id = id
    BY <1>6, <1>16
  <2>8. Outcome(q, w, held, Enter(q, w, V0, kn, seq))
    BY <1>2, <1>5, <1>9, <1>10, <2>2, <2>5, <2>6, <2>7, EnterOutcome
  <2>9. Outcome(q, w, held, next)
    BY <2>1, <2>8
  <2> QED BY <2>9 DEF next, w, held, cell, matches
<1>17. CASE ~matches /\ (was /\ ko \in V)
  <2>1. next = Leave(q, w, V0, id, seq) /\ V0 = V \ {ko}
    BY <1>14, <1>17 DEF V0
  <2>2. Keys(q, w) = K \ {ko}
    BY <1>12, <1>13, <1>17
  <2> DEFINE A == Above(q, w, V0)
             L == K \ {ko}
  <2>3. L \in SUBSET Key /\ IsFiniteSet(L) /\ IsFiniteSet(V) /\ Cardinality(V) \in Nat
    <3>1. IsFiniteSet(V)
      BY <1>2, <1>4, FS_Subset
    <3> QED BY <1>2, <3>1, FS_RemoveElement, FS_CardinalityType
  <2>4. V0 \in SUBSET L /\ V0 \in SUBSET Key /\ IsFiniteSet(V0)
    <3>1. V0 \in SUBSET L
      BY <1>4, <2>1
    <3> QED BY <2>3, <3>1, FS_Subset
  <2>5. IsBehind(q, L, V0, A)
    <3>1. IsBehind(q, Keys(q, w), V0, Above(q, w, V0))
      BY <1>5, <2>4, AboveIs
    <3> QED BY <2>2, <3>1
  <2>6. IsBehind(q, K \ {ko}, V \ {ko}, A)
    BY <2>1, <2>5
  <2> HIDE DEF A
  <2>7. /\ A = {} => Proper(q, K \ {ko}, V \ {ko})
        /\ A # {} => /\ FirstKey(q, A) \in (K \ {ko}) \ (V \ {ko})
                     /\ Proper(q, K \ {ko}, (V \ {ko}) \cup {FirstKey(q, A)})
    BY <1>2, <1>3, <1>17, <2>6, LeaveProper
  <2>9. /\ A = {} => Proper(q, L, V0)
        /\ A # {} => FirstKey(q, A) \in L \ V0 /\ Proper(q, L, V0 \cup {FirstKey(q, A)})
    <3>1. L = K \ {ko} /\ V0 = V \ {ko}
      BY <2>1
    <3> HIDE DEF L
    <3> QED BY <2>7, <3>1
  <2> HIDE DEF L
  <2>10. \A k \in L : k.id # id
    BY <1>5, <1>17 DEF L
  <2>11. L = Keys(q, w)
    BY <2>2 DEF L
  <2>12. Outcome(q, w, held, Leave(q, w, V0, id, seq))
    <3>1. /\ A = {} => Proper(q, Keys(q, w), V0)
          /\ A # {} => /\ FirstKey(q, A) \in Keys(q, w) /\ FirstKey(q, A).id # id
                       /\ Proper(q, Keys(q, w), V0 \cup {FirstKey(q, A)})
      BY <2>9, <2>10, <2>11
    <3> QED BY <1>2, <1>5, <1>9, <1>10, <3>1, LeaveOutcome DEF A
  <2>13. Outcome(q, w, held, next)
    BY <2>1, <2>12
  <2> QED BY <2>13 DEF next, w, held, cell, matches
<1>18. CASE ~matches /\ ~(was /\ ko \in V)
  <2>1. next = [window |-> w, visible |-> V0, out |-> <<>>]
    BY <1>14, <1>18
  <2>2. V0 = V
    BY <1>18 DEF V0
  <2>3. Proper(q, Keys(q, w), V)
    <3>1. Keys(q, w) \in SUBSET K /\ V \subseteq Keys(q, w)
      BY <1>9, <1>12, <1>18, <2>2
    <3> QED BY <1>3, <3>1, HiddenProper
  <2>4. next.window = w /\ next.visible = V /\ next.out = <<>>
    BY <2>1, <2>2
  <2>5. Proper(q, Keys(q, w), V)
    BY <2>3
  <2>6. \A j \in RowId : held[j] = IF \E k \in V : k.id = j THEN w[j] ELSE None
    <3>1. ~ \E k \in V : k.id = id
      BY <1>8, <2>2
    <3> QED BY <1>7, <1>10, <2>2, <3>1 DEF Holds
  <2>7. held = Shown(next)
    BY <1>5, <1>7, <2>4, <2>6, ShownEqual
  <2>8. ReplayAll(held, next.out) = held
    <3>1. Len(next.out) = 0
      BY <2>4
    <3> QED BY <3>1, ReplayShort
  <2>9. next.out \in Seq(Delta)
    BY <2>4
  <2>10. Outcome(q, w, held, next)
    BY <2>4, <2>5, <2>7, <2>8, <2>9 DEF Outcome
  <2> QED BY <2>10 DEF next, w, held, cell, matches
<1> QED BY <1>15, <1>16, <1>17, <1>18


-----------------------------------------------------------------------------
(* The changes of a commit: every changed row once, in the order of ranks. *)

LEMMA ChangesOrder ==
    ASSUME NEW new, NEW a \in RowId, NEW b \in RowId
    PROVE  /\ ~ChangesBefore(a, a, new)
           /\ a = b \/ ChangesBefore(a, b, new) \/ ChangesBefore(b, a, new)
           /\ \A c \in RowId : ChangesBefore(a, b, new) /\ ChangesBefore(b, c, new)
                                  => ChangesBefore(a, c, new)
<1>1. \A c \in RowId : KindRank(c, new) \in {0, 1, 2}
  BY DEF KindRank
<1>2. RowId \subseteq Nat
  BY RowFacts
<1> DEFINE r(c) == KindRank(c, new)
<1> HIDE DEF r
<1>3. \A c \in RowId : r(c) \in Int /\ c \in Int
  BY <1>1, <1>2 DEF r
<1>4. \A c, d \in RowId : ChangesBefore(c, d, new) <=> r(c) < r(d) \/ (r(c) = r(d) /\ c < d)
  BY DEF ChangesBefore, r
<1>5. ~ChangesBefore(a, a, new)
  BY <1>3, <1>4
<1>6. a = b \/ ChangesBefore(a, b, new) \/ ChangesBefore(b, a, new)
  BY <1>3, <1>4
<1>7. ASSUME NEW c \in RowId, ChangesBefore(a, b, new), ChangesBefore(b, c, new)
      PROVE  ChangesBefore(a, c, new)
  BY <1>3, <1>4, <1>7
<1> QED BY <1>5, <1>6, <1>7

LEMMA ChangesAre ==
    ASSUME NEW new
    PROVE  /\ IsFiniteSet(Changed(new)) /\ Cardinality(Changed(new)) \in Nat
           /\ \A i \in 1 .. Cardinality(Changed(new)) : ChangedAt(i, new) \in Changed(new)
           /\ \A id \in Changed(new) : \E i \in 1 .. Cardinality(Changed(new)) : ChangedAt(i, new) = id
<1> DEFINE C == Changed(new)
           n == Cardinality(C)
           B(id) == {b \in C : ChangesBefore(b, id, new)}
           p == [id \in C |-> Place(id, new)]
<1>1. C \subseteq RowId /\ IsFiniteSet(C) /\ n \in Nat
  <2>1. C \in SUBSET RowId /\ IsFiniteSet(RowId)
    BY RowFacts DEF Changed
  <2>2. IsFiniteSet(C)
    BY <2>1, FS_Subset
  <2> QED BY <2>1, <2>2, FS_CardinalityType
<1> HIDE DEF C
<1>2. ASSUME NEW id \in C
      PROVE  /\ B(id) \in SUBSET C /\ id \notin B(id) /\ IsFiniteSet(B(id))
             /\ Place(id, new) = Cardinality(B(id))
             /\ Cardinality(B(id)) \in 0 .. n - 1
  <2>1. B(id) \in SUBSET C
    OBVIOUS
  <2>2. id \notin B(id)
    BY <1>1, ChangesOrder
  <2>3. Place(id, new) = Cardinality(B(id))
    BY DEF Place, C
  <2> HIDE DEF B
  <2>4. IsFiniteSet(B(id)) /\ Cardinality(B(id)) <= n /\ (n = Cardinality(B(id)) => C = B(id))
    BY <1>1, <2>1, FS_Subset
  <2>5. Cardinality(B(id)) \in Nat /\ n # Cardinality(B(id))
    BY <2>2, <2>4, FS_CardinalityType
  <2>6. Cardinality(B(id)) \in 0 .. n - 1
    BY <1>1, <2>4, <2>5
  <2> QED BY <2>1, <2>2, <2>3, <2>4, <2>6
<1>3. ASSUME NEW a \in C, NEW b \in C, ChangesBefore(a, b, new)
      PROVE  Place(a, new) # Place(b, new)
  <2>1. B(a) \in SUBSET B(b)
    BY <1>1, <1>3, ChangesOrder
  <2>2. a \in B(b)
    BY <1>3
  <2>3. a \notin B(a) /\ IsFiniteSet(B(b))
    BY <1>2
  <2>4. Place(a, new) = Cardinality(B(a)) /\ Place(b, new) = Cardinality(B(b))
    BY <1>2
  <2> HIDE DEF B
  <2>5. Cardinality(B(b)) = Cardinality(B(a)) => B(b) = B(a)
    BY <2>1, <2>3, FS_Subset
  <2> QED BY <2>2, <2>3, <2>4, <2>5
<1>4. \A a, b \in C : Place(a, new) = Place(b, new) => a = b
  BY <1>1, <1>3, ChangesOrder
<1>5. p \in Injection(C, 0 .. n - 1)
  <2>1. p \in [C -> 0 .. n - 1]
    BY <1>2
  <2>2. \A a, b \in C : p[a] = p[b] => a = b
    BY <1>4
  <2> HIDE DEF p
  <2> QED BY <2>1, <2>2 DEF Injection, IsInjective
<1>6. p \in Surjection(C, 0 .. n - 1)
  <2> HIDE DEF n, p
  <2>1. n \in Nat
    BY <1>1
  <2>2. IsFiniteSet(0 .. n - 1) /\ Cardinality(0 .. n - 1) = n
    <3>1. 0 \in Int /\ n - 1 \in Int
      BY <2>1
    <3>2. IsFiniteSet(0 .. n - 1) /\ Cardinality(0 .. n - 1) = IF 0 > n - 1 THEN 0 ELSE (n - 1) - 0 + 1
      BY <3>1, FS_Interval
    <3> QED BY <2>1, <3>2
  <2>3. Cardinality(C) = n
    BY DEF n
  <2> QED BY <1>5, <2>2, <2>3, FS_Injection
<1>7. \A k \in 0 .. n - 1 : \E id \in C : Place(id, new) = k
  <2> HIDE DEF n
  <2>1. \A k \in 0 .. n - 1 : \E id \in C : p[id] = k
    <3> HIDE DEF p
    <3> QED BY <1>6 DEF Surjection
  <2> QED BY <2>1
<1>8. ASSUME NEW i \in 1 .. n
      PROVE  ChangedAt(i, new) \in C /\ Place(ChangedAt(i, new), new) = i - 1
  <2> HIDE DEF n
  <2>1. i - 1 \in 0 .. n - 1
    BY <1>1
  <2>2. \E id \in C : Place(id, new) = i - 1
    BY <1>7, <2>1
  <2> QED BY <2>2 DEF ChangedAt, C
<1>9. ASSUME NEW id \in C PROVE \E i \in 1 .. n : ChangedAt(i, new) = id
  <2> HIDE DEF n
  <2>1. Place(id, new) \in 0 .. n - 1
    BY <1>2 DEF n
  <2> DEFINE i == Place(id, new) + 1
  <2>2. i \in 1 .. n /\ i - 1 = Place(id, new)
    BY <1>1, <2>1
  <2> HIDE DEF i
  <2>3. ChangedAt(i, new) \in C /\ Place(ChangedAt(i, new), new) = Place(id, new)
    BY <1>8, <2>2
  <2>4. ChangedAt(i, new) = id
    BY <1>4, <2>3
  <2> QED BY <2>2, <2>4
<1> QED BY <1>1, <1>8, <1>9 DEF C

-----------------------------------------------------------------------------
(* A commit: the view of the rows it leaves, and a stream that leads there. *)

Selected(q, new) == [id \in RowId |-> IF Matches(q, new[id]) THEN new[id] ELSE None]

LEMMA SelectedIs ==
    ASSUME NEW q, NEW new \in Window
    PROVE  /\ Selected(q, new) \in Window
           /\ \A id \in RowId : Selected(q, new)[id] = IF Matches(q, new[id]) THEN new[id] ELSE None
<1>1. \A id \in RowId : new[id] \in Cell /\ None \in Cell
  BY DEF Window, Cell
<1> QED BY <1>1 DEF Selected, Window

LEMMA NextOutcome ==
    ASSUME NEW q, q.cap \in Nat \ {0}, NEW held, NEW acc, NEW w \in Window,
           Outcome(q, w, held, acc),
           NEW c, c.id \in RowId, c.new \in Cell, NEW seq \in Nat
    PROVE  Outcome(q, [w EXCEPT ![c.id] = IF Matches(q, c.new) THEN c.new ELSE None],
                   held, NextChange(q, acc, c, seq))
<1> DEFINE next == ApplyChange(q, acc, c, seq)
           v == [w EXCEPT ![c.id] = IF Matches(q, c.new) THEN c.new ELSE None]
           all == NextChange(q, acc, c, seq)
<1>1. acc.window = w /\ Proper(q, Keys(q, acc.window), acc.visible)
      /\ acc.out \in Seq(Delta) /\ ReplayAll(held, acc.out) = Shown(acc)
  BY DEF Outcome
<1>2. acc.window \in Window
  BY <1>1
<1>3. Outcome(q, v, Shown(acc), next)
  <2>1. Outcome(q, [acc.window EXCEPT ![c.id] = IF Matches(q, c.new) THEN c.new ELSE None],
                Shown(acc), ApplyChange(q, acc, c, seq))
    BY <1>1, <1>2, ChangeOutcome
  <2> QED BY <1>1, <2>1
<1> HIDE DEF v
<1>4. all = [window |-> next.window, visible |-> next.visible, out |-> acc.out \o next.out]
  BY DEF NextChange
<1> HIDE DEF next, all
<1>5. all.window = next.window /\ all.visible = next.visible /\ all.out = acc.out \o next.out
  BY <1>4
<1>6. next.window = v /\ Proper(q, Keys(q, v), next.visible)
      /\ next.out \in Seq(Delta) /\ ReplayAll(Shown(acc), next.out) = Shown(next)
  BY <1>3 DEF Outcome
<1>7. Shown(all) = Shown(next)
  BY <1>5 DEF Shown
<1>8. all.out \in Seq(Delta)
  BY <1>1, <1>5, <1>6
<1>9. ReplayAll(held, all.out) = Shown(all)
  <2>1. ReplayFirst(held, acc.out \o next.out, Len(acc.out \o next.out))
        = ReplayFirst(ReplayFirst(held, acc.out, Len(acc.out)), next.out, Len(next.out))
    <3> DEFINE a == acc.out
               b == next.out
    <3>1. a \in Seq(Delta) /\ b \in Seq(Delta)
      BY <1>1, <1>6
    <3> HIDE DEF a, b
    <3>2. ReplayFirst(held, a \o b, Len(a \o b)) = ReplayFirst(ReplayFirst(held, a, Len(a)), b, Len(b))
      BY <3>1, ReplayConcat
    <3> QED BY <3>2 DEF a, b
  <2>2. ReplayFirst(held, acc.out, Len(acc.out)) = Shown(acc)
    BY <1>1 DEF ReplayAll
  <2>3. ReplayFirst(Shown(acc), next.out, Len(next.out)) = Shown(next)
    BY <1>6 DEF ReplayAll
  <2> QED BY <1>5, <1>7, <2>1, <2>2, <2>3 DEF ReplayAll
<1>10. Outcome(q, v, held, all)
  BY <1>5, <1>6, <1>8, <1>9 DEF Outcome
<1> QED BY <1>10 DEF v, all

LEMMA CommitOutcome ==
    ASSUME NEW q, q.cap \in Nat \ {0}, NEW new \in Window, rows \in Window,
           NEW view, view.window = Selected(q, rows),
           Proper(q, Keys(q, view.window), view.visible), NEW seq \in Nat
    PROVE  Outcome(q, Selected(q, new), Shown(view), ApplyCommit(q, view, ChangesTo(new), seq))
<1> DEFINE n == Cardinality(Changed(new))
           changes == ChangesTo(new)
           at(i) == ChangedAt(i, new)
           Done(i) == {at(j) : j \in 1 .. i}
           W(i) == [id \in RowId |-> IF id \in Done(i) THEN Selected(q, new)[id] ELSE view.window[id]]
           acc(i) == ApplyFirst(q, view, changes, seq, i)
           S == {i \in 0 .. n : Outcome(q, W(i), Shown(view), acc(i))}
<1>1. n \in Nat /\ (\A i \in 1 .. n : at(i) \in Changed(new)) /\ Changed(new) \subseteq RowId
  BY ChangesAre DEF Changed
<1>2. Len(changes) = n /\ \A i \in 1 .. n : changes[i] = [id |-> at(i), new |-> new[at(i)]]
  <2>1. changes = [i \in 1 .. n |-> [id |-> at(i), new |-> new[at(i)]]]
    BY DEF ChangesTo, ChangeOf
  <2> HIDE DEF changes, at, n
  <2>2. Len(changes) = n
    BY <1>1, <2>1
  <2> QED BY <2>1, <2>2
<1> HIDE DEF n, changes, at
<1>3. view.window \in Window /\ Selected(q, new) \in Window
  BY SelectedIs
<1>4. ASSUME NEW i \in 0 .. n PROVE W(i) \in Window
  BY <1>3 DEF Window
<1>5. 0 \in S
  <2>1. W(0) = view.window
    <3>1. Done(0) = {}
      OBVIOUS
    <3> HIDE DEF Done
    <3> QED BY <1>3, <3>1 DEF Window
  <2> DEFINE a == acc(0)
  <2>2. a = [window |-> view.window, visible |-> view.visible, out |-> <<>>]
    <3>1. 0 \in Nat
      OBVIOUS
    <3> QED BY <3>1, ApplySteps
  <2> HIDE DEF a
  <2>3. a.window = view.window /\ a.visible = view.visible /\ a.out = <<>>
    BY <2>2
  <2>4. Shown(a) = Shown(view)
    BY <2>3 DEF Shown
  <2>5. ReplayAll(Shown(view), a.out) = Shown(view)
    <3>1. Len(a.out) = 0
      BY <2>3
    <3> QED BY <3>1, ReplayShort
  <2>6. a.out \in Seq(Delta)
    BY <2>3
  <2>7. Outcome(q, view.window, Shown(view), a)
    BY <2>3, <2>4, <2>5, <2>6 DEF Outcome
  <2>8. Outcome(q, W(0), Shown(view), acc(0))
    <3> HIDE DEF W, acc
    <3> QED BY <2>1, <2>7 DEF a
  <2>9. 0 \in 0 .. n
    BY <1>1
  <2> HIDE DEF W, acc
  <2> QED BY <2>8, <2>9
<1>6. ASSUME NEW i \in 1 .. n, i - 1 \in S PROVE i \in S
  <2> DEFINE c == changes[i]
  <2>1. i - 1 \in Nat /\ (i - 1) + 1 = i /\ i \in 0 .. n /\ i - 1 \in 0 .. n
    BY <1>1
  <2>2. at(i) \in RowId /\ new[at(i)] \in Cell
    BY <1>1 DEF Window
  <2>3. c = [id |-> at(i), new |-> new[at(i)]]
    BY <1>2
  <2> HIDE DEF c
  <2>4. c.id = at(i) /\ c.new = new[at(i)] /\ c.id \in RowId /\ c.new \in Cell
    BY <2>2, <2>3
  <2>5. acc(i) = NextChange(q, acc(i - 1), c, seq)
    <3>1. acc((i - 1) + 1) = NextChange(q, acc(i - 1), changes[(i - 1) + 1], seq)
      <4> DEFINE k == i - 1
      <4>1. k \in Nat
        BY <2>1
      <4> HIDE DEF k
      <4>2. ApplyFirst(q, view, changes, seq, k + 1) = NextChange(q, ApplyFirst(q, view, changes, seq, k), changes[k + 1], seq)
        BY <4>1, ApplySteps
      <4> QED BY <4>2 DEF k
    <3> HIDE DEF acc
    <3> QED BY <2>1, <3>1 DEF c
  <2>6. Outcome(q, W(i - 1), Shown(view), acc(i - 1))
    BY <1>6
  <2>7. W(i - 1) \in Window
    BY <1>4, <2>1
  <2>8. W(i) = [W(i - 1) EXCEPT ![c.id] = IF Matches(q, c.new) THEN c.new ELSE None]
    <3>1. Done(i) = Done(i - 1) \cup {at(i)}
      <4>1. \A j : j \in 1 .. i <=> j \in 1 .. (i - 1) \/ j = i
        BY <2>1
      <4> QED BY <4>1
    <3> HIDE DEF Done
    <3>2. Selected(q, new)[at(i)] = IF Matches(q, c.new) THEN c.new ELSE None
      BY <2>2, <2>4, SelectedIs
    <3>3. \A id \in RowId : W(i)[id] = IF id = c.id THEN (IF Matches(q, c.new) THEN c.new ELSE None) ELSE W(i - 1)[id]
      BY <2>4, <3>1, <3>2
    <3>4. W(i) = [id \in RowId |-> IF id = c.id THEN (IF Matches(q, c.new) THEN c.new ELSE None) ELSE W(i - 1)[id]]
      BY <3>3
    <3>5. W(i - 1) = [id \in RowId |-> W(i - 1)[id]]
      OBVIOUS
    <3> HIDE DEF W
    <3> QED BY <2>4, <3>4, <3>5
  <2> HIDE DEF W, acc
  <2>9. Outcome(q, W(i), Shown(view), acc(i))
    <3> DEFINE w == W(i - 1)
               a == acc(i - 1)
               held == Shown(view)
    <3>1. w \in Window /\ Outcome(q, w, held, a)
      BY <2>6, <2>7
    <3> HIDE DEF w, a, held
    <3>2. Outcome(q, [w EXCEPT ![c.id] = IF Matches(q, c.new) THEN c.new ELSE None],
                  held, NextChange(q, a, c, seq))
      BY <2>4, <3>1, NextOutcome
    <3> QED BY <2>5, <2>8, <3>2 DEF w, a, held
  <2> QED BY <2>1, <2>9
<1>7. n \in S
  <2> HIDE DEF S
  <2>1. 0 .. n \subseteq S
    BY <1>1, <1>5, <1>6, InductionOnInterval
  <2> QED BY <1>1, <2>1
<1>8. W(n) = Selected(q, new)
  <2>1. ASSUME NEW id \in RowId, id \notin Done(n) PROVE view.window[id] = Selected(q, new)[id]
    <3>1. id \notin Changed(new)
      <4>1. \A d \in Changed(new) : \E j \in 1 .. n : at(j) = d
        BY ChangesAre DEF n, at
      <4> QED BY <2>1, <4>1
    <3>2. new[id] = rows[id]
      BY <3>1 DEF Changed
    <3> QED BY <3>2, SelectedIs
  <2> HIDE DEF Done
  <2>2. W(n) = [id \in RowId |-> Selected(q, new)[id]]
    BY <2>1
  <2>3. Selected(q, new) = [id \in RowId |-> Selected(q, new)[id]]
    BY <1>3 DEF Window
  <2> HIDE DEF W
  <2> QED BY <2>2, <2>3
<1>9. ApplyCommit(q, view, changes, seq) = acc(n)
  BY <1>2 DEF ApplyCommit
<1> HIDE DEF W, acc
<1>10. Outcome(q, W(n), Shown(view), acc(n))
  BY <1>7
<1> QED BY <1>8, <1>9, <1>10 DEF changes

-----------------------------------------------------------------------------
(* What a consumer and a client make of a stream. *)

CView == [rows : Window, seq : Nat, stale : BOOLEAN, gap : BOOLEAN]

LEMMA ReceiveTyped ==
    ASSUME NEW v \in CView, NEW u \in Update
    PROVE  Receive(v, u) \in CView
<1>1. v = [rows |-> v.rows, seq |-> v.seq, stale |-> v.stale, gap |-> v.gap]
      /\ v.rows \in Window /\ v.seq \in Nat /\ v.stale \in BOOLEAN /\ v.gap \in BOOLEAN
  BY DEF CView
<1>2. CASE u.kind \in {"Initial", "Resync"}
  <2>1. u.rows \in Window /\ u.seq \in Nat
    BY <1>2 DEF Update, Delta, Window
  <2>2. Receive(v, u) = [v EXCEPT !.rows = u.rows, !.seq = u.seq, !.stale = FALSE]
    BY <1>2 DEF Receive, ApplySnapshot
  <2> QED BY <2>1, <2>2 DEF CView
<1>3. CASE u.kind = "Stale"
  BY <1>3 DEF Receive, CView
<1>4. CASE u.kind \in {"Insert", "Update", "Delete"} /\ v.stale
  <2>1. Receive(v, u) = v
    BY <1>4 DEF Receive
  <2> QED BY <2>1
<1>5. CASE u.kind \in {"Insert", "Update", "Delete"} /\ ~v.stale
  <2> DEFINE cell == IF u.kind = "Delete" THEN None ELSE u.row
  <2>1. u.id \in RowId /\ u.seq \in Nat /\ cell \in Cell
    BY <1>5 DEF Update, Delta, Cell
  <2>2. Receive(v, u) = ApplyDelta(v, u)
    BY <1>5 DEF Receive
  <2>3. [v.rows EXCEPT ![u.id] = cell] \in Window
    BY <1>1, <2>1 DEF Window
  <2>4. ApplyDelta(v, u) \in
           {[v EXCEPT !.stale = TRUE, !.gap = TRUE],
            [v EXCEPT !.rows = [v.rows EXCEPT ![u.id] = cell], !.seq = u.seq]}
    BY DEF ApplyDelta
  <2> HIDE DEF cell
  <2> QED BY <1>1, <2>1, <2>2, <2>3, <2>4 DEF CView
<1>6. u.kind \in {"Initial", "Resync", "Stale", "Insert", "Update", "Delete"}
  BY DEF Update, Delta
<1> QED BY <1>1, <1>2, <1>3, <1>4, <1>5, <1>6

LEMMA ReplayTyped ==
    ASSUME NEW h \in Window \cup {StaleView}, NEW u \in Update
    PROVE  Replay(h, u) \in Window \cup {StaleView}
<1>1. CASE u.kind \in {"Initial", "Resync"}
  <2>1. u.rows \in Window
    BY <1>1 DEF Update, Delta, Window
  <2>2. Replay(h, u) = u.rows
    BY <1>1 DEF Replay
  <2> QED BY <2>1, <2>2
<1>2. CASE u.kind = "Stale" \/ (h = StaleView /\ u.kind \in {"Insert", "Update", "Delete"})
  BY <1>2 DEF Replay
<1>3. CASE u.kind \in {"Insert", "Update", "Delete"} /\ h # StaleView
  <2> DEFINE cell == IF u.kind = "Delete" THEN None ELSE u.row
  <2>1. u.id \in RowId /\ cell \in Cell
    BY <1>3 DEF Update, Delta, Cell
  <2>2. Replay(h, u) = [h EXCEPT ![u.id] = cell]
    BY <1>3 DEF Replay
  <2> HIDE DEF cell
  <2> QED BY <1>3, <2>1, <2>2 DEF Window
<1>4. u.kind \in {"Initial", "Resync", "Stale", "Insert", "Update", "Delete"}
  BY DEF Update, Delta
<1> QED BY <1>1, <1>2, <1>3, <1>4

LEMMA BufferTyped ==
    ASSUME NEW v \in CView, NEW h \in Window \cup {StaleView}, NEW s \in Seq(Update)
    PROVE  /\ ReceiveFirst(v, s, Len(s)) \in CView
           /\ ReplayFirst(h, s, Len(s)) \in Window \cup {StaleView}
<1> DEFINE n == Len(s)
           S == {i \in 0 .. n : /\ ReceiveFirst(v, s, i) \in CView
                                /\ ReplayFirst(h, s, i) \in Window \cup {StaleView}}
<1>1. n \in Nat /\ \A i \in 1 .. n : s[i] \in Update
  OBVIOUS
<1> HIDE DEF n
<1>2. 0 \in S
  BY <1>1, ReceiveSteps, ReplaySteps
<1>3. ASSUME NEW i \in 1 .. n, i - 1 \in S PROVE i \in S
  <2> DEFINE x == ReceiveFirst(v, s, i - 1)
             y == ReplayFirst(h, s, i - 1)
  <2>1. i - 1 \in Nat /\ (i - 1) + 1 = i /\ i \in 0 .. n
    BY <1>1
  <2>2. ReceiveFirst(v, s, (i - 1) + 1) = Receive(x, s[(i - 1) + 1])
    BY <2>1, ReceiveSteps
  <2>3. ReplayFirst(h, s, (i - 1) + 1) = Replay(y, s[(i - 1) + 1])
    BY <2>1, ReplaySteps
  <2>4. x \in CView /\ y \in Window \cup {StaleView} /\ s[i] \in Update
    BY <1>1, <1>3
  <2> HIDE DEF x, y
  <2>5. Receive(x, s[i]) \in CView /\ Replay(y, s[i]) \in Window \cup {StaleView}
    BY <2>4, ReceiveTyped, ReplayTyped
  <2> QED BY <2>1, <2>2, <2>3, <2>5
<1>4. n \in S
  <2> HIDE DEF S
  <2>1. 0 .. n \subseteq S
    BY <1>1, <1>2, <1>3, InductionOnInterval
  <2> QED BY <1>1, <2>1
<1> QED BY <1>4 DEF n

(* A client that holds what the replay holds keeps holding it, or turns    *)
(* stale at a sequence number it does not accept.                          *)
Follows(v, h) == v \in CView /\ h \in Window /\ (v.stale \/ v.rows = h)

LEMMA ReceiveDelta ==
    ASSUME NEW v, NEW h, Follows(v, h), NEW u \in Delta
    PROVE  Follows(Receive(v, u), Replay(h, u))
<1> DEFINE cell == IF u.kind = "Delete" THEN None ELSE u.row
           g == [h EXCEPT ![u.id] = cell]
<1>1. u \in Update /\ u.kind \in {"Insert", "Update", "Delete"} /\ u.id \in RowId /\ cell \in Cell
  BY DEF Delta, Update, Cell
<1>2. v \in CView /\ h \in Window /\ (v.stale \/ v.rows = h)
  BY DEF Follows
<1>3. h # StaleView
  BY <1>2, StaleAssumption DEF Window
<1>4. Replay(h, u) = g
  BY <1>1, <1>3 DEF Replay
<1>5. g \in Window
  <2> HIDE DEF cell
  <2> QED BY <1>1, <1>2 DEF Window
<1>6. Receive(v, u) \in CView
  BY <1>1, <1>2, ReceiveTyped
<1>7. Receive(v, u).stale \/ Receive(v, u).rows = g
  <2>1. CASE v.stale
    BY <1>1, <2>1 DEF Receive
  <2>2. CASE ~v.stale
    <3>1. Receive(v, u) = ApplyDelta(v, u)
      BY <1>1, <2>2 DEF Receive
    <3>2. ApplyDelta(v, u) \in
             {[v EXCEPT !.stale = TRUE, !.gap = TRUE],
              [v EXCEPT !.rows = [v.rows EXCEPT ![u.id] = cell], !.seq = u.seq]}
      BY DEF ApplyDelta
    <3>3. v.rows = h
      BY <1>2, <2>2
    <3> HIDE DEF cell
    <3> QED BY <1>2, <3>1, <3>2, <3>3 DEF CView
  <2> QED BY <2>1, <2>2
<1> HIDE DEF g
<1> QED BY <1>4, <1>5, <1>6, <1>7 DEF Follows

LEMMA ReceiveDeltas ==
    ASSUME NEW v, NEW h, Follows(v, h), NEW s \in Seq(Delta)
    PROVE  Follows(ReceiveFirst(v, s, Len(s)), ReplayFirst(h, s, Len(s)))
<1> DEFINE n == Len(s)
           S == {i \in 0 .. n : Follows(ReceiveFirst(v, s, i), ReplayFirst(h, s, i))}
<1>1. n \in Nat /\ \A i \in 1 .. n : s[i] \in Delta
  OBVIOUS
<1> HIDE DEF n
<1>2. 0 \in S
  BY <1>1, ReceiveSteps, ReplaySteps
<1>3. ASSUME NEW i \in 1 .. n, i - 1 \in S PROVE i \in S
  <2> DEFINE x == ReceiveFirst(v, s, i - 1)
             y == ReplayFirst(h, s, i - 1)
  <2>1. i - 1 \in Nat /\ (i - 1) + 1 = i /\ i \in 0 .. n
    BY <1>1
  <2>2. ReceiveFirst(v, s, (i - 1) + 1) = Receive(x, s[(i - 1) + 1])
    BY <2>1, ReceiveSteps
  <2>3. ReplayFirst(h, s, (i - 1) + 1) = Replay(y, s[(i - 1) + 1])
    BY <2>1, ReplaySteps
  <2>4. Follows(x, y) /\ s[i] \in Delta
    BY <1>1, <1>3
  <2> HIDE DEF x, y
  <2>5. Follows(Receive(x, s[i]), Replay(y, s[i]))
    BY <2>4, ReceiveDelta
  <2> QED BY <2>1, <2>2, <2>3, <2>5
<1>4. n \in S
  <2> HIDE DEF S
  <2>1. 0 .. n \subseteq S
    BY <1>1, <1>2, <1>3, InductionOnInterval
  <2> QED BY <1>1, <2>1
<1> QED BY <1>4 DEF n

-----------------------------------------------------------------------------
(* One subscription: its buffer leads its consumer to the shown rows, and  *)
(* its client there or to the stale mark.                                  *)

InStep(sub, view, held, v) ==
    LET end == ReceiveFirst(v, sub.buffer, Len(sub.buffer))
    IN  /\ ReplayAll(held, sub.buffer) = IF sub.state = "Stale" THEN StaleView ELSE Shown(view)
        /\ end.stale \/ (sub.state = "Active" /\ end.rows = Shown(view))

(* Nothing is said of a member of a window of one that was misled. *)
Served(sub, view, held, v, m, lost) ==
    InStep(sub, view, held, v) \/ (m \in lost /\ sub.query.cap = 1)

LEMMA FreshInStep ==
    ASSUME NEW q \in Queries, NEW view, view.window \in Window, NEW held, NEW v \in CView,
           NEW seq \in Nat, NEW kind \in {"Initial", "Resync"}
    PROVE  /\ Fresh(q, Snapshot(kind, seq, view)) \in Subscriber
           /\ Fresh(q, Snapshot(kind, seq, view)).query = q
           /\ InStep(Fresh(q, Snapshot(kind, seq, view)), view, held, v)
<1> DEFINE u == Snapshot(kind, seq, view)
           sub == Fresh(q, u)
<1>1. u = [kind |-> kind, seq |-> seq, rows |-> Shown(view)]
  BY DEF Snapshot
<1>2. Shown(view) \in Window
  BY ShownIs
<1>3. u \in Update
  BY <1>1, <1>2 DEF Update, Window
<1> HIDE DEF u
<1>4. u.kind \in {"Initial", "Resync"} /\ u.rows = Shown(view)
  BY <1>1
<1>5. sub = [query |-> q, state |-> "Active", buffer |-> <<u>>]
  BY DEF Fresh
<1>6. <<u>> \in Seq(Update)
  BY <1>3
<1>7. sub \in Subscriber
  BY <1>5, <1>6 DEF Subscriber
<1> HIDE DEF sub
<1>8. sub.query = q /\ sub.state = "Active" /\ sub.buffer = <<u>>
  BY <1>5
<1>9. ReplayAll(held, sub.buffer) = Shown(view)
  <2>1. Len(sub.buffer) = 1 /\ sub.buffer[1] = u
    BY <1>8
  <2>2. ReplayAll(held, sub.buffer) = Replay(held, u)
    BY <2>1, ReplayShort
  <2>3. Replay(held, u) = u.rows
    BY <1>4 DEF Replay
  <2> QED BY <1>4, <2>2, <2>3
<1>10. ReceiveFirst(v, sub.buffer, Len(sub.buffer)).rows = Shown(view)
  <2>1. ReceiveFirst(v, <<u>>, Len(<<u>>)) = Receive(v, u)
    BY ReceiveShort
  <2>2. Receive(v, u) = [v EXCEPT !.rows = u.rows, !.seq = u.seq, !.stale = FALSE]
    BY <1>4 DEF Receive, ApplySnapshot
  <2>3. Receive(v, u).rows = u.rows
    BY <2>2 DEF CView
  <2> QED BY <1>4, <1>8, <2>1, <2>3
<1>11. InStep(sub, view, held, v)
  BY <1>8, <1>9, <1>10 DEF InStep
<1> QED BY <1>7, <1>8, <1>11 DEF sub, u

LEMMA DrainInStep ==
    ASSUME NEW sub \in Subscriber, NEW view, NEW held \in Window \cup {StaleView}, NEW v \in CView,
           NEW m, NEW lost, Served(sub, view, held, v, m, lost)
    PROVE  LET left == [sub EXCEPT !.buffer = <<>>]
               h == ReplayAll(held, sub.buffer)
               e == ReceiveFirst(v, sub.buffer, Len(sub.buffer))
           IN  /\ left \in Subscriber /\ left.query = sub.query
               /\ h \in Window \cup {StaleView} /\ e \in CView
               /\ Served(left, view, h, e, m, lost)
<1> DEFINE left == [sub EXCEPT !.buffer = <<>>]
           h == ReplayAll(held, sub.buffer)
           e == ReceiveFirst(v, sub.buffer, Len(sub.buffer))
<1>1. left \in Subscriber /\ left.query = sub.query /\ left.state = sub.state /\ left.buffer = <<>>
  <2> DEFINE b == <<>>
  <2>1. b \in Seq(Update)
    OBVIOUS
  <2>2. left = [sub EXCEPT !.buffer = b]
    OBVIOUS
  <2> HIDE DEF b, left
  <2>3. left \in Subscriber /\ left.query = sub.query /\ left.state = sub.state /\ left.buffer = b
    BY <2>1, <2>2 DEF Subscriber
  <2> QED BY <2>3 DEF b
<1>2. sub.buffer \in Seq(Update)
  BY DEF Subscriber
<1>3. h \in Window \cup {StaleView} /\ e \in CView
  BY <1>2, BufferTyped DEF ReplayAll
<1>4. \/ m \in lost /\ sub.query.cap = 1
      \/ /\ h = IF sub.state = "Stale" THEN StaleView ELSE Shown(view)
         /\ e.stale \/ (sub.state = "Active" /\ e.rows = Shown(view))
  BY DEF InStep, Served
<1> HIDE DEF left, h, e
<1>5. ReplayAll(h, left.buffer) = h
  <2>1. Len(left.buffer) = 0
    BY <1>1
  <2> QED BY <2>1, ReplayShort
<1>6. ReceiveFirst(e, left.buffer, Len(left.buffer)) = e
  BY <1>1, ReceiveShort
<1>7. Served(left, view, h, e, m, lost)
  BY <1>1, <1>4, <1>5, <1>6 DEF InStep, Served
<1> QED BY <1>1, <1>3, <1>7 DEF left, h, e

LEMMA PushInStep ==
    ASSUME NEW sub \in Subscriber, sub.state = "Active", NEW view, view.window \in Window,
           NEW held, NEW v \in CView,
           NEW m, NEW lost, Served(sub, view, held, v, m, lost),
           NEW deltas \in Seq(Delta), NEW next, ReplayAll(Shown(view), deltas) = Shown(next),
           NEW seq \in Nat
    PROVE  /\ PushCommit(sub, deltas, seq) \in Subscriber
           /\ PushCommit(sub, deltas, seq).query = sub.query
           /\ Served(PushCommit(sub, deltas, seq), next, held, v, m, lost)
<1> DEFINE sent == PushCommit(sub, deltas, seq)
           b == sub.buffer
           s == StaleUpdate(seq)
<1>1. b \in Seq(Update) /\ deltas \in Seq(Update) /\ sub.query \in Queries
  BY DEF Subscriber, Update
<1>2. CASE sent = [sub EXCEPT !.buffer = b \o deltas]
  <2>1. b \o deltas \in Seq(Update)
    BY <1>1
  <2> HIDE DEF sent
  <2>2. sent \in Subscriber /\ sent.query = sub.query /\ sent.state = "Active" /\ sent.buffer = b \o deltas
    BY <1>2, <2>1 DEF Subscriber
  <2>3. CASE InStep(sub, view, held, v)
    <3> DEFINE end == ReceiveFirst(v, b, Len(b))
               last == ReceiveFirst(end, deltas, Len(deltas))
    <3>3. end.stale \/ end.rows = Shown(view)
      BY <2>3 DEF InStep
    <3>4. ReplayFirst(held, b, Len(b)) = Shown(view)
      BY <2>3 DEF InStep, ReplayAll
    <3>5. Shown(view) \in Window
      BY ShownIs
    <3>6. end \in CView
      <4>1. StaleView \in Window \cup {StaleView}
        OBVIOUS
      <4> QED BY <1>1, <4>1, BufferTyped
    <3> HIDE DEF b
    <3>7. ReplayFirst(held, b \o deltas, Len(b \o deltas)) = Shown(next)
      <4>1. ReplayFirst(held, b \o deltas, Len(b \o deltas))
            = ReplayFirst(ReplayFirst(held, b, Len(b)), deltas, Len(deltas))
        BY <1>1, ReplayConcat
      <4> QED BY <3>4, <4>1 DEF ReplayAll
    <3>8. ReceiveFirst(v, b \o deltas, Len(b \o deltas)) = last
      BY <1>1, ReceiveConcat
    <3>9. last.stale \/ last.rows = Shown(next)
      <4> HIDE DEF end
      <4>1. Follows(end, Shown(view))
        BY <3>3, <3>5, <3>6 DEF Follows
      <4>2. Follows(last, ReplayFirst(Shown(view), deltas, Len(deltas)))
        BY <4>1, ReceiveDeltas
      <4> QED BY <4>2 DEF Follows, ReplayAll
    <3> HIDE DEF last
    <3>10. InStep(sent, next, held, v)
      BY <2>2, <3>7, <3>8, <3>9 DEF InStep, ReplayAll
    <3> QED BY <2>2, <3>10 DEF sent, Served
  <2>4. CASE m \in lost /\ sub.query.cap = 1
    BY <2>2, <2>4 DEF sent, Served
  <2> QED BY <2>3, <2>4 DEF Served
<1>3. CASE sent = MarkStale(sub, seq)
  <2>1. s \in Update /\ s.kind = "Stale"
    BY DEF StaleUpdate, Update
  <2>2. <<s>> \in Seq(Update)
    BY <2>1
  <2>3. sent = [sub EXCEPT !.state = "Stale", !.buffer = <<s>>]
    BY <1>3 DEF MarkStale
  <2> HIDE DEF sent, s
  <2>4. sent \in Subscriber /\ sent.query = sub.query /\ sent.state = "Stale" /\ sent.buffer = <<s>>
    BY <2>2, <2>3 DEF Subscriber
  <2>5. ReplayAll(held, sent.buffer) = StaleView
    <3>1. Len(sent.buffer) = 1 /\ sent.buffer[1] = s
      BY <2>4
    <3>2. ReplayAll(held, sent.buffer) = Replay(held, s)
      BY <3>1, ReplayShort
    <3> QED BY <2>1, <3>2 DEF Replay
  <2>6. ReceiveFirst(v, sent.buffer, Len(sent.buffer)).stale
    <3>1. ReceiveFirst(v, <<s>>, Len(<<s>>)) = Receive(v, s)
      BY ReceiveShort
    <3>2. Receive(v, s) = [v EXCEPT !.stale = TRUE]
      BY <2>1 DEF Receive
    <3>3. Receive(v, s).stale
      BY <3>2 DEF CView
    <3> QED BY <2>4, <3>1, <3>3
  <2>7. InStep(sent, next, held, v)
    BY <2>4, <2>5, <2>6 DEF InStep
  <2> QED BY <2>4, <2>7 DEF sent, Served
<1>4. sent = [sub EXCEPT !.buffer = b \o deltas] \/ sent = MarkStale(sub, seq)
  BY DEF PushCommit
<1> QED BY <1>2, <1>3, <1>4

LEMMA SameInStep ==
    ASSUME NEW sub, NEW view, NEW next, Shown(view) = Shown(next), NEW held, NEW v,
           NEW m, NEW lost, Served(sub, view, held, v, m, lost)
    PROVE  Served(sub, next, held, v, m, lost)
BY DEF InStep, Served

-----------------------------------------------------------------------------
(* The inductive invariant.  A view exists exactly while its query has a   *)
(* member -- without that a view could outlive the commits that keep it,   *)
(* or a member lose the view that feeds it -- and ids are never reused, so *)
(* a new member was never misled.                                          *)

Typed ==
    /\ rows \in Window /\ nextSeq \in Nat /\ nextId \in Nat
    /\ views \in [Queries -> View \cup {None}]
    /\ subs \in [SubId -> Subscriber \cup {None}]
    /\ replica \in [SubId -> Window \cup {StaleView}]
    /\ client \in [SubId -> CView] /\ misled \subseteq SubId

Groups ==
    /\ \A m \in SubId : subs[m] # None => m < nextId /\ views[subs[m].query] # None
    /\ \A q \in Queries : views[q] # None => \E m \in SubId : subs[m] # None /\ subs[m].query = q

Good(q, view, table) ==
    /\ view.window = Selected(q, table)
    /\ Proper(q, Keys(q, Selected(q, table)), view.visible)

TopViews == \A q \in Queries : views[q] # None => Good(q, views[q], rows)

AllInStep ==
    \A m \in SubId : subs[m] # None =>
        Served(subs[m], views[subs[m].query], replica[m], client[m], m, misled)

SubInv == Typed /\ Groups /\ TopViews /\ AllInStep

LEMMA RebuiltIs ==
    ASSUME NEW q, NEW w \in Window
    PROVE  /\ Rebuilt(q, w) \in View /\ Rebuilt(q, w) # None
           /\ Rebuilt(q, w).window = w /\ Rebuilt(q, w).visible = TopCap(q, Keys(q, w))
           /\ Rebuilt(q, w) = [window |-> w, visible |-> TopCap(q, Keys(q, w))]
           /\ q.cap \in Nat \ {0} => Proper(q, Keys(q, w), Rebuilt(q, w).visible)
<1> DEFINE T == TopCap(q, Keys(q, w))
<1>1. T \in SUBSET [sort : Row \cup {0}, id : RowId]
  <2>1. \A k \in T : k \in Keys(q, w)
    BY DEF TopCap
  <2> QED BY <2>1, KeyHasId
<1>2. Rebuilt(q, w) = [window |-> w, visible |-> T]
  BY DEF Rebuilt
<1> HIDE DEF T
<1>3. Rebuilt(q, w) \in View
  BY <1>1, <1>2 DEF View, Window
<1>4. Rebuilt(q, w) # None
  BY <1>3, NoneAssumption
<1>5. Rebuilt(q, w).window = w /\ Rebuilt(q, w).visible = T
  BY <1>2
<1>6. q.cap \in Nat \ {0} => Proper(q, Keys(q, w), T)
  BY KeysFinite, TopProper DEF T
<1> QED BY <1>2, <1>3, <1>4, <1>5, <1>6 DEF T

(* A rebuilt view is good, and for windows of two or more the only one. *)
LEMMA GoodIs ==
    ASSUME NEW q \in Queries, NEW table \in Window
    PROVE  /\ Good(q, Rebuilt(q, Selected(q, table)), table)
           /\ \A view \in View : q.cap # 1 /\ Good(q, view, table)
                                   => view = Rebuilt(q, Selected(q, table))
<1> DEFINE w == Selected(q, table)
           K == Keys(q, w)
<1>1. q.cap \in Nat \ {0}
  BY SubscriptionAssumption
<1>2. w \in Window
  BY SelectedIs
<1> HIDE DEF w
<1>3. /\ Rebuilt(q, w).window = w /\ Proper(q, K, Rebuilt(q, w).visible)
      /\ Rebuilt(q, w) = [window |-> w, visible |-> TopCap(q, K)]
  BY <1>1, <1>2, RebuiltIs
<1>4. K \in SUBSET Key /\ IsFiniteSet(K)
  BY <1>2, KeysFinite
<1> HIDE DEF K
<1>5. ASSUME NEW view \in View, q.cap # 1, view.window = w, Proper(q, K, view.visible)
      PROVE  view = Rebuilt(q, w)
  <2>1. IsTop(q, K, view.visible)
    BY <1>5 DEF Proper
  <2>2. view.visible = TopCap(q, K)
    BY <1>1, <1>4, <2>1, TopUnique
  <2>3. view = [window |-> view.window, visible |-> view.visible]
    BY DEF View
  <2> QED BY <1>3, <1>5, <2>2, <2>3
<1> QED BY <1>3, <1>5 DEF Good, w, K

LEMMA SubOf ==
    ASSUME SubInv, NEW m \in SubId, subs[m] # None
    PROVE  /\ subs[m] \in Subscriber /\ subs[m].query \in Queries
           /\ views[subs[m].query] # None /\ views[subs[m].query] \in View
           /\ views[subs[m].query].window \in Window
           /\ replica[m] \in Window \cup {StaleView} /\ client[m] \in CView
           /\ Served(subs[m], views[subs[m].query], replica[m], client[m], m, misled)
<1>1. subs[m] \in Subscriber
  BY DEF SubInv, Typed
<1>2. subs[m].query \in Queries
  BY <1>1 DEF Subscriber
<1>3. views[subs[m].query] # None
  BY DEF SubInv, Groups
<1>4. views[subs[m].query] \in View
  BY <1>2, <1>3 DEF SubInv, Typed
<1>5. views[subs[m].query].window \in Window
  BY <1>4 DEF View, Window
<1>6. replica[m] \in Window \cup {StaleView} /\ client[m] \in CView
  BY DEF SubInv, Typed
<1>7. Served(subs[m], views[subs[m].query], replica[m], client[m], m, misled)
  BY DEF SubInv, AllInStep
<1> QED BY <1>1, <1>2, <1>3, <1>4, <1>5, <1>6, <1>7

LEMMA SubInvStart == CInit => SubInv
<1> SUFFICES ASSUME CInit PROVE SubInv
  OBVIOUS
<1>1. rows \in Window /\ nextSeq \in Nat /\ nextId \in Nat
  BY DEF CInit, SInit, Window
<1>2. views = [q \in Queries |-> None] /\ subs = [m \in SubId |-> None]
  BY DEF CInit, SInit
<1>3. NoRows \in Window
  BY DEF NoRows, Window, Cell
<1>4. replica \in [SubId -> Window \cup {StaleView}]
  BY <1>3 DEF CInit, SInit
<1>5. NewView \in CView
  BY <1>3 DEF NewView, CView
<1>6. client \in [SubId -> CView]
  BY <1>5 DEF CInit
<1>7. Typed
  BY <1>1, <1>2, <1>4, <1>6 DEF Typed, CInit, SInit
<1>8. Groups /\ TopViews /\ AllInStep
  BY <1>2 DEF Groups, TopViews, AllInStep
<1> QED BY <1>7, <1>8 DEF SubInv

LEMMA ElsewhereKeeps ==
    ASSUME SubInv, CommitElsewhere \/ UNCHANGED svars, UNCHANGED client PROVE SubInv'
<1>1. /\ rows' = rows /\ views' = views /\ subs' = subs /\ nextId' = nextId
      /\ replica' = replica /\ client' = client /\ misled' = misled
  BY DEF CommitElsewhere, svars, store, registry
<1>2. nextSeq' \in Nat
  BY DEF CommitElsewhere, svars, store, registry, SubInv, Typed
<1>3. Typed'
  BY <1>1, <1>2 DEF SubInv, Typed
<1>4. Groups' /\ TopViews' /\ AllInStep'
  BY <1>1 DEF SubInv, Groups, TopViews, AllInStep
<1> QED BY <1>3, <1>4 DEF SubInv

LEMMA SubscribeKeeps ==
    ASSUME SubInv, NEW q \in Queries, Subscribe(q), UNCHANGED client PROVE SubInv'
<1> DEFINE view == IF views[q] # None THEN views[q] ELSE Rebuilt(q, MatchingRows(q))
           sub == Fresh(q, Snapshot("Initial", nextSeq, view))
<1>1. /\ rows' = rows /\ nextSeq' = nextSeq /\ nextId' = nextId + 1
      /\ replica' = replica /\ client' = client /\ misled' = misled
      /\ views' = [views EXCEPT ![q] = view] /\ subs' = [subs EXCEPT ![nextId] = sub]
  BY DEF Subscribe, store
<1>2. /\ rows \in Window /\ nextSeq \in Nat /\ nextId \in Nat
      /\ views \in [Queries -> View \cup {None}] /\ subs \in [SubId -> Subscriber \cup {None}]
      /\ client \in [SubId -> CView] /\ replica \in [SubId -> Window \cup {StaleView}]
      /\ misled \subseteq SubId
  BY DEF SubInv, Typed
<1>3. nextId \in SubId
  <2>1. nextId < MaxSubs /\ MaxSubs \in Nat
    BY SubscriptionAssumption DEF Subscribe
  <2> QED BY <1>2, <2>1 DEF SubId
<1>4. Good(q, view, rows) /\ view \in View /\ view # None
  <2>1. CASE views[q] # None
    BY <1>2, <2>1 DEF SubInv, TopViews
  <2>2. CASE views[q] = None
    <3>1. view = Rebuilt(q, Selected(q, rows))
      BY <2>2 DEF MatchingRows, Selected
    <3>2. Selected(q, rows) \in Window
      BY <1>2, SelectedIs
    <3> HIDE DEF view
    <3> QED BY <1>2, <3>1, <3>2, RebuiltIs, GoodIs
  <2> QED BY <2>1, <2>2
<1>5. view \in View /\ view # None /\ view.window \in Window
  <2>1. Selected(q, rows) \in Window
    BY <1>2, SelectedIs
  <2> HIDE DEF view
  <2> QED BY <1>4, <2>1 DEF Good
<1>6. sub \in Subscriber /\ sub.query = q /\ InStep(sub, view, replica[nextId], client[nextId])
  <2>1. client[nextId] \in CView
    BY <1>2, <1>3
  <2> HIDE DEF view
  <2> QED BY <1>2, <1>5, <2>1, FreshInStep
<1>16. views[q] # None => view = views[q]
  OBVIOUS
<1>7. sub # None
  BY <1>6, NoneAssumption
<1> HIDE DEF view, sub
<1>8. views'[q] = view /\ \A p \in Queries : p # q => views'[p] = views[p]
  BY <1>1, <1>2
<1>9. subs'[nextId] = sub /\ \A m \in SubId : m # nextId => subs'[m] = subs[m]
  BY <1>1, <1>2, <1>3
<1>10. views[q] # None => views'[q] = views[q]
  BY <1>8, <1>16
<1>11. Typed'
  <2>1. views' \in [Queries -> View \cup {None}]
    BY <1>1, <1>2, <1>5
  <2>2. subs' \in [SubId -> Subscriber \cup {None}]
    BY <1>1, <1>2, <1>6
  <2> QED BY <1>1, <1>2, <2>1, <2>2 DEF Typed
<1>12. ASSUME NEW m \in SubId, subs'[m] # None, m # nextId
       PROVE  /\ subs'[m] = subs[m] /\ m < nextId /\ subs[m].query \in Queries
              /\ views[subs[m].query] # None /\ views'[subs[m].query] = views[subs[m].query]
              /\ Served(subs[m], views[subs[m].query], replica[m], client[m], m, misled)
  <2>1. subs'[m] = subs[m]
    BY <1>9, <1>12
  <2>2. /\ subs[m].query \in Queries /\ views[subs[m].query] # None
        /\ Served(subs[m], views[subs[m].query], replica[m], client[m], m, misled)
    BY <1>12, <2>1, SubOf
  <2>3. m < nextId
    BY <1>12, <2>1 DEF SubInv, Groups
  <2> QED BY <1>8, <1>10, <2>1, <2>2, <2>3
<1>13. Groups'
  <2>1. ASSUME NEW m \in SubId, subs'[m] # None
        PROVE  m < nextId' /\ views'[subs'[m].query] # None
    <3>1. CASE m = nextId
      BY <1>1, <1>2, <1>5, <1>6, <1>8, <1>9, <3>1
    <3>2. CASE m # nextId
      <4>1. m < nextId /\ views'[subs'[m].query] # None
        BY <1>12, <2>1, <3>2
      <4>2. m \in Int
        BY DEF SubId
      <4> QED BY <1>1, <1>2, <4>1, <4>2
    <3> QED BY <3>1, <3>2
  <2>2. ASSUME NEW p \in Queries, views'[p] # None
        PROVE  \E m \in SubId : subs'[m] # None /\ subs'[m].query = p
    <3>1. CASE p = q
      BY <1>3, <1>6, <1>7, <1>9, <3>1
    <3>2. CASE p # q
      <4>1. views[p] # None
        BY <1>8, <2>2, <3>2
      <4>2. PICK m \in SubId : subs[m] # None /\ subs[m].query = p
        BY <4>1 DEF SubInv, Groups
      <4>3. m # nextId
        <5>1. m < nextId
          BY <4>2 DEF SubInv, Groups
        <5> QED BY <1>2, <5>1
      <4> QED BY <1>9, <4>2, <4>3
    <3> QED BY <3>1, <3>2
  <2> QED BY <2>1, <2>2 DEF Groups
<1>14. TopViews'
  <2>1. ASSUME NEW p \in Queries, views'[p] # None
        PROVE  Good(p, views'[p], rows)
    BY <1>4, <1>8, <2>1 DEF SubInv, TopViews
  <2> QED BY <1>1, <2>1 DEF TopViews
<1>15. AllInStep'
  <2>1. ASSUME NEW m \in SubId, subs'[m] # None
        PROVE  Served(subs'[m], views'[subs'[m].query], replica'[m], client'[m], m, misled')
    <3>1. CASE m = nextId
      BY <1>1, <1>6, <1>8, <1>9, <3>1 DEF Served
    <3>2. CASE m # nextId
      BY <1>1, <1>12, <2>1, <3>2
    <3> QED BY <3>1, <3>2
  <2> QED BY <2>1 DEF AllInStep
<1> QED BY <1>11, <1>13, <1>14, <1>15 DEF SubInv

LEMMA ResyncKeeps ==
    ASSUME SubInv, NEW m \in SubId, Resync(m), UNCHANGED client PROVE SubInv'
<1> DEFINE q == subs[m].query
           view == Rebuilt(q, MatchingRows(q))
           sub == Fresh(q, Snapshot("Resync", nextSeq, view))
<1>1. /\ rows' = rows /\ nextSeq' = nextSeq /\ nextId' = nextId
      /\ replica' = replica /\ client' = client /\ subs[m] # None
      /\ views' = [views EXCEPT ![q] = view] /\ subs' = [subs EXCEPT ![m] = sub]
      /\ misled' = (misled \ {m}) \cup {k \in Members(q) \ {m} : views[q] # view}
  BY DEF Resync, store
<1>2. /\ rows \in Window /\ nextSeq \in Nat /\ nextId \in Nat
      /\ views \in [Queries -> View \cup {None}] /\ subs \in [SubId -> Subscriber \cup {None}]
      /\ client \in [SubId -> CView] /\ replica \in [SubId -> Window \cup {StaleView}]
      /\ misled \subseteq SubId
  BY DEF SubInv, Typed
<1>3. q \in Queries /\ views[q] # None /\ views[q] \in View
  BY <1>1, SubOf
<1> HIDE DEF q
<1>4. Good(q, view, rows) /\ view \in View /\ view # None /\ view.window \in Window
  <2>1. view = Rebuilt(q, Selected(q, rows))
    BY DEF MatchingRows, Selected
  <2>2. Selected(q, rows) \in Window
    BY <1>2, SelectedIs
  <2> HIDE DEF view
  <2> QED BY <1>2, <1>3, <2>1, <2>2, RebuiltIs, GoodIs
<1>5. view # views[q] => q.cap = 1
  <2>1. Good(q, views[q], rows)
    BY <1>3 DEF SubInv, TopViews
  <2>2. view = Rebuilt(q, Selected(q, rows))
    BY DEF MatchingRows, Selected
  <2> HIDE DEF view
  <2> QED BY <1>2, <1>3, <2>1, <2>2, GoodIs
<1> HIDE DEF view
<1>6. sub \in Subscriber /\ sub.query = q /\ InStep(sub, view, replica[m], client[m])
  <2>1. client[m] \in CView
    BY <1>2
  <2> QED BY <1>2, <1>3, <1>4, <2>1, FreshInStep
<1>7. sub # None
  BY <1>6, NoneAssumption
<1> HIDE DEF sub
<1>8. /\ subs'[m] = sub /\ \A k \in SubId : k # m => subs'[k] = subs[k]
      /\ views'[q] = view /\ \A p \in Queries : p # q => views'[p] = views[p]
  BY <1>1, <1>2, <1>3
<1>9. \A k \in SubId : (subs'[k] # None <=> subs[k] # None) /\ (subs[k] # None => subs'[k].query = subs[k].query)
  BY <1>1, <1>6, <1>7, <1>8 DEF q
<1>10. Typed'
  <2>1. subs' \in [SubId -> Subscriber \cup {None}]
    BY <1>1, <1>2, <1>6
  <2>2. views' \in [Queries -> View \cup {None}]
    BY <1>1, <1>2, <1>4
  <2>3. misled' \subseteq SubId
    BY <1>1, <1>2 DEF Members
  <2> QED BY <1>1, <1>2, <2>1, <2>2, <2>3 DEF Typed
<1>11. \A p \in Queries : views'[p] # None <=> views[p] # None
  BY <1>3, <1>4, <1>8
<1>12. Groups'
  <2>1. ASSUME NEW k \in SubId, subs'[k] # None
        PROVE  k < nextId' /\ views'[subs'[k].query] # None
    <3>1. subs[k] # None /\ subs'[k].query = subs[k].query
      BY <1>9, <2>1
    <3>2. subs[k].query \in Queries /\ views[subs[k].query] # None
      BY <3>1, SubOf
    <3>3. k < nextId
      BY <3>1 DEF SubInv, Groups
    <3> QED BY <1>1, <1>11, <3>1, <3>2, <3>3
  <2>2. ASSUME NEW p \in Queries, views'[p] # None
        PROVE  \E k \in SubId : subs'[k] # None /\ subs'[k].query = p
    <3>1. PICK k \in SubId : subs[k] # None /\ subs[k].query = p
      BY <1>11, <2>2 DEF SubInv, Groups
    <3> QED BY <1>9, <3>1
  <2> QED BY <2>1, <2>2 DEF Groups
<1>13. TopViews'
  <2>1. ASSUME NEW p \in Queries, views'[p] # None PROVE Good(p, views'[p], rows)
    BY <1>4, <1>8, <2>1 DEF SubInv, TopViews
  <2> QED BY <1>1, <2>1 DEF TopViews
<1>14. AllInStep'
  <2>1. ASSUME NEW k \in SubId, subs'[k] # None
        PROVE  Served(subs'[k], views'[subs'[k].query], replica'[k], client'[k], k, misled')
    <3>1. CASE k = m
      BY <1>1, <1>6, <1>8, <3>1 DEF Served
    <3>2. CASE k # m
      <4>1. subs'[k] = subs[k] /\ subs[k] # None
        BY <1>8, <2>1, <3>2
      <4>2. /\ Served(subs[k], views[subs[k].query], replica[k], client[k], k, misled)
            /\ subs[k].query \in Queries
        BY <4>1, SubOf
      <4>3. k \in misled => k \in misled'
        BY <1>1, <3>2
      <4>4. CASE subs[k].query = q /\ view # views[q]
        <5>1. k \in misled'
          BY <1>1, <3>2, <4>1, <4>4 DEF Members
        <5> QED BY <1>5, <4>1, <4>4, <5>1 DEF Served
      <4>5. CASE ~(subs[k].query = q /\ view # views[q])
        <5>1. views'[subs[k].query] = views[subs[k].query]
          BY <1>8, <4>2, <4>5
        <5> QED BY <1>1, <4>1, <4>2, <4>3, <5>1 DEF Served
      <4> QED BY <4>4, <4>5
    <3> QED BY <3>1, <3>2
  <2> QED BY <2>1 DEF AllInStep
<1> QED BY <1>10, <1>12, <1>13, <1>14 DEF SubInv

(* Draining any set of subscriptions. *)
LEMMA DrainSetKeeps ==
    ASSUME SubInv, NEW D \in SUBSET SubId, \A m \in D : subs[m] # None,
           rows' = rows, nextSeq' = nextSeq, nextId' = nextId, views' = views, misled' = misled,
           subs' = [m \in SubId |-> IF m \in D THEN [subs[m] EXCEPT !.buffer = <<>>] ELSE subs[m]],
           replica' = [m \in SubId |-> IF m \in D THEN Delivered(m) ELSE replica[m]],
           client' = [m \in SubId |-> IF m \in D THEN Received(m) ELSE client[m]]
    PROVE  SubInv'
<1> DEFINE left(m) == [subs[m] EXCEPT !.buffer = <<>>]
<1>1. /\ rows \in Window /\ nextSeq \in Nat /\ nextId \in Nat
      /\ views \in [Queries -> View \cup {None}] /\ subs \in [SubId -> Subscriber \cup {None}]
      /\ client \in [SubId -> CView] /\ replica \in [SubId -> Window \cup {StaleView}]
      /\ misled \subseteq SubId
  BY DEF SubInv, Typed
<1>2. ASSUME NEW m \in D
      PROVE  /\ left(m) \in Subscriber /\ left(m) # None /\ left(m).query = subs[m].query
             /\ Delivered(m) \in Window \cup {StaleView} /\ Received(m) \in CView
             /\ Served(left(m), views[subs[m].query], Delivered(m), Received(m), m, misled)
  <2>1. m \in SubId /\ subs[m] # None
    OBVIOUS
  <2>2. /\ subs[m] \in Subscriber /\ replica[m] \in Window \cup {StaleView} /\ client[m] \in CView
        /\ Served(subs[m], views[subs[m].query], replica[m], client[m], m, misled)
    BY <2>1, SubOf
  <2>3. /\ left(m) \in Subscriber /\ left(m).query = subs[m].query
        /\ Delivered(m) \in Window \cup {StaleView} /\ Received(m) \in CView
        /\ Served(left(m), views[subs[m].query], Delivered(m), Received(m), m, misled)
    BY <2>2, DrainInStep DEF Delivered, Received
  <2>4. left(m) # None
    BY <2>3, NoneAssumption
  <2> QED BY <2>3, <2>4
<1> HIDE DEF left
<1>3. \A m \in SubId : m \in D => subs'[m] = left(m) /\ replica'[m] = Delivered(m) /\ client'[m] = Received(m)
  BY DEF left
<1>4. \A m \in SubId : m \notin D => subs'[m] = subs[m] /\ replica'[m] = replica[m] /\ client'[m] = client[m]
  OBVIOUS
<1>5. Typed'
  <2>1. \A m \in SubId : subs'[m] \in Subscriber \cup {None}
    BY <1>1, <1>2, <1>3, <1>4
  <2>2. \A m \in SubId : replica'[m] \in Window \cup {StaleView}
    BY <1>1, <1>2, <1>3, <1>4
  <2>3. \A m \in SubId : client'[m] \in CView
    BY <1>1, <1>2, <1>3, <1>4
  <2>4. subs' \in [SubId -> Subscriber \cup {None}]
    BY <2>1
  <2>5. replica' \in [SubId -> Window \cup {StaleView}] /\ client' \in [SubId -> CView]
    BY <2>2, <2>3
  <2> QED BY <1>1, <2>4, <2>5 DEF Typed
<1>6. \A m \in SubId : (subs'[m] # None <=> subs[m] # None) /\ (subs[m] # None => subs'[m].query = subs[m].query)
  BY <1>2, <1>3, <1>4
<1>7. Groups'
  BY <1>6 DEF SubInv, Groups
<1>8. TopViews'
  BY DEF SubInv, TopViews
<1>9. AllInStep'
  <2>1. ASSUME NEW m \in SubId, subs'[m] # None
        PROVE  Served(subs'[m], views'[subs'[m].query], replica'[m], client'[m], m, misled')
    <3>1. CASE m \in D
      <4>1. /\ Served(left(m), views[subs[m].query], Delivered(m), Received(m), m, misled)
            /\ left(m).query = subs[m].query
        BY <1>2, <3>1
      <4>2. subs'[m] = left(m) /\ replica'[m] = Delivered(m) /\ client'[m] = Received(m)
        BY <1>3, <3>1
      <4> QED BY <4>1, <4>2
    <3>2. CASE m \notin D
      <4>1. subs'[m] = subs[m] /\ replica'[m] = replica[m] /\ client'[m] = client[m] /\ subs[m] # None
        BY <1>4, <2>1, <3>2
      <4>2. Served(subs[m], views[subs[m].query], replica[m], client[m], m, misled)
        BY <4>1, SubOf
      <4> QED BY <4>1, <4>2
    <3> QED BY <3>1, <3>2
  <2> QED BY <2>1 DEF AllInStep
<1> QED BY <1>5, <1>7, <1>8, <1>9 DEF SubInv

LEMMA DrainKeeps ==
    ASSUME SubInv, (\E m \in SubId : ClientDrain(m)) \/ ClientDrainAll
    PROVE  SubInv'
<1>1. /\ subs \in [SubId -> Subscriber \cup {None}]
      /\ client \in [SubId -> CView] /\ replica \in [SubId -> Window \cup {StaleView}]
      /\ misled \subseteq SubId
  BY DEF SubInv, Typed
<1>2. ASSUME NEW m \in SubId, ClientDrain(m) PROVE SubInv'
  <2> DEFINE D == {m}
  <2>1. /\ subs[m] # None /\ rows' = rows /\ nextSeq' = nextSeq /\ nextId' = nextId /\ views' = views /\ misled' = misled
        /\ replica' = [replica EXCEPT ![m] = Delivered(m)]
        /\ subs' = [subs EXCEPT ![m].buffer = <<>>]
        /\ client' = [client EXCEPT ![m] = Received(m)]
    BY <1>2 DEF ClientDrain, Drain, store
  <2>2. subs' = [k \in SubId |-> IF k \in D THEN [subs[k] EXCEPT !.buffer = <<>>] ELSE subs[k]]
    BY <1>1, <2>1
  <2>3. replica' = [k \in SubId |-> IF k \in D THEN Delivered(k) ELSE replica[k]]
    BY <1>1, <2>1
  <2>4. client' = [k \in SubId |-> IF k \in D THEN Received(k) ELSE client[k]]
    BY <1>1, <2>1
  <2>5. D \in SUBSET SubId /\ \A k \in D : subs[k] # None
    BY <2>1
  <2> HIDE DEF D
  <2> QED BY <2>1, <2>2, <2>3, <2>4, <2>5, DrainSetKeeps
<1>3. ASSUME ClientDrainAll PROVE SubInv'
  <2> DEFINE D == {m \in SubId : m \in pending /\ subs[m] # None}
  <2>1. rows' = rows /\ nextSeq' = nextSeq /\ nextId' = nextId /\ views' = views /\ misled' = misled
    BY <1>3 DEF ClientDrainAll, DrainAllPending, store
  <2>2. subs' = [m \in SubId |-> IF m \in D THEN [subs[m] EXCEPT !.buffer = <<>>] ELSE subs[m]]
    BY <1>3 DEF ClientDrainAll, DrainAllPending
  <2>3. replica' = [m \in SubId |-> IF m \in D THEN Delivered(m) ELSE replica[m]]
    BY <1>3 DEF ClientDrainAll, DrainAllPending
  <2>4. client' = [m \in SubId |-> IF m \in D THEN Received(m) ELSE client[m]]
    BY <1>3 DEF ClientDrainAll
  <2>5. D \in SUBSET SubId /\ \A m \in D : subs[m] # None
    OBVIOUS
  <2> HIDE DEF D
  <2> QED BY <2>1, <2>2, <2>3, <2>4, <2>5, DrainSetKeeps
<1> QED BY <1>2, <1>3

LEMMA UnsubscribeKeeps ==
    ASSUME SubInv, NEW m \in SubId, ClientUnsubscribe(m) PROVE SubInv'
<1> DEFINE q == subs[m].query
<1>1. /\ rows' = rows /\ nextSeq' = nextSeq /\ nextId' = nextId /\ subs[m] # None
      /\ subs' = [subs EXCEPT ![m] = None]
      /\ views' = IF Members(q) = {m} THEN [views EXCEPT ![q] = None] ELSE views
      /\ replica' = [replica EXCEPT ![m] = NoRows] /\ misled' = misled \ {m}
      /\ client' = [client EXCEPT ![m] = NewView]
  BY DEF ClientUnsubscribe, Unsubscribe, store
<1>2. /\ rows \in Window /\ nextSeq \in Nat /\ nextId \in Nat
      /\ views \in [Queries -> View \cup {None}] /\ subs \in [SubId -> Subscriber \cup {None}]
      /\ client \in [SubId -> CView] /\ replica \in [SubId -> Window \cup {StaleView}]
      /\ misled \subseteq SubId
  BY DEF SubInv, Typed
<1>3. NoRows \in Window /\ NewView \in CView
  BY DEF NoRows, Window, Cell, NewView, CView
<1>4. q \in Queries
  BY <1>1, SubOf
<1> HIDE DEF q
<1>5. subs'[m] = None /\ \A k \in SubId : k # m => subs'[k] = subs[k] /\ replica'[k] = replica[k] /\ client'[k] = client[k]
  BY <1>1, <1>2
<1>6. Typed'
  <2>1. views' \in [Queries -> View \cup {None}]
    BY <1>1, <1>2
  <2>2. subs' \in [SubId -> Subscriber \cup {None}]
    BY <1>1, <1>2
  <2>3. replica' \in [SubId -> Window \cup {StaleView}] /\ client' \in [SubId -> CView]
    BY <1>1, <1>2, <1>3
  <2> QED BY <1>1, <1>2, <2>1, <2>2, <2>3 DEF Typed
<1>7. ASSUME NEW p \in Queries
      PROVE  /\ views'[p] \in {views[p], None}
             /\ p # q => views'[p] = views[p]
             /\ Members(q) # {m} => views'[p] = views[p]
             /\ Members(q) = {m} => views'[q] = None
  BY <1>1, <1>2, <1>4
<1>8. ASSUME NEW k \in SubId, subs'[k] # None
      PROVE  /\ k # m /\ subs'[k] = subs[k] /\ subs[k].query \in Queries
             /\ views'[subs[k].query] = views[subs[k].query] /\ views[subs[k].query] # None
             /\ Served(subs[k], views[subs[k].query], replica[k], client[k], k, misled)
  <2>1. k # m /\ subs'[k] = subs[k] /\ subs[k] # None
    BY <1>5, <1>8
  <2>2. /\ subs[k].query \in Queries /\ views[subs[k].query] # None
        /\ Served(subs[k], views[subs[k].query], replica[k], client[k], k, misled)
    BY <2>1, SubOf
  <2>3. subs[k].query = q => Members(q) # {m}
    BY <2>1 DEF Members
  <2> QED BY <1>7, <2>1, <2>2, <2>3
<1>9. Groups'
  <2>1. ASSUME NEW k \in SubId, subs'[k] # None PROVE k < nextId' /\ views'[subs'[k].query] # None
    <3>1. k < nextId
      BY <1>8, <2>1 DEF SubInv, Groups
    <3> QED BY <1>1, <1>8, <2>1, <3>1
  <2>2. ASSUME NEW p \in Queries, views'[p] # None
        PROVE  \E k \in SubId : subs'[k] # None /\ subs'[k].query = p
    <3>1. views[p] # None
      BY <1>7, <2>2
    <3>2. CASE p # q
      <4>1. PICK k \in SubId : subs[k] # None /\ subs[k].query = p
        BY <3>1 DEF SubInv, Groups
      <4>2. k # m
        BY <3>2, <4>1 DEF q
      <4> QED BY <1>5, <4>1, <4>2
    <3>3. CASE p = q
      <4>1. Members(q) # {m}
        BY <1>7, <2>2, <3>3
      <4>2. m \in Members(q)
        BY <1>1 DEF Members, q
      <4>3. PICK k \in Members(q) : k # m
        BY <4>1, <4>2
      <4>4. k \in SubId /\ subs[k] # None /\ subs[k].query = q
        BY <4>3 DEF Members
      <4> QED BY <1>5, <3>3, <4>3, <4>4
    <3> QED BY <3>2, <3>3
  <2> QED BY <2>1, <2>2 DEF Groups
<1>10. TopViews'
  <2>1. ASSUME NEW p \in Queries, views'[p] # None PROVE Good(p, views'[p], rows)
    <3>1. views'[p] = views[p]
      BY <1>7, <2>1
    <3> QED BY <2>1, <3>1 DEF SubInv, TopViews
  <2> QED BY <1>1, <2>1 DEF TopViews
<1>11. AllInStep'
  <2>1. ASSUME NEW k \in SubId, subs'[k] # None
        PROVE  Served(subs'[k], views'[subs'[k].query], replica'[k], client'[k], k, misled')
    <3>1. k \in misled => k \in misled'
      BY <1>1, <1>8, <2>1
    <3> QED BY <1>5, <1>8, <2>1, <3>1 DEF Served
  <2> QED BY <2>1 DEF AllInStep
<1> QED BY <1>6, <1>9, <1>10, <1>11 DEF SubInv

LEMMA CommitKeeps ==
    ASSUME SubInv, NEW new \in Successors, Commit(new), UNCHANGED client PROVE SubInv'
<1> DEFINE result(q) == ApplyCommit(q, views[q], ChangesTo(new), nextSeq)
           fed == {p \in Queries : Members(p) # {}}
           res == [q \in fed |-> result(q)]
           touched == {m \in SubId : subs[m] # None /\ res[subs[m].query].out # <<>> /\ subs[m].state = "Active"}
<1>1. /\ rows \in Window /\ nextSeq \in Nat /\ nextId \in Nat
      /\ views \in [Queries -> View \cup {None}] /\ subs \in [SubId -> Subscriber \cup {None}]
      /\ client \in [SubId -> CView] /\ replica \in [SubId -> Window \cup {StaleView}]
      /\ misled \subseteq SubId
  BY DEF SubInv, Typed
<1>2. new \in Window
  BY DEF Successors, Window
<1>3. /\ rows' = new /\ nextSeq' = nextSeq + 1 /\ nextId' = nextId
      /\ replica' = replica /\ client' = client /\ misled' = misled
      /\ views' = [q \in Queries |-> IF q \in DOMAIN res THEN [window |-> res[q].window, visible |-> res[q].visible]
                                     ELSE views[q]]
      /\ subs' = [m \in SubId |-> IF m \in touched THEN PushCommit(subs[m], res[subs[m].query].out, nextSeq)
                                  ELSE subs[m]]
  BY DEF Commit, ApplyChanges
<1>4. \A m \in SubId : subs[m] # None => subs[m].query \in fed
  <2>1. ASSUME NEW m \in SubId, subs[m] # None PROVE subs[m].query \in fed
    <3>1. subs[m].query \in Queries
      BY <2>1, SubOf
    <3>2. m \in Members(subs[m].query)
      BY <2>1 DEF Members
    <3> QED BY <3>1, <3>2
  <2> QED BY <2>1
<1>5. \A q \in Queries : q \in fed <=> views[q] # None
  <2>1. ASSUME NEW q \in Queries, q \in fed PROVE views[q] # None
    <3>1. PICK m \in SubId : subs[m] # None /\ subs[m].query = q
      BY <2>1 DEF Members
    <3> QED BY <3>1 DEF SubInv, Groups
  <2>2. ASSUME NEW q \in Queries, views[q] # None PROVE q \in fed
    <3>1. PICK m \in SubId : subs[m] # None /\ subs[m].query = q
      BY <2>2 DEF SubInv, Groups
    <3> QED BY <1>4, <3>1
  <2> QED BY <2>1, <2>2
<1>6. fed \subseteq Queries /\ DOMAIN res = fed /\ \A q \in fed : res[q] = result(q)
  OBVIOUS
<1> HIDE DEF fed, res
<1>7. ASSUME NEW q \in fed
      PROVE  /\ Outcome(q, Selected(q, new), Shown(views[q]), result(q))
             /\ views[q].window \in Window
  <2>1. q \in Queries /\ q.cap \in Nat \ {0}
    BY <1>6, SubscriptionAssumption
  <2> DEFINE view == views[q]
  <2>2. Good(q, view, rows)
    BY <1>5, <2>1 DEF SubInv, TopViews
  <2>3. Selected(q, rows) \in Window
    BY <1>1, SelectedIs
  <2> HIDE DEF view
  <2>4. view.window = Selected(q, rows) /\ Proper(q, Keys(q, Selected(q, rows)), view.visible)
    BY <2>2 DEF Good
  <2>5. Proper(q, Keys(q, view.window), view.visible) /\ view.window \in Window
    BY <2>3, <2>4
  <2>6. Outcome(q, Selected(q, new), Shown(view), ApplyCommit(q, view, ChangesTo(new), nextSeq))
    BY <1>1, <1>2, <2>1, <2>4, <2>5, CommitOutcome
  <2> QED BY <2>5, <2>6 DEF view
<1> HIDE DEF result
<1>8. ASSUME NEW q \in fed
      PROVE  /\ result(q).window = Selected(q, new)
             /\ Proper(q, Keys(q, Selected(q, new)), result(q).visible)
             /\ result(q).out \in Seq(Delta)
             /\ ReplayAll(Shown(views[q]), result(q).out) = Shown(result(q))
  BY <1>7 DEF Outcome
<1>9. ASSUME NEW q \in fed
      PROVE  /\ Good(q, views'[q], new) /\ Shown(views'[q]) = Shown(result(q))
             /\ views'[q] # None /\ views'[q] \in View
  <2> DEFINE K == Keys(q, Selected(q, new))
             V == result(q).visible
  <2>1. q \in Queries /\ Selected(q, new) \in Window
    BY <1>2, <1>6, SelectedIs
  <2>2. views'[q] = [window |-> Selected(q, new), visible |-> V]
    BY <1>3, <1>6, <1>8, <2>1
  <2>3. V \in SUBSET [sort : Row \cup {0}, id : RowId]
    <3>1. K \in SUBSET Key /\ IsFiniteSet(K) /\ \A k \in K : k \in [sort : Row \cup {0}, id : RowId]
      BY <2>1, KeysFinite, KeyHasId
    <3>2. Proper(q, K, V)
      BY <1>8
    <3> HIDE DEF K, V
    <3>3. V \in SUBSET K
      BY <3>1, <3>2, ProperIs
    <3> QED BY <3>1, <3>3
  <2> HIDE DEF V
  <2>4. views'[q] \in View /\ views'[q].window = Selected(q, new) /\ views'[q].visible = V
    BY <2>1, <2>2, <2>3 DEF View, Window
  <2>5. views'[q] # None
    BY <2>4, NoneAssumption
  <2>6. Good(q, views'[q], new)
    BY <1>8, <2>4 DEF Good, V
  <2>7. Shown(views'[q]) = Shown(result(q))
    BY <1>8, <2>4 DEF Shown, V
  <2> QED BY <2>4, <2>5, <2>6, <2>7
<1>10. \A q \in Queries : q \notin fed => views'[q] = None
  BY <1>3, <1>5, <1>6
<1>11. ASSUME NEW m \in SubId, subs[m] # None
       PROVE  /\ subs'[m] \in Subscriber /\ subs'[m].query = subs[m].query
              /\ Served(subs'[m], views'[subs[m].query], replica[m], client[m], m, misled)
  <2> DEFINE q == subs[m].query
             sub == subs[m]
             out == res[q].out
  <2>1. /\ sub \in Subscriber /\ client[m] \in CView
        /\ Served(sub, views[q], replica[m], client[m], m, misled)
    BY <1>11, SubOf
  <2>2. q \in fed
    BY <1>4, <1>11
  <2>3. out \in Seq(Delta) /\ ReplayAll(Shown(views[q]), out) = Shown(views'[q])
    <3> HIDE DEF q
    <3> QED BY <1>6, <1>8, <1>9, <2>2
  <2>4. views[q].window \in Window
    <3> HIDE DEF q
    <3> QED BY <1>7, <2>2
  <2>5. CASE m \in touched
    <3>1. subs'[m] = PushCommit(sub, out, nextSeq) /\ sub.state = "Active"
      BY <1>3, <2>5
    <3> DEFINE view == views[q]
               next == views'[q]
               h == replica[m]
               c == client[m]
    <3>2. /\ c \in CView /\ Served(sub, view, h, c, m, misled) /\ view.window \in Window
          /\ ReplayAll(Shown(view), out) = Shown(next)
      BY <2>1, <2>3, <2>4
    <3> HIDE DEF sub, view, next, h, c, out
    <3>3. /\ PushCommit(sub, out, nextSeq) \in Subscriber
          /\ PushCommit(sub, out, nextSeq).query = sub.query
          /\ Served(PushCommit(sub, out, nextSeq), next, h, c, m, misled)
      BY <1>1, <2>1, <2>3, <3>1, <3>2, PushInStep
    <3> QED BY <3>1, <3>3 DEF sub, next, h, c
  <2>6. CASE m \notin touched
    <3>1. subs'[m] = sub
      BY <1>3, <2>6
    <3>2. sub.state = "Stale" \/ out = <<>>
      <4>1. sub.state \in {"Active", "Stale"}
        BY <2>1 DEF Subscriber
      <4> QED BY <1>11, <2>6, <4>1
    <3>3. CASE sub.state = "Stale"
      <4>1. Served(sub, views'[q], replica[m], client[m], m, misled)
        BY <2>1, <3>3 DEF InStep, Served
      <4> QED BY <2>1, <3>1, <4>1
    <3>4. CASE out = <<>>
      <4>1. Shown(views[q]) = Shown(views'[q])
        <5>1. Len(out) = 0
          BY <3>4
        <5>2. ReplayAll(Shown(views[q]), out) = Shown(views[q])
          <6> HIDE DEF out
          <6> QED BY <5>1, ReplayShort
        <5> QED BY <2>3, <5>2
      <4>2. Served(sub, views'[q], replica[m], client[m], m, misled)
        <5> HIDE DEF q, sub
        <5> QED BY <2>1, <4>1, SameInStep
      <4> QED BY <2>1, <3>1, <4>2
    <3> QED BY <3>2, <3>3, <3>4
  <2> QED BY <2>5, <2>6
<1>12. \A m \in SubId : subs[m] = None => subs'[m] = None
  BY <1>3
<1> HIDE DEF touched
<1>13. \A m \in SubId : (subs'[m] # None <=> subs[m] # None) /\ (subs[m] # None => subs'[m].query = subs[m].query)
  <2>1. \A m \in SubId : subs[m] # None => subs'[m] # None
    BY <1>11, NoneAssumption
  <2> QED BY <1>11, <1>12, <2>1
<1>14. Typed'
  <2>1. \A q \in Queries : views'[q] \in View \cup {None}
    BY <1>9, <1>10
  <2>2. views' \in [Queries -> View \cup {None}]
    BY <1>3, <2>1
  <2>3. \A m \in SubId : subs'[m] \in Subscriber \cup {None}
    BY <1>11, <1>12
  <2>4. subs' \in [SubId -> Subscriber \cup {None}]
    BY <1>3, <2>3
  <2>5. rows' \in Window /\ nextSeq' \in Nat /\ nextId' \in Nat
    BY <1>1, <1>2, <1>3
  <2>6. replica' = replica /\ client' = client /\ misled' = misled
    BY <1>3
  <2> QED BY <1>1, <2>2, <2>4, <2>5, <2>6 DEF Typed
<1>15. Groups'
  <2>1. ASSUME NEW m \in SubId, subs'[m] # None PROVE m < nextId' /\ views'[subs'[m].query] # None
    <3>1. subs[m] # None /\ subs'[m].query = subs[m].query
      BY <1>13, <2>1
    <3>2. m < nextId
      BY <3>1 DEF SubInv, Groups
    <3>3. subs[m].query \in fed
      BY <1>4, <3>1
    <3>4. views'[subs[m].query] # None
      BY <1>9, <3>3
    <3> QED BY <1>3, <3>1, <3>2, <3>4
  <2>2. ASSUME NEW q \in Queries, views'[q] # None
        PROVE  \E m \in SubId : subs'[m] # None /\ subs'[m].query = q
    <3>1. views[q] # None
      BY <1>5, <1>10, <2>2
    <3>2. PICK m \in SubId : subs[m] # None /\ subs[m].query = q
      BY <3>1 DEF SubInv, Groups
    <3> QED BY <1>13, <3>2
  <2> QED BY <2>1, <2>2 DEF Groups
<1>16. TopViews'
  <2>1. ASSUME NEW q \in Queries, views'[q] # None PROVE Good(q, views'[q], new)
    BY <1>9, <1>10, <2>1
  <2>2. rows' = new
    BY <1>3
  <2> QED BY <2>1, <2>2 DEF TopViews
<1>17. AllInStep'
  <2>1. ASSUME NEW m \in SubId, subs'[m] # None
        PROVE  Served(subs'[m], views'[subs'[m].query], replica'[m], client'[m], m, misled')
    <3>1. subs[m] # None
      BY <1>13, <2>1
    <3>2. replica' = replica /\ client' = client /\ misled' = misled
      BY <1>3
    <3> QED BY <1>11, <3>1, <3>2
  <2> QED BY <2>1 DEF AllInStep
<1> QED BY <1>14, <1>15, <1>16, <1>17 DEF SubInv

LEMMA SubInvKept == SubInv /\ [CNext]_cvars => SubInv'
<1> SUFFICES ASSUME SubInv, [CNext]_cvars PROVE SubInv'
  OBVIOUS
<1>1. ASSUME NEW q \in Queries, Subscribe(q), UNCHANGED client PROVE SubInv'
  BY <1>1, SubscribeKeeps
<1>2. ASSUME NEW new \in Successors, Commit(new), UNCHANGED client PROVE SubInv'
  BY <1>2, CommitKeeps
<1>3. ASSUME CommitElsewhere, UNCHANGED client PROVE SubInv'
  BY <1>3, ElsewhereKeeps
<1>4. ASSUME NEW m \in SubId, Resync(m), UNCHANGED client PROVE SubInv'
  BY <1>4, ResyncKeeps
<1>5. ASSUME (\E m \in SubId : ClientDrain(m)) \/ ClientDrainAll PROVE SubInv'
  BY <1>5, DrainKeeps
<1>6. ASSUME NEW m \in SubId, ClientUnsubscribe(m) PROVE SubInv'
  BY <1>6, UnsubscribeKeeps
<1>7. ASSUME UNCHANGED cvars PROVE SubInv'
  <2>1. UNCHANGED svars /\ UNCHANGED client
    BY <1>7 DEF cvars
  <2> QED BY <2>1, ElsewhereKeeps
<1> QED BY <1>1, <1>2, <1>3, <1>4, <1>5, <1>6, <1>7 DEF CNext

(* Every reachable state satisfies the invariant. *)
THEOREM SubscriptionInvariant == CSpec => []SubInv
<1>1. CInit => SubInv
  BY SubInvStart
<1>2. SubInv /\ [CNext]_cvars => SubInv'
  BY SubInvKept
<1> QED BY <1>1, <1>2, PTL DEF CSpec

-----------------------------------------------------------------------------
(* What the engine promises. *)

(* The shared view of a query, kept change by change by sync_window, has   *)
(* at every commit exactly the matching rows, and shows the first cap of   *)
(* them, or, in a window of one, some one of them.                         *)
THEOREM ViewsStayCurrent == CSpec => []ViewIsCurrent
<1>1. ASSUME SubInv PROVE ViewIsCurrent
  <2> SUFFICES ASSUME NEW q \in Queries, views[q] # None
               PROVE  /\ views[q].window = MatchingRows(q)
                      /\ q.cap > 1 => views[q].visible = TopCap(q, Keys(q, views[q].window))
                      /\ q.cap = 1 => One(Keys(q, views[q].window), views[q].visible)
    BY DEF ViewIsCurrent, One
  <2> DEFINE w == Selected(q, rows)
             K == Keys(q, w)
  <2>1. views[q].window = w /\ Proper(q, K, views[q].visible)
    BY <1>1 DEF SubInv, TopViews, Good
  <2>2. w = MatchingRows(q)
    BY DEF Selected, MatchingRows
  <2>3. w \in Window /\ q.cap \in Nat \ {0}
    BY <1>1, SelectedIs, SubscriptionAssumption DEF SubInv, Typed
  <2> HIDE DEF w
  <2>4. K \in SUBSET Key /\ IsFiniteSet(K)
    BY <2>3, KeysFinite
  <2> HIDE DEF K
  <2>5. ASSUME q.cap > 1 PROVE views[q].visible = TopCap(q, K)
    <3>1. IsTop(q, K, views[q].visible)
      BY <2>1, <2>5 DEF Proper
    <3> QED BY <2>3, <2>4, <3>1, TopUnique
  <2>6. q.cap = 1 => One(K, views[q].visible)
    BY <2>1 DEF Proper
  <2> QED BY <2>1, <2>2, <2>5, <2>6 DEF K
<1> QED BY <1>1, SubscriptionInvariant, PTL

(* A consumer that drains holds exactly the rows its query shows, or has   *)
(* been told that it is stale: push_commit, overflow and resync together   *)
(* lose nothing in silence -- but for the members of a window of one whose *)
(* view another one's resync corrected.                                    *)
THEOREM StreamsRebuildViews == CSpec => []StreamRebuildsView
<1>1. SubInv => StreamRebuildsView
  BY DEF SubInv, AllInStep, InStep, Served, StreamRebuildsView, Delivered
<1> QED BY <1>1, SubscriptionInvariant, PTL

(* The SDK's view, once it has what is under way, shows exactly those rows *)
(* or is marked stale, however the sequence numbers fall, with the same    *)
(* exception.                                                              *)
THEOREM ClientsAreExactOrStale == CSpec => []ClientIsExactOrStale
<1>1. SubInv => ClientIsExactOrStale
  BY DEF SubInv, AllInStep, InStep, Served, ClientIsExactOrStale, Received
<1> QED BY <1>1, SubscriptionInvariant, PTL
=============================================================================
