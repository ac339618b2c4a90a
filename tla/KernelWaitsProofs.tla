--------------------------- MODULE KernelWaitsProofs ---------------------------
(******************************************************************************)
(* Theorems about KernelWaits for every set of threads, sessions, ports and   *)
(* addresses: the slots of ports, the requests of sessions, the list of the   *)
(* arbiter, and servers that do not sleep in vain.  The hypothesis SafeKills  *)
(* is that no thread is killed while a service works for it.                  *)
(******************************************************************************)
EXTENDS KernelWaits, SequenceLemmas, FiniteSetTheorems, FunctionTheorems

--------------------------------------------------------------------------------
(* Lists with members erased. *)

LEMMA WithoutSteps ==
  ASSUME NEW S, NEW s \in Seq(S), NEW T
  PROVE  \E f : /\ \A i \in 0 .. Len(s) :
                     f[i] = IF i = 0 THEN << >>
                            ELSE IF s[i] \in T THEN f[i - 1] ELSE Append(f[i - 1], s[i])
                /\ Without(s, T) = f[Len(s)]
<1> DEFINE n == Len(s)
           F == [i \in 1 .. n |-> [l \in Seq(S) |-> IF s[i] \in T THEN l ELSE Append(l, s[i])]]
<1>1. n \in Nat /\ << >> \in Seq(S) /\ \A i \in 1 .. n : s[i] \in S
  OBVIOUS
<1>2. F \in [1 .. n -> [Seq(S) -> Seq(S)]]
  BY <1>1
<1>3. PICK f \in [0 .. n -> Seq(S)] : Iterates(n, << >>, F, f)
  <2> HIDE DEF F, n
  <2>1. QED BY <1>1, <1>2, Iterate
<1>4. ASSUME NEW i \in 0 .. n
      PROVE  (IF i = 0 THEN << >> ELSE F[i][f[i - 1]]) =
             IF i = 0 THEN << >> ELSE IF s[i] \in T THEN f[i - 1] ELSE Append(f[i - 1], s[i])
  <2>1. CASE i = 0
    BY <2>1
  <2>2. CASE i # 0
    <3>1. i \in 1 .. n /\ i - 1 \in 0 .. n
      BY <1>1, <2>2
    <3>2. f[i - 1] \in Seq(S)
      BY <3>1
    <3>3. F[i][f[i - 1]] = IF s[i] \in T THEN f[i - 1] ELSE Append(f[i - 1], s[i])
      BY <3>1, <3>2
    <3>4. QED BY <2>2, <3>3
  <2>3. QED BY <2>1, <2>2
<1>5. f = [i \in 0 .. Len(s) |->
             IF i = 0 THEN << >> ELSE IF s[i] \in T THEN f[i - 1] ELSE Append(f[i - 1], s[i])]
  <2> HIDE DEF F
  <2>1. \A i \in 0 .. n : f[i] =
             IF i = 0 THEN << >> ELSE IF s[i] \in T THEN f[i - 1] ELSE Append(f[i - 1], s[i])
    BY <1>3, <1>4 DEF Iterates
  <2>2. QED BY ONLY f \in [0 .. n -> Seq(S)], <2>1
<1> DEFINE left == CHOOSE g : g = [i \in 0 .. Len(s) |->
             IF i = 0 THEN << >> ELSE IF s[i] \in T THEN g[i - 1] ELSE Append(g[i - 1], s[i])]
<1>6. left = [i \in 0 .. Len(s) |->
             IF i = 0 THEN << >> ELSE IF s[i] \in T THEN left[i - 1] ELSE Append(left[i - 1], s[i])]
  BY ONLY <1>5
<1>7. Without(s, T) = left[Len(s)]
  BY DEF Without
<1> HIDE DEF left
<1>8. QED BY <1>6, <1>7


\* What is left of the first m elements, when the members of T are erased.
LeftOf(s, m, T, r, h) ==
  /\ h \in [1 .. Len(r) -> 1 .. m]
  /\ \A i, j \in 1 .. Len(r) : h[i] = h[j] => i = j
  /\ \A i \in 1 .. Len(r) : r[i] = s[h[i]] /\ r[i] \notin T
  /\ \A j \in 1 .. m : s[j] \notin T => \E i \in 1 .. Len(r) : r[i] = s[j]

LEMMA LeftStep ==
  ASSUME NEW S, NEW s \in Seq(S), NEW T, NEW m \in Nat, m + 1 \in 1 .. Len(s), NEW r \in Seq(S),
         NEW h, LeftOf(s, m, T, r, h)
  PROVE  /\ s[m + 1] \in T => \E g : LeftOf(s, m + 1, T, r, g)
         /\ s[m + 1] \notin T => \E g : LeftOf(s, m + 1, T, Append(r, s[m + 1]), g)
<1>1. CASE s[m + 1] \in T
  <2>1. LeftOf(s, m + 1, T, r, h)
    <3>1. \A j \in 1 .. m + 1 : j \in 1 .. m \/ j = m + 1
      OBVIOUS
    <3>2. \A i \in 1 .. Len(r) : h[i] \in 1 .. m /\ h[i] \in 1 .. m + 1
      BY DEF LeftOf
    <3>3. h \in [1 .. Len(r) -> 1 .. m + 1]
      BY <3>2 DEF LeftOf
    <3>4. QED BY <1>1, <3>1, <3>3 DEF LeftOf
  <2>2. QED BY <1>1, <2>1
<1>2. CASE s[m + 1] \notin T
  <2> DEFINE n == Len(r)
             e == s[m + 1]
             q == Append(r, e)
             g == [i \in 1 .. n + 1 |-> IF i = n + 1 THEN m + 1 ELSE h[i]]
  <2>1. /\ n \in Nat /\ Len(q) = n + 1 /\ q[n + 1] = e /\ q \in Seq(S)
        /\ \A i \in 1 .. n : q[i] = r[i]
    BY AppendProperties
  <2>2. /\ h \in [1 .. n -> 1 .. m]
        /\ \A i, j \in 1 .. n : h[i] = h[j] => i = j
        /\ \A i \in 1 .. n : r[i] = s[h[i]] /\ r[i] \notin T
        /\ \A j \in 1 .. m : s[j] \notin T => \E i \in 1 .. n : r[i] = s[j]
    BY DEF LeftOf
  <2> HIDE DEF n, e, q
  <2>3. /\ \A i \in 1 .. n + 1 : i = n + 1 \/ i \in 1 .. n
        /\ \A j \in 1 .. m + 1 : j = m + 1 \/ j \in 1 .. m
        /\ n + 1 \in 1 .. n + 1 /\ m + 1 \in 1 .. m + 1 /\ n + 1 \notin 1 .. n
        /\ \A i \in 1 .. n : i \in 1 .. n + 1
    BY <2>1
  <2>4. /\ g \in [1 .. n + 1 -> 1 .. m + 1] /\ g[n + 1] = m + 1
        /\ \A i \in 1 .. n : g[i] = h[i]
    <3>1. \A i \in 1 .. n : h[i] \in 1 .. m + 1
      BY <2>1, <2>2
    <3>2. QED BY <2>3, <3>1
  <2>5. \A i, j \in 1 .. n + 1 : g[i] = g[j] => i = j
    <3> HIDE DEF g
    <3>1. ASSUME NEW i \in 1 .. n PROVE g[i] # m + 1
      <4>1. g[i] = h[i] /\ h[i] \in 1 .. m
        BY <2>2, <2>4
      <4>2. QED BY <4>1
    <3>2. QED BY <2>2, <2>3, <2>4, <3>1
  <2> HIDE DEF g
  <2>6. \A i \in 1 .. n + 1 : q[i] = s[g[i]] /\ q[i] \notin T
    BY <1>2, <2>1, <2>2, <2>3, <2>4 DEF e
  <2>7. ASSUME NEW j \in 1 .. m + 1, s[j] \notin T PROVE \E i \in 1 .. n + 1 : q[i] = s[j]
    <3>1. CASE j = m + 1
      BY <2>1, <2>3, <3>1 DEF e
    <3>2. CASE j \in 1 .. m
      <4>1. PICK i \in 1 .. n : r[i] = s[j]
        BY <2>2, <2>7, <3>2
      <4>2. QED BY <2>1, <2>3, <4>1
    <3>3. QED BY <2>3, <3>1, <3>2
  <2>8. LeftOf(s, m + 1, T, q, g)
    BY <2>1, <2>4, <2>5, <2>6, <2>7 DEF LeftOf
  <2>9. QED BY <1>2, <2>8 DEF q, e
<1>3. QED BY <1>1, <1>2

\* Without keeps the other elements, at places that are in order.
LEMMA WithoutPlaces ==
  ASSUME NEW S, NEW s \in Seq(S), NEW T
  PROVE  /\ Without(s, T) \in Seq(S)
         /\ \E h : LeftOf(s, Len(s), T, Without(s, T), h)
<1> DEFINE n == Len(s)
<1>0. n \in Nat
  OBVIOUS
<1>1. PICK f : /\ \A i \in 0 .. Len(s) :
                    f[i] = IF i = 0 THEN << >>
                           ELSE IF s[i] \in T THEN f[i - 1] ELSE Append(f[i - 1], s[i])
               /\ Without(s, T) = f[Len(s)]
  BY WithoutSteps
<1> DEFINE P == {i \in Nat : f[i] \in Seq(S) /\ \E h : LeftOf(s, i, T, f[i], h)}
<1>2. 0 \in P
  <2>1. f[0] = << >>
    BY <1>0, <1>1
  <2>2. LeftOf(s, 0, T, << >>, << >>)
    BY DEF LeftOf
  <2>3. \E h : LeftOf(s, 0, T, f[0], h)
    BY <2>1, <2>2
  <2>4. f[0] \in Seq(S) /\ 0 \in Nat
    BY <2>1
  <2>5. QED BY <2>3, <2>4, Zenon
<1>3. ASSUME NEW i \in 0 .. n, i < n, i \in P PROVE i + 1 \in P
  <2>1. i + 1 \in 0 .. n /\ i + 1 \in 1 .. n /\ (i + 1) - 1 = i /\ i + 1 # 0 /\ i \in Nat
    BY <1>0, <1>3
  <2>2. f[i + 1] = IF s[i + 1] \in T THEN f[i] ELSE Append(f[i], s[i + 1])
    BY <1>1, <2>1
  <2>3. f[i] \in Seq(S) /\ s[i + 1] \in S
    BY <1>3, <2>1
  <2>4. PICK h : LeftOf(s, i, T, f[i], h)
    BY <1>3
  <2>5. /\ s[i + 1] \in T => \E g : LeftOf(s, i + 1, T, f[i], g)
        /\ s[i + 1] \notin T => \E g : LeftOf(s, i + 1, T, Append(f[i], s[i + 1]), g)
    BY <2>1, <2>3, <2>4, LeftStep
  <2>6. f[i + 1] \in Seq(S)
    BY <2>2, <2>3
  <2>7. \E g : LeftOf(s, i + 1, T, f[i + 1], g)
    BY <2>2, <2>5
  <2>8. QED BY <2>1, <2>6, <2>7
<1> HIDE DEF P
<1>4. \A i \in 0 .. n : i \in P
  <2> HIDE DEF n
  <2>1. QED BY <1>0, <1>2, <1>3, UpTo
<1>5. n \in P
  BY <1>0, <1>4
<1>6. QED BY <1>1, <1>5 DEF P

LEMMA InRange ==
  ASSUME NEW S, NEW s \in Seq(S)
  PROVE  /\ \A x : x \in Range(s) <=> \E i \in 1 .. Len(s) : s[i] = x
         /\ \A x : Contains(s, x) <=> x \in Range(s)
         /\ Range(s) \subseteq S /\ (Range(s) = {} <=> s = << >>)
<1>1. DOMAIN s = 1 .. Len(s) /\ Len(s) \in Nat /\ \A i \in 1 .. Len(s) : s[i] \in S
  OBVIOUS
<1>2. \A x : x \in Range(s) <=> \E i \in 1 .. Len(s) : s[i] = x
  BY <1>1 DEF Range
<1>3. s # << >> => s[1] \in Range(s)
  <2>1. s # << >> => 1 \in 1 .. Len(s)
    BY <1>1, EmptySeq
  <2>2. QED BY <1>2, <2>1
<1>4. s = << >> => Range(s) = {}
  BY <1>2
<1>5. QED BY <1>1, <1>2, <1>3, <1>4 DEF Contains

LEMMA WithoutMembers ==
  ASSUME NEW S, NEW s \in Seq(S), NEW T
  PROVE  /\ Without(s, T) \in Seq(S)
         /\ Range(Without(s, T)) = Range(s) \ T
<1> DEFINE r == Without(s, T)
<1>1. PICK h : r \in Seq(S) /\ LeftOf(s, Len(s), T, r, h)
  BY WithoutPlaces
<1> HIDE DEF r
<1>2. ASSUME NEW x \in Range(r) PROVE x \in Range(s) /\ x \notin T
  <2>1. PICK i \in 1 .. Len(r) : r[i] = x
    BY <1>1, <1>2, InRange
  <2>2. h[i] \in 1 .. Len(s) /\ s[h[i]] = x /\ x \notin T
    BY <1>1, <2>1 DEF LeftOf
  <2>3. QED BY <2>2, InRange
<1>3. ASSUME NEW x \in Range(s), x \notin T PROVE x \in Range(r)
  <2>1. PICK j \in 1 .. Len(s) : s[j] = x
    BY <1>3, InRange
  <2>2. PICK i \in 1 .. Len(r) : r[i] = x
    BY <1>1, <1>3, <2>1 DEF LeftOf
  <2>3. QED BY <1>1, <2>2, InRange
<1>4. QED BY <1>1, <1>2, <1>3 DEF r


--------------------------------------------------------------------------------
(* The list of the arbiter. *)

Waiter == [thread : Thread, address : Address]

\* No thread is listed twice.
Once(list) == \A i, j \in 1 .. Len(list) : list[i].thread = list[j].thread => i = j

LEMMA WithoutOnce ==
  ASSUME NEW s \in Seq(Waiter), Once(s), NEW T
  PROVE  Once(Without(s, T))
<1> DEFINE r == Without(s, T)
<1>1. PICK h : LeftOf(s, Len(s), T, r, h)
  BY WithoutPlaces
<1> HIDE DEF r
<1>2. ASSUME NEW i \in 1 .. Len(r), NEW j \in 1 .. Len(r), r[i].thread = r[j].thread
      PROVE  i = j
  <2>1. /\ h[i] \in 1 .. Len(s) /\ h[j] \in 1 .. Len(s) /\ r[i] = s[h[i]] /\ r[j] = s[h[j]]
        /\ h[i] = h[j] => i = j
    BY <1>1 DEF LeftOf
  <2>2. h[i] = h[j]
    BY <1>2, <2>1 DEF Once
  <2>3. QED BY <2>1, <2>2
<1>3. QED BY <1>2 DEF Once, r

LEMMA PartitionedOnce ==
  ASSUME NEW s \in Seq(Waiter), Once(s), NEW a \in Address
  PROVE  /\ Partitioned(s, a) \in Seq(Waiter) /\ Once(Partitioned(s, a))
         /\ Range(Partitioned(s, a)) \subseteq Range(s)
<1> DEFINE p == Others(s, a)
           q == WaitsOn(s, a)
           r == p \o q
<1>1. /\ p \in Seq(Waiter) /\ Range(p) = Range(s) \ [thread : Thread, address : {a}] /\ Once(p)
      /\ q \in Seq(Waiter) /\ Once(q)
      /\ Range(q) = Range(s) \ [thread : Thread, address : Address \ {a}]
  BY WithoutMembers, WithoutOnce DEF Others, WaitsOn
<1> HIDE DEF p, q
<1>2. /\ r \in Seq(Waiter) /\ Len(r) = Len(p) + Len(q) /\ Len(p) \in Nat /\ Len(q) \in Nat
      /\ \A i \in 1 .. Len(p) + Len(q) : r[i] = IF i <= Len(p) THEN p[i] ELSE q[i - Len(p)]
  BY <1>1, ConcatProperties
<1> HIDE DEF r
<1>3. ASSUME NEW i \in 1 .. Len(r)
      PROVE  \/ i \in 1 .. Len(p) /\ r[i] = p[i]
             \/ /\ i - Len(p) \in 1 .. Len(q) /\ r[i] = q[i - Len(p)]
                /\ ~(i <= Len(p))
  BY <1>2
<1>4. \A i \in 1 .. Len(p) : p[i] \in Range(p)
  BY <1>1, InRange
<1>5. \A i \in 1 .. Len(q) : q[i] \in Range(q)
  BY <1>1, InRange
<1>6. Range(r) \subseteq Range(s)
  <2>1. \A i \in 1 .. Len(r) : r[i] \in Range(s)
    BY <1>1, <1>3, <1>4, <1>5
  <2>2. QED BY <1>2, <2>1, InRange
<1>7. ASSUME NEW x \in Range(p), NEW y \in Range(q) PROVE x.thread # y.thread
  <2>1. x \in Waiter /\ y \in Waiter /\ x \in Range(s) /\ y \in Range(s)
    BY <1>1, InRange
  <2>2. x \notin [thread : Thread, address : {a}]
    BY <1>1
  <2>3. y \notin [thread : Thread, address : Address \ {a}]
    BY <1>1
  <2>4. x.address # a /\ y.address = a
    <3>1. x = [thread |-> x.thread, address |-> x.address] /\ x.thread \in Thread
      BY <2>1 DEF Waiter
    <3>2. y = [thread |-> y.thread, address |-> y.address] /\ y.thread \in Thread /\ y.address \in Address
      BY <2>1 DEF Waiter
    <3>3. QED BY <2>2, <2>3, <3>1, <3>2
  <2>5. PICK i \in 1 .. Len(s) : s[i] = x
    BY <2>1, InRange
  <2>6. PICK j \in 1 .. Len(s) : s[j] = y
    BY <2>1, InRange
  <2>7. QED BY <2>4, <2>5, <2>6 DEF Once
<1>8. ASSUME NEW i \in 1 .. Len(r), NEW j \in 1 .. Len(r), r[i].thread = r[j].thread
      PROVE  i = j
  <2>1. CASE i \in 1 .. Len(p) /\ r[i] = p[i] /\ j \in 1 .. Len(p) /\ r[j] = p[j]
    BY <1>1, <1>8, <2>1 DEF Once
  <2>2. CASE /\ i - Len(p) \in 1 .. Len(q) /\ r[i] = q[i - Len(p)]
             /\ j - Len(p) \in 1 .. Len(q) /\ r[j] = q[j - Len(p)]
    <3>1. i - Len(p) = j - Len(p)
      BY <1>1, <1>8, <2>2 DEF Once
    <3>2. QED BY <1>2, <3>1
  <2>3. CASE /\ i \in 1 .. Len(p) /\ r[i] = p[i]
             /\ j - Len(p) \in 1 .. Len(q) /\ r[j] = q[j - Len(p)]
    BY <1>4, <1>5, <1>7, <1>8, <2>3
  <2>4. CASE /\ j \in 1 .. Len(p) /\ r[j] = p[j]
             /\ i - Len(p) \in 1 .. Len(q) /\ r[i] = q[i - Len(p)]
    BY <1>4, <1>5, <1>7, <1>8, <2>4
  <2>5. QED BY <1>3, <2>1, <2>2, <2>3, <2>4
<1>9. Partitioned(s, a) = r
  BY DEF Partitioned, r, p, q
<1>10. QED BY <1>2, <1>6, <1>8, <1>9 DEF Once

\* The lists that erasing leaves of s.
Parts(s) == {l \in Seq(Waiter) : Once(l) /\ Range(l) \subseteq Range(s)}

LEMMA AfterOnePart ==
  ASSUME NEW s, NEW l \in Parts(s), NEW a \in Address
  PROVE  AfterOne(l, a) \in Parts(s)
<1> DEFINE p == Partitioned(l, a)
<1>1. p \in Seq(Waiter) /\ Once(p) /\ Range(p) \subseteq Range(s)
  BY PartitionedOnce DEF Parts
<1> HIDE DEF p
<1>2. \A T : /\ Without(p, T) \in Seq(Waiter) /\ Once(Without(p, T))
             /\ Range(Without(p, T)) \subseteq Range(s)
  BY <1>1, WithoutMembers, WithoutOnce
<1>3. AfterOne(l, a) = p \/ \E T : AfterOne(l, a) = Without(p, T)
  BY DEF AfterOne, p
<1>4. QED BY <1>1, <1>2, <1>3 DEF Parts

\* A signal with the value zero.
LEMMA SignalNone == \A a \in Address : AfterSignal(0, a) = waiting_threads
<1> SUFFICES ASSUME NEW a \in Address PROVE AfterSignal(0, a) = waiting_threads
  OBVIOUS
<1>1. PICK f : f = [i \in {0} |-> waiting_threads]
  OBVIOUS
<1>2. f = [i \in 0 .. 0 |-> IF i = 0 THEN waiting_threads ELSE AfterOne(f[i - 1], a)]
  <2>1. 0 .. 0 = {0}
    OBVIOUS
  <2>2. \A i \in {0} : (IF i = 0 THEN waiting_threads ELSE AfterOne(f[i - 1], a)) = waiting_threads
    OBVIOUS
  <2>3. QED BY <1>1, <2>1, <2>2
<1> DEFINE after == CHOOSE g : g = [i \in 0 .. 0 |-> IF i = 0 THEN waiting_threads
                                                    ELSE AfterOne(g[i - 1], a)]
<1>3. after = [i \in 0 .. 0 |-> IF i = 0 THEN waiting_threads ELSE AfterOne(after[i - 1], a)]
  BY ONLY <1>2
<1>4. AfterSignal(0, a) = after[0]
  BY DEF AfterSignal
<1> HIDE DEF after
<1>5. after[0] = waiting_threads
  BY <1>3
<1>6. QED BY <1>4, <1>5

LEMMA AfterSignalPart ==
  ASSUME waiting_threads \in Seq(Waiter), Once(waiting_threads), NEW a \in Address,
         NEW n \in Nat
  PROVE  AfterSignal(n, a) \in Parts(waiting_threads)
<1> DEFINE X == Parts(waiting_threads)
           F == [i \in 1 .. n |-> [l \in X |-> AfterOne(l, a)]]
<1>1. waiting_threads \in X
  BY DEF Parts
<1>2. F \in [1 .. n -> [X -> X]]
  BY AfterOnePart
<1>3. PICK f \in [0 .. n -> X] : Iterates(n, waiting_threads, F, f)
  <2> HIDE DEF F, X
  <2>1. QED BY <1>1, <1>2, Iterate
<1>4. ASSUME NEW i \in 0 .. n
      PROVE  f[i] = IF i = 0 THEN waiting_threads ELSE AfterOne(f[i - 1], a)
  <2>1. f[i] = IF i = 0 THEN waiting_threads ELSE F[i][f[i - 1]]
    BY <1>3 DEF Iterates
  <2>2. i # 0 => F[i][f[i - 1]] = AfterOne(f[i - 1], a)
    OBVIOUS
  <2>3. QED BY <2>1, <2>2
<1>5. f = [i \in 0 .. n |-> IF i = 0 THEN waiting_threads ELSE AfterOne(f[i - 1], a)]
  BY ONLY f \in [0 .. n -> X], <1>4
<1> DEFINE after == CHOOSE g : g = [i \in 0 .. n |-> IF i = 0 THEN waiting_threads
                                                    ELSE AfterOne(g[i - 1], a)]
<1>6. after = [i \in 0 .. n |-> IF i = 0 THEN waiting_threads ELSE AfterOne(after[i - 1], a)]
  BY ONLY <1>5
<1>7. AfterSignal(n, a) = after[n]
  BY DEF AfterSignal
<1> HIDE DEF after
<1> DEFINE P == {i \in 0 .. n : after[i] \in X}
<1>8. 0 \in P
  BY <1>1, <1>6
<1>9. ASSUME NEW i \in 0 .. n, i < n, i \in P PROVE i + 1 \in P
  <2>1. i + 1 \in 0 .. n /\ i + 1 # 0 /\ (i + 1) - 1 = i
    BY <1>9
  <2>2. after[i + 1] = AfterOne(after[i], a)
    BY <1>6, <2>1
  <2>3. QED BY <1>9, <2>1, <2>2, AfterOnePart
<1> HIDE DEF P
<1>10. n \in P
  <2>1. \A i \in 0 .. n : i \in P
    BY <1>8, <1>9, UpTo
  <2>2. QED BY <2>1
<1>11. QED BY <1>7, <1>10 DEF P


--------------------------------------------------------------------------------
(* The invariant.  No part of it is inductive alone: an endpoint stays open while a    *)
(* service works on a request (RequestOK), so that no slot of a port is given back       *)
(* twice; a queued request has no wakeup event, so that its thread cannot wake early.    *)

\* Threads are not killed while a service works for them: what the code does not survive.
SafeKills == "WaitHleEvent" \notin KillStates

\* An endpoint exists as long as somebody may use it.
EndpointsOK ==
  \A s \in Session :
    /\ client[s] = "none" => server[s] = "none" /\ port[s] = None
    /\ client[s] # "none" => port[s] \in Port
    /\ Hle(s) /\ client[s] = "open" => server[s] = "open"

\* The sessions a port has a slot for.
Open(p) == {s \in Session : port[s] = p /\ server[s] = "open"}

CountsOK ==
  \A p \in Port :
    /\ IsFiniteSet(Open(p)) /\ active_sessions[p] = Cardinality(Open(p))
    /\ active_sessions[p] <= max_sessions[p]

\* Which wakeups and callbacks a thread may have in each state: a host thread works
\* for it, or its wakeup is in one of the queues, never both.
WakeupsOK(t) ==
  /\ t \in worker => status[t] = "WaitHleEvent" /\ ts_queue[t] = 0 /\ event_queue[t] = 0
  /\ ts_queue[t] > 0 => status[t] = "WaitHleEvent" /\ event_queue[t] = 0
  /\ status[t] = "Running" => event_queue[t] = 0
  /\ status[t] = "WaitArb" /\ event_queue[t] > 0 => wakeup_callback[t] = "arbiter"
  /\ status[t] = "WaitIPC" /\ event_queue[t] > 0 => Hle(request[t])
CallbacksOK(t) ==
  /\ wakeup_callback[t] = "async" <=> status[t] = "WaitHleEvent"
  /\ wakeup_callback[t] = "arbiter" => status[t] \in {"WaitArb", "Dead"}
  /\ wakeup_callback[t] = "ipc" => status[t] \in {"WaitSynchAny", "Dead"}
RequestOK(t) ==
  /\ status[t] = "WaitHleEvent" =>
       request[t] \in Session /\ Hle(request[t]) /\ server[request[t]] = "open"
  /\ status[t] = "WaitIPC" => request[t] \in Session /\ client[request[t]] # "none"
ThreadOK(t) == WakeupsOK(t) /\ CallbacksOK(t) /\ RequestOK(t)
ThreadsOK == \A t \in Thread : ThreadOK(t)

\* The threads that a host thread works for.
Helped == {t \in Thread : status[t] = "WaitHleEvent"}
AsyncOK == IsFiniteSet(Helped) /\ pending_async_operations = Cardinality(Helped)

\* The threads whose requests a session has.
Members(s) == Range(pending_requesting_threads[s]) \cup ({currently_handling[s]} \ {None})

QueueOK(s) ==
  /\ IsInjective(pending_requesting_threads[s])
  /\ currently_handling[s] \notin Range(pending_requesting_threads[s])
  /\ \A t \in Members(s) : /\ request[t] = s /\ status[t] \in {"WaitIPC", "Dead"}
                           /\ ~Hle(s) /\ client[s] # "none"
Tracked(t) ==
  status[t] = "WaitIPC" =>
    \/ t \in Members(request[t]) \/ event_queue[t] > 0
    \/ client[request[t]] = "closed" \/ server[request[t]] = "closed"
QueuesOK == (\A s \in Session : QueueOK(s)) /\ \A t \in Thread : Tracked(t)

\* The lists of objects and threads agree.
ListsOK ==
  \A t \in Thread, o \in Object :
    /\ t \in Range(waiters[o]) <=> o \in wait_objects[t]
    /\ o \in wait_objects[t] => status[t] = "WaitSynchAny" /\ t \in Server

ArbiterOK ==
  /\ Once(waiting_threads)
  /\ \A t \in Thread :
       /\ status[t] = "WaitArb" => \E i \in 1 .. Len(waiting_threads) : waiting_threads[i].thread = t
       /\ \A i \in 1 .. Len(waiting_threads) :
            waiting_threads[i].thread = t => status[t] \in {"WaitArb", "Dead"}

Inv == /\ TypeOK /\ EndpointsOK /\ CountsOK /\ ThreadsOK /\ AsyncOK /\ QueuesOK /\ ListsOK
       /\ ArbiterOK

LEMMA InitInv == Init => Inv
<1> SUFFICES ASSUME Init PROVE Inv
  OBVIOUS
<1> USE DEF Init, InitThreads, InitArbiter, InitSessions
<1>1. TypeOK
  BY DEF TypeOK, Status, Waits
<1>2. EndpointsOK
  BY PortAssumption, NoneAssumption DEF EndpointsOK, Hle
<1>3. CountsOK
  <2>1. ASSUME NEW p \in Port PROVE Open(p) = {}
    BY DEF Open
  <2>2. IsFiniteSet({}) /\ Cardinality({}) = 0
    BY FS_EmptySet
  <2>3. ASSUME NEW p \in Port PROVE active_sessions[p] = 0 /\ 0 <= max_sessions[p]
    BY PortAssumption
  <2>4. QED BY <2>1, <2>2, <2>3 DEF CountsOK
<1>4. ThreadsOK
  <2>1. ASSUME NEW t \in Thread PROVE ThreadOK(t)
    <3>1. /\ status[t] = "Ready" /\ wakeup_callback[t] = "none" /\ event_queue[t] = 0
          /\ ts_queue[t] = 0 /\ t \notin worker
      OBVIOUS
    <3>2. QED BY ONLY <3>1 DEF ThreadOK, WakeupsOK, CallbacksOK, RequestOK
  <2>2. QED BY <2>1 DEF ThreadsOK
<1>5. AsyncOK
  <2>1. Helped = {}
    BY DEF Helped
  <2>2. IsFiniteSet({}) /\ Cardinality({}) = 0
    BY FS_EmptySet
  <2>3. QED BY <2>1, <2>2 DEF AsyncOK
<1>6. QueuesOK
  <2>1. Range(<< >>) = {} /\ IsInjective(<< >>)
    BY DEF Range, IsInjective
  <2>2. \A s \in Session : Members(s) = {}
    BY <2>1 DEF Members
  <2>3. QED BY <2>1, <2>2 DEF QueuesOK, QueueOK, Tracked
<1>7. ListsOK
  <2>1. Range(<< >>) = {}
    BY DEF Range
  <2>2. QED BY <2>1 DEF ListsOK
<1>8. ArbiterOK
  BY DEF ArbiterOK, Once
<1>9. QED BY <1>1, <1>2, <1>3, <1>4, <1>5, <1>6, <1>7, <1>8 DEF Inv

--------------------------------------------------------------------------------
(* What a step does to a thread. *)

Same(t) ==
  /\ status'[t] = status[t] /\ wakeup_callback'[t] = wakeup_callback[t]
  /\ event_queue'[t] = event_queue[t] /\ ts_queue'[t] = ts_queue[t]
  /\ t \in worker' <=> t \in worker
  /\ request'[t] = request[t]

\* Taken out of an arbiter or a wait list, or answered.
Woken(t) ==
  /\ status[t] \in {"WaitArb", "WaitSynchAny", "WaitIPC"} /\ status'[t] = "Ready"
  /\ wakeup_callback'[t] = "none"
  /\ event_queue'[t] = event_queue[t] /\ ts_queue'[t] = ts_queue[t]
  /\ t \in worker' <=> t \in worker
  /\ request'[t] = request[t]

\* Sessions are not reopened, and a service keeps its endpoint while it works.
SessionsKept ==
  \A s \in Session :
    /\ client[s] # "none" => client'[s] # "none" /\ port'[s] = port[s]
    /\ client[s] = "closed" => client'[s] = "closed"
    /\ server[s] = "closed" => server'[s] = "closed"

LEMMA SameThread ==
  ASSUME TypeOK, EndpointsOK, SessionsKept, NEW t \in Thread, ThreadOK(t), Same(t),
         status[t] = "WaitHleEvent" => server'[request[t]] = "open"
  PROVE  ThreadOK(t)'
<1>1. WakeupsOK(t)' /\ RequestOK(t)'
  <2>1. status[t] \in {"WaitHleEvent", "WaitIPC"} =>
          /\ request[t] \in Session /\ client[request[t]] # "none"
          /\ port'[request[t]] = port[request[t]] /\ client'[request[t]] # "none"
    <3>1. status[t] = "WaitHleEvent" => request[t] \in Session /\ client[request[t]] # "none"
      BY PortAssumption, NoneAssumption DEF ThreadOK, RequestOK, EndpointsOK, Hle
    <3>2. status[t] = "WaitIPC" => request[t] \in Session /\ client[request[t]] # "none"
      BY DEF ThreadOK, RequestOK
    <3>3. QED BY <3>1, <3>2 DEF SessionsKept
  <2>2. QED BY <2>1 DEF ThreadOK, WakeupsOK, RequestOK, Same, Hle
<1>2. CallbacksOK(t)'
  BY DEF ThreadOK, CallbacksOK, Same
<1>3. QED BY <1>1, <1>2 DEF ThreadOK

LEMMA WokenThread ==
  ASSUME TypeOK, NEW t \in Thread, ThreadOK(t), Woken(t)
  PROVE  ThreadOK(t)'
BY DEF ThreadOK, WakeupsOK, CallbacksOK, RequestOK, Woken

\* A request that a session has stays one, unless its thread is awake or about to be;
\* a new one does not go through the queues.
Stays(t) ==
  status[t] \in {"WaitIPC", "Dead"} =>
    \/ status'[t] \in {status[t], "Dead"} /\ request'[t] = request[t]
    \/ status[t] = "WaitIPC" /\ event_queue[t] > 0
Passes(t) == status'[t] = "WaitIPC" => Same(t) \/ event_queue'[t] > 0

\* Steps that leave the requests of the sessions alone.
LEMMA QueuesQuiet ==
  ASSUME TypeOK, QueuesOK, SessionsKept, UNCHANGED queue_vars,
         \A t \in Thread : status[t] = "WaitIPC" => ThreadOK(t),
         \A t \in Thread : Stays(t), \A t \in Thread : Passes(t)
  PROVE  QueuesOK'
<1>1. ASSUME NEW s \in Session PROVE QueueOK(s)'
  <2>1. Members(s)' = Members(s)
    BY DEF Members, queue_vars
  <2>2. ASSUME NEW t \in Members(s)
        PROVE  request'[t] = s /\ status'[t] \in {"WaitIPC", "Dead"} /\ ~Hle(s)' /\ client'[s] # "none"
    <3>1. request[t] = s /\ status[t] \in {"WaitIPC", "Dead"} /\ ~Hle(s) /\ client[s] # "none"
      BY <2>2 DEF QueuesOK, QueueOK
    <3>2. t \in Thread
      <4>1. pending_requesting_threads[s] \in Seq(Thread)
            /\ currently_handling[s] \in Thread \cup {None}
        BY DEF TypeOK
      <4>2. QED BY <2>2, <4>1, InRange DEF Members
    <3>3. ~(status[t] = "WaitIPC" /\ event_queue[t] > 0)
      BY <3>1, <3>2 DEF ThreadOK, WakeupsOK
    <3>4. QED BY <3>1, <3>2, <3>3 DEF SessionsKept, Hle, Stays
  <2>3. QED BY <2>1, <2>2 DEF QueuesOK, QueueOK, queue_vars
<1>2. ASSUME NEW t \in Thread PROVE Tracked(t)'
  <2>1. SUFFICES ASSUME Same(t), status[t] = "WaitIPC" PROVE Tracked(t)'
    BY DEF Tracked, Same, Passes
  <2>2. request[t] \in Session
    BY <2>1 DEF ThreadOK, RequestOK
  <2>3. Members(request[t])' = Members(request[t])
    BY <2>1 DEF Members, queue_vars, Same
  <2>4. Tracked(t)
    BY DEF QueuesOK
  <2>5. QED BY <2>1, <2>2, <2>3, <2>4 DEF Tracked, Same, SessionsKept
<1>3. QED BY <1>1, <1>2 DEF QueuesOK

LEMMA QuietQueues ==
  ASSUME TypeOK, QueuesOK, ThreadsOK, SessionsKept, UNCHANGED queue_vars,
         \A t \in Thread : Stays(t), \A t \in Thread : Passes(t)
  PROVE  QueuesOK'
BY QueuesQuiet DEF ThreadsOK


--------------------------------------------------------------------------------
(* What a step does to the lists, the endpoints and the counts. *)

LEMMA QuietLists ==
  ASSUME ListsOK, UNCHANGED wait_vars,
         \A t \in Thread : status[t] = "WaitSynchAny" => status'[t] = "WaitSynchAny"
  PROVE  ListsOK'
BY DEF ListsOK, wait_vars

LEMMA StopWaitingLists ==
  ASSUME TypeOK, ListsOK, NEW T, StopWaiting(T),
         \A t \in Thread : t \notin T /\ status[t] = "WaitSynchAny" => status'[t] = "WaitSynchAny"
  PROVE  /\ waiters' \in [Object -> Seq(Thread)] /\ wait_objects' \in [Thread -> SUBSET Object]
         /\ ListsOK'
         /\ \A o \in Object : Range(waiters'[o]) = Range(waiters[o]) \ T
<1>1. /\ waiters \in [Object -> Seq(Thread)]
      /\ wait_objects \in [Thread -> SUBSET Object]
  BY DEF TypeOK
<1>2. /\ waiters' = [o \in Object |-> Without(waiters[o], T)]
      /\ wait_objects' = [t \in Thread |-> IF t \in T THEN {} ELSE wait_objects[t]]
  BY DEF StopWaiting
<1>3. ASSUME NEW o \in Object
      PROVE  waiters'[o] \in Seq(Thread) /\ Range(waiters'[o]) = Range(waiters[o]) \ T
  <2>1. waiters[o] \in Seq(Thread) /\ waiters'[o] = Without(waiters[o], T)
    BY <1>1, <1>2
  <2>2. QED BY <2>1, WithoutMembers
<1>4. waiters' \in [Object -> Seq(Thread)]
  BY <1>2, <1>3
<1>5. wait_objects' \in [Thread -> SUBSET Object]
  BY <1>1, <1>2
<1>6. ASSUME NEW t \in Thread, NEW o \in Object
      PROVE  /\ t \in Range(waiters'[o]) <=> o \in wait_objects'[t]
             /\ o \in wait_objects'[t] => status'[t] = "WaitSynchAny" /\ t \in Server
  <2>1. wait_objects'[t] = IF t \in T THEN {} ELSE wait_objects[t]
    BY <1>2
  <2>2. QED BY <1>3, <2>1 DEF ListsOK
<1>7. QED BY <1>3, <1>4, <1>5, <1>6 DEF ListsOK

LEMMA QuietArbiter ==
  ASSUME ArbiterOK, UNCHANGED waiting_threads,
         \A t \in Thread : /\ status'[t] = "WaitArb" <=> status[t] = "WaitArb"
                           /\ status[t] = "Dead" => status'[t] = "Dead"
  PROVE  ArbiterOK'
BY DEF ArbiterOK

LEMMA ListedThreads ==
  ASSUME NEW l \in Seq(Waiter)
  PROVE  \A t : t \in Threads(l) <=> \E i \in 1 .. Len(l) : l[i].thread = t
BY InRange DEF Threads

\* Threads leave the list of the arbiter when they stop waiting for it.
LEMMA ArbiterParts ==
  ASSUME TypeOK, ArbiterOK, waiting_threads' \in Parts(waiting_threads),
         \A t \in Thread : /\ status'[t] = "WaitArb" <=>
                               status[t] = "WaitArb" /\ t \in Threads(waiting_threads')
                           /\ status[t] = "Dead" => status'[t] = "Dead"
  PROVE  ArbiterOK' /\ waiting_threads' \in Seq([thread : Thread, address : Address])
<1>1. waiting_threads' \in Seq(Waiter) /\ Once(waiting_threads')
      /\ Range(waiting_threads') \subseteq Range(waiting_threads)
  BY DEF Parts
<1>2. waiting_threads \in Seq(Waiter)
  BY DEF TypeOK, Waiter
<1>3. ASSUME NEW t \in Thread
      PROVE  /\ status'[t] = "WaitArb" =>
                  \E i \in 1 .. Len(waiting_threads') : waiting_threads'[i].thread = t
             /\ \A i \in 1 .. Len(waiting_threads') :
                  waiting_threads'[i].thread = t => status'[t] \in {"WaitArb", "Dead"}
  <2>1. t \in Threads(waiting_threads') <=>
          \E i \in 1 .. Len(waiting_threads') : waiting_threads'[i].thread = t
    BY <1>1, ListedThreads
  <2>2. t \in Threads(waiting_threads) => status[t] \in {"WaitArb", "Dead"}
    BY <1>2, ListedThreads DEF ArbiterOK
  <2>3. t \in Threads(waiting_threads') => t \in Threads(waiting_threads)
    BY <1>1 DEF Threads
  <2>4. QED BY <2>1, <2>2, <2>3
<1>4. QED BY <1>1, <1>3 DEF ArbiterOK, Once, Waiter

LEMMA QuietEndpoints ==
  ASSUME EndpointsOK, CountsOK, UNCHANGED endpoint_vars
  PROVE  EndpointsOK' /\ CountsOK' /\ SessionsKept
<1>1. \A p : Open(p)' = Open(p)
  BY DEF Open, endpoint_vars
<1>2. CountsOK'
  BY <1>1 DEF CountsOK, endpoint_vars
<1>3. EndpointsOK' /\ SessionsKept
  BY DEF EndpointsOK, SessionsKept, endpoint_vars, Hle
<1>4. QED BY <1>2, <1>3

\* The destructor of a server endpoint.
LEMMA CloseCounts ==
  ASSUME TypeOK, EndpointsOK, CountsOK, NEW s \in Session, server[s] = "open",
         server' = [server EXCEPT ![s] = "closed"], active_sessions' = Disconnected(s),
         UNCHANGED port
  PROVE  CountsOK' /\ active_sessions' \in [Port -> Nat]
<1>0. PICK q : q = port[s]
  OBVIOUS
<1>1. /\ server \in [Session -> {"none", "open", "closed"}]
      /\ active_sessions \in [Port -> Nat] /\ q \in Port
  BY <1>0 DEF TypeOK, EndpointsOK
<1>2. s \in Open(q)
  BY <1>0 DEF Open
<1>3. active_sessions' = [active_sessions EXCEPT ![q] = active_sessions[q] - 1]
  BY <1>0 DEF Disconnected
<1>4. Open(q)' = Open(q) \ {s}
  BY <1>0, <1>1 DEF Open
<1>5. \A p \in Port : p # q => Open(p)' = Open(p)
  BY <1>0, <1>1 DEF Open
<1>6. /\ IsFiniteSet(Open(q)') /\ Cardinality(Open(q)') = Cardinality(Open(q)) - 1
      /\ Cardinality(Open(q)) \in Nat /\ Cardinality(Open(q)') \in Nat
  <2>1. IsFiniteSet(Open(q))
    BY <1>1 DEF CountsOK
  <2>2. /\ IsFiniteSet(Open(q) \ {s}) /\ Cardinality(Open(q) \ {s}) = Cardinality(Open(q)) - 1
    BY <1>2, <2>1, FS_RemoveElement
  <2>3. Cardinality(Open(q)) \in Nat /\ Cardinality(Open(q) \ {s}) \in Nat
    BY <2>1, <2>2, FS_CardinalityType
  <2>4. QED BY <1>4, <2>2, <2>3
<1>7. ASSUME NEW p \in Port
      PROVE  /\ IsFiniteSet(Open(p)') /\ active_sessions'[p] = Cardinality(Open(p)')
             /\ active_sessions'[p] <= max_sessions[p] /\ active_sessions'[p] \in Nat
  <2>1. /\ IsFiniteSet(Open(p)) /\ active_sessions[p] = Cardinality(Open(p))
        /\ active_sessions[p] <= max_sessions[p] /\ active_sessions[p] \in Nat
        /\ max_sessions[p] \in Nat
    BY <1>1, PortAssumption DEF CountsOK
  <2>2. CASE p = q
    <3>1. active_sessions'[q] = active_sessions[q] - 1
      BY <1>1, <1>3
    <3>2. QED BY <1>6, <2>1, <2>2, <3>1
  <2>3. CASE p # q
    <3>1. active_sessions'[p] = active_sessions[p]
      BY <1>1, <1>3, <2>3
    <3>2. QED BY <1>5, <2>1, <2>3, <3>1
  <2>4. QED BY <2>2, <2>3
<1>8. active_sessions' \in [Port -> Nat]
  BY <1>1, <1>3, <1>7
<1>9. QED BY <1>7, <1>8 DEF CountsOK

LEMMA QuietAsync ==
  ASSUME AsyncOK, UNCHANGED pending_async_operations,
         \A t \in Thread : status'[t] = "WaitHleEvent" <=> status[t] = "WaitHleEvent"
  PROVE  AsyncOK'
<1>1. Helped' = Helped
  BY DEF Helped
<1>2. QED BY <1>1 DEF AsyncOK

\* ResumeFromWait wakes the threads that wait, and leaves the others alone.
LEMMA ResumedThreads ==
  ASSUME TypeOK, NEW T, \A t \in Thread \cap T : status[t] # "WaitHleEvent",
         ResumeFromWait(T), UNCHANGED <<event_queue, ts_queue, worker, request>>
  PROVE  /\ status' \in [Thread -> Status]
         /\ wakeup_callback' \in [Thread -> {"none", "ipc", "arbiter", "async"}]
         /\ \A t \in Thread : IF t \in T /\ status[t] \in Waits THEN Woken(t) ELSE Same(t)
<1>1. /\ status \in [Thread -> Status]
      /\ wakeup_callback \in [Thread -> {"none", "ipc", "arbiter", "async"}]
  BY DEF TypeOK
<1>2. /\ status' = [t \in Thread |-> IF t \in T /\ status[t] \in Waits THEN "Ready" ELSE status[t]]
      /\ wakeup_callback' = [t \in Thread |-> IF t \in T /\ status[t] \in Waits THEN "none"
                                              ELSE wakeup_callback[t]]
  BY DEF ResumeFromWait, Resumed, Released
<1>3. "Ready" \in Status
  BY DEF Status
<1>4. ASSUME NEW t \in Thread
      PROVE  IF t \in T /\ status[t] \in Waits THEN Woken(t) ELSE Same(t)
  <2>1. CASE t \in T /\ status[t] \in Waits
    <3>1. status'[t] = "Ready" /\ wakeup_callback'[t] = "none"
      BY <1>2, <2>1
    <3>2. status[t] \in {"WaitArb", "WaitSynchAny", "WaitIPC"}
      BY <2>1 DEF Waits
    <3>3. QED BY <2>1, <3>1, <3>2 DEF Woken
  <2>2. CASE ~(t \in T /\ status[t] \in Waits)
    <3>1. status'[t] = status[t] /\ wakeup_callback'[t] = wakeup_callback[t]
      BY <1>2, <2>2
    <3>2. QED BY <2>2, <3>1 DEF Same
  <2>3. QED BY <2>1, <2>2
<1>5. QED BY <1>1, <1>2, <1>3, <1>4


LEMMA OtherThreads ==
  ASSUME TypeOK, EndpointsOK, ThreadsOK, SessionsKept, NEW t,
         \A u \in Thread : u # t => Same(u) \/ Woken(u),
         \A u \in Thread : u # t /\ status[u] = "WaitHleEvent" => server'[request[u]] = "open",
         t \in Thread => ThreadOK(t)'
  PROVE  ThreadsOK'
<1>1. ASSUME NEW u \in Thread PROVE ThreadOK(u)'
  <2>1. CASE u = t
    BY <2>1
  <2>2. CASE u # t
    <3>1. ThreadOK(u)
      BY DEF ThreadsOK
    <3>2. CASE Same(u)
      BY <2>2, <3>1, <3>2, SameThread
    <3>3. CASE Woken(u)
      BY <3>1, <3>3, WokenThread
    <3>4. QED BY <2>2, <3>2, <3>3
  <2>3. QED BY <2>1, <2>2
<1>2. QED BY <1>1 DEF ThreadsOK

\* A service at work keeps its endpoint, if the endpoints do not change.
LEMMA ServedSame ==
  ASSUME ThreadsOK, UNCHANGED server
  PROVE  \A t \in Thread : status[t] = "WaitHleEvent" => server'[request[t]] = "open"
BY DEF ThreadsOK, ThreadOK, RequestOK

--------------------------------------------------------------------------------
(* Scheduling. *)

LEMMA SwitchToInv ==
  ASSUME Inv, NEW t \in Thread, SwitchTo(t), request' = [request EXCEPT ![t] = None],
         UNCHANGED <<waiting_threads, endpoint_vars, queue_vars, wait_vars, async_vars>>
  PROVE  Inv'
<1>0. /\ TypeOK /\ EndpointsOK /\ CountsOK /\ ThreadsOK /\ AsyncOK /\ QueuesOK /\ ListsOK
      /\ ArbiterOK
  BY DEF Inv
<1>1. /\ status \in [Thread -> Status] /\ event_queue \in [Thread -> Nat]
      /\ request \in [Thread -> Session \cup {None}]
  BY <1>0 DEF TypeOK
<1>2. /\ status[t] = "Ready" /\ status' = [status EXCEPT ![t] = "Running"]
      /\ event_queue' = [u \in Thread |-> IF u = t THEN 0 ELSE event_queue[u]]
      /\ UNCHANGED <<wakeup_callback, ts_queue>>
  BY DEF SwitchTo, UnscheduleEvent
<1>3. TypeOK'
  <2>1. status' \in [Thread -> Status]
    BY <1>1, <1>2 DEF Status
  <2>2. event_queue' \in [Thread -> Nat]
    BY <1>1, <1>2
  <2>3. QED BY <1>1, <1>2, <2>1, <2>2, <1>0 DEF TypeOK, endpoint_vars, queue_vars, wait_vars, async_vars
<1>4. \A u \in Thread : u # t => Same(u)
  BY <1>1, <1>2 DEF Same, async_vars
<1>5. status'[t] = "Running" /\ event_queue'[t] = 0
  BY <1>1, <1>2
<1>6. EndpointsOK' /\ CountsOK' /\ SessionsKept
  BY <1>0, QuietEndpoints
<1>7. ThreadsOK'
  <2>1. ThreadOK(t)'
    <3>1. ThreadOK(t)
      BY <1>0 DEF ThreadsOK
    <3>2. t \in worker' <=> t \in worker
      BY DEF async_vars
    <3>3. QED BY <1>2, <1>5, <3>1, <3>2 DEF ThreadOK, WakeupsOK, CallbacksOK, RequestOK
  <2>2. UNCHANGED server
    BY DEF endpoint_vars
  <2>3. \A u \in Thread : status[u] = "WaitHleEvent" => server'[request[u]] = "open"
    BY <1>0, <2>2, ServedSame
  <2>4. QED BY <1>0, <1>4, <1>6, <2>1, <2>3, OtherThreads
<1>8. \A u \in Thread : status'[u] = status[u] \/ u = t
  BY <1>4 DEF Same
<1>9. AsyncOK'
  BY <1>0, <1>2, <1>5, <1>8, QuietAsync DEF async_vars
<1>10. QueuesOK'
  <2>1. \A u \in Thread : Stays(u)
    BY <1>2, <1>4 DEF Same, Stays
  <2>2. \A u \in Thread : Passes(u)
    BY <1>4, <1>5 DEF Passes
  <2>3. QED BY <1>0, <1>6, <2>1, <2>2, QuietQueues
<1>11. ListsOK' /\ ArbiterOK'
  BY <1>0, <1>2, <1>5, <1>8, QuietLists, QuietArbiter
<1>12. QED BY <1>3, <1>6, <1>7, <1>9, <1>10, <1>11 DEF Inv

LEMMA PreemptInv ==
  ASSUME Inv, NEW t \in Thread, Preempt(t), UNCHANGED request,
         UNCHANGED <<waiting_threads, endpoint_vars, queue_vars, wait_vars, async_vars>>
  PROVE  Inv'
<1>0. /\ TypeOK /\ EndpointsOK /\ CountsOK /\ ThreadsOK /\ AsyncOK /\ QueuesOK /\ ListsOK
      /\ ArbiterOK
  BY DEF Inv
<1>1. status \in [Thread -> Status]
  BY <1>0 DEF TypeOK
<1>2. /\ status[t] = "Running" /\ status' = [status EXCEPT ![t] = "Ready"]
      /\ UNCHANGED <<wakeup_callback, event_queue, ts_queue>>
  BY DEF Preempt
<1>3. TypeOK'
  <2>1. status' \in [Thread -> Status]
    BY <1>1, <1>2 DEF Status
  <2>2. QED BY <1>0, <1>2, <2>1 DEF TypeOK, endpoint_vars, queue_vars, wait_vars, async_vars
<1>4. \A u \in Thread : u # t => Same(u)
  BY <1>1, <1>2 DEF Same, async_vars
<1>5. status'[t] = "Ready"
  BY <1>1, <1>2
<1>6. EndpointsOK' /\ CountsOK' /\ SessionsKept
  BY <1>0, QuietEndpoints
<1>7. ThreadsOK'
  <2>1. ThreadOK(t)'
    <3>1. ThreadOK(t)
      BY <1>0 DEF ThreadsOK
    <3>2. t \in worker' <=> t \in worker
      BY DEF async_vars
    <3>3. QED BY <1>2, <1>5, <3>1, <3>2 DEF ThreadOK, WakeupsOK, CallbacksOK, RequestOK
  <2>2. UNCHANGED server
    BY DEF endpoint_vars
  <2>3. \A u \in Thread : status[u] = "WaitHleEvent" => server'[request[u]] = "open"
    BY <1>0, <2>2, ServedSame
  <2>4. QED BY <1>0, <1>4, <1>6, <2>1, <2>3, OtherThreads
<1>8. \A u \in Thread : status'[u] = status[u] \/ u = t
  BY <1>4 DEF Same
<1>9. AsyncOK'
  BY <1>0, <1>2, <1>5, <1>8, QuietAsync DEF async_vars
<1>10. QueuesOK'
  <2>1. \A u \in Thread : Stays(u)
    BY <1>2, <1>4 DEF Same, Stays
  <2>2. \A u \in Thread : Passes(u)
    BY <1>4, <1>5 DEF Passes
  <2>3. QED BY <1>0, <1>6, <2>1, <2>2, QuietQueues
<1>11. ListsOK' /\ ArbiterOK'
  BY <1>0, <1>2, <1>5, <1>8, QuietLists, QuietArbiter
<1>12. QED BY <1>3, <1>6, <1>7, <1>9, <1>10, <1>11 DEF Inv

LEMMA MoveEventsInv ==
  ASSUME Inv, MoveEvents, UNCHANGED request,
         UNCHANGED <<waiting_threads, endpoint_vars, queue_vars, wait_vars, async_vars>>
  PROVE  Inv'
<1>0. /\ TypeOK /\ EndpointsOK /\ CountsOK /\ ThreadsOK /\ AsyncOK /\ QueuesOK /\ ListsOK
      /\ ArbiterOK
  BY DEF Inv
<1>1. event_queue \in [Thread -> Nat] /\ ts_queue \in [Thread -> Nat]
  BY <1>0 DEF TypeOK
<1>2. /\ event_queue' = [t \in Thread |-> event_queue[t] + ts_queue[t]]
      /\ ts_queue' = [t \in Thread |-> 0] /\ UNCHANGED <<status, wakeup_callback>>
  BY DEF MoveEvents
<1>3. TypeOK'
  <2>1. event_queue' \in [Thread -> Nat] /\ ts_queue' \in [Thread -> Nat]
    BY <1>1, <1>2
  <2>2. QED BY <1>0, <1>2, <2>1 DEF TypeOK, endpoint_vars, queue_vars, wait_vars, async_vars
<1>4. EndpointsOK' /\ CountsOK' /\ SessionsKept
  BY <1>0, QuietEndpoints
<1>5. ASSUME NEW t \in Thread
      PROVE  /\ ts_queue'[t] = 0 /\ event_queue'[t] \in Nat
             /\ ts_queue[t] = 0 => event_queue'[t] = event_queue[t]
             /\ event_queue[t] > 0 => event_queue'[t] > 0
             /\ event_queue'[t] > 0 => event_queue[t] > 0 \/ ts_queue[t] > 0
  BY <1>1, <1>2
<1>6. ASSUME NEW t \in Thread PROVE ThreadOK(t)'
  <2>1. ThreadOK(t) /\ (t \in worker' <=> t \in worker)
    BY <1>0 DEF ThreadsOK, async_vars
  <2>2. WakeupsOK(t)'
    <3>1. port' = port /\ request' = request
      BY DEF endpoint_vars
    <3>2. ts_queue[t] \in Nat
      BY <1>1
    <3>3. QED BY <1>2, <1>5, <2>1, <3>1, <3>2 DEF ThreadOK, WakeupsOK, Hle
  <2>3. CallbacksOK(t)' /\ RequestOK(t)'
    BY <1>2, <2>1 DEF ThreadOK, CallbacksOK, RequestOK, Hle, endpoint_vars
  <2>4. QED BY <2>2, <2>3 DEF ThreadOK
<1>7. AsyncOK'
  BY <1>0, <1>2, QuietAsync DEF async_vars
<1>8. QueuesOK'
  <2>1. ASSUME NEW t \in Thread, status'[t] = "WaitIPC" PROVE Same(t)
    <3>1. ts_queue[t] = 0
      <4>1. ~(ts_queue[t] > 0) /\ ts_queue[t] \in Nat
        BY <1>0, <1>1, <1>2, <2>1 DEF ThreadsOK, ThreadOK, WakeupsOK
      <4>2. QED BY <4>1
    <3>2. QED BY <1>2, <1>5, <3>1 DEF Same, async_vars
  <2>2. \A t \in Thread : Stays(t) /\ Passes(t)
    BY <1>2, <2>1 DEF Stays, Passes
  <2>3. QED BY <1>0, <1>4, <2>1, <2>2, QuietQueues
<1>9. ListsOK' /\ ArbiterOK'
  BY <1>0, <1>2, QuietLists, QuietArbiter
<1>10. QED BY <1>3, <1>4, <1>6, <1>7, <1>8, <1>9 DEF ThreadsOK, Inv


--------------------------------------------------------------------------------
(* The arbiter. *)

LEMMA RunningThread ==
  ASSUME TypeOK, ThreadsOK, NEW t \in Thread, status[t] = "Running"
  PROVE  event_queue[t] = 0 /\ ts_queue[t] = 0 /\ t \notin worker /\ wakeup_callback[t] = "none"
<1>1. WakeupsOK(t) /\ CallbacksOK(t)
  BY DEF ThreadsOK, ThreadOK
<1>2. ts_queue[t] \in Nat /\ wakeup_callback[t] \in {"none", "ipc", "arbiter", "async"}
  BY DEF TypeOK
<1>3. QED BY ONLY <1>1, <1>2, status[t] = "Running" DEF WakeupsOK, CallbacksOK

LEMMA ArbitrateWaitInv ==
  ASSUME Inv, NEW t \in Thread, NEW a \in Address, NEW timeout \in {"none", "forever", "finite"},
         ArbitrateWait(t, a, timeout), UNCHANGED session_vars
  PROVE  Inv'
<1>0. /\ TypeOK /\ EndpointsOK /\ CountsOK /\ ThreadsOK /\ AsyncOK /\ QueuesOK /\ ListsOK
      /\ ArbiterOK
  BY DEF Inv
<1>1. /\ status \in [Thread -> Status] /\ event_queue \in [Thread -> Nat]
      /\ wakeup_callback \in [Thread -> {"none", "ipc", "arbiter", "async"}]
      /\ waiting_threads \in Seq(Waiter)
  BY <1>0 DEF TypeOK, Waiter
<1>2. /\ status[t] = "Running" /\ status' = [status EXCEPT ![t] = "WaitArb"]
      /\ waiting_threads' = Append(waiting_threads, [thread |-> t, address |-> a])
      /\ wakeup_callback' = IF timeout = "none" THEN wakeup_callback
                            ELSE [wakeup_callback EXCEPT ![t] = "arbiter"]
      /\ event_queue' = IF timeout = "finite" THEN [event_queue EXCEPT ![t] = @ + 1]
                        ELSE event_queue
      /\ UNCHANGED ts_queue
  BY DEF ArbitrateWait
<1> DEFINE w == [thread |-> t, address |-> a]
<1>3. w \in Waiter /\ waiting_threads' \in Seq(Waiter)
  BY <1>1, <1>2 DEF Waiter
<1>4. UNCHANGED <<endpoint_vars, queue_vars, wait_vars, request, async_vars>>
  BY DEF session_vars
<1>5. TypeOK'
  <2>1. status' \in [Thread -> Status]
    BY <1>1, <1>2 DEF Status, Waits
  <2>2. event_queue' \in [Thread -> Nat]
    BY <1>1, <1>2
  <2>3. wakeup_callback' \in [Thread -> {"none", "ipc", "arbiter", "async"}]
    BY <1>1, <1>2
  <2>4. QED BY <1>0, <1>2, <1>3, <1>4, <2>1, <2>2, <2>3
             DEF TypeOK, Waiter, endpoint_vars, queue_vars, wait_vars, async_vars
<1>6. \A u \in Thread : u # t => Same(u)
  BY <1>1, <1>2, <1>4 DEF Same, async_vars
<1>7. /\ status'[t] = "WaitArb" /\ event_queue'[t] \in {0, 1} /\ ts_queue'[t] = 0 /\ t \notin worker'
      /\ event_queue'[t] > 0 => wakeup_callback'[t] = "arbiter"
      /\ wakeup_callback'[t] \in {"none", "arbiter"}
  <2>1. event_queue[t] = 0 /\ ts_queue[t] = 0 /\ t \notin worker /\ wakeup_callback[t] = "none"
    BY <1>0, <1>2, RunningThread
  <2>2. status'[t] = "WaitArb" /\ ts_queue'[t] = 0 /\ t \notin worker'
    BY <1>1, <1>2, <1>4, <2>1 DEF async_vars
  <2>3. event_queue'[t] = IF timeout = "finite" THEN 1 ELSE 0
    BY <1>1, <1>2, <2>1
  <2>4. wakeup_callback'[t] = IF timeout = "none" THEN "none" ELSE "arbiter"
    BY <1>1, <1>2, <2>1
  <2>5. QED BY <2>2, <2>3, <2>4
<1>8. EndpointsOK' /\ CountsOK' /\ SessionsKept
  BY <1>0, <1>4, QuietEndpoints
<1>9. ThreadsOK'
  <2>1. ThreadOK(t)'
    BY <1>7 DEF ThreadOK, WakeupsOK, CallbacksOK, RequestOK
  <2>2. UNCHANGED server
    BY <1>4 DEF endpoint_vars
  <2>3. \A u \in Thread : status[u] = "WaitHleEvent" => server'[request[u]] = "open"
    BY <1>0, <2>2, ServedSame
  <2>4. QED BY <1>0, <1>6, <1>8, <2>1, <2>3, OtherThreads
<1>10. \A u \in Thread : status'[u] = status[u] \/ u = t
  BY <1>6 DEF Same
<1>11. AsyncOK'
  BY <1>0, <1>2, <1>4, <1>7, <1>10, QuietAsync DEF async_vars
<1>12. QueuesOK'
  <2>1. \A u \in Thread : Stays(u)
    BY <1>2, <1>6 DEF Same, Stays
  <2>2. \A u \in Thread : Passes(u)
    BY <1>6, <1>7 DEF Passes
  <2>3. QED BY <1>0, <1>4, <1>8, <2>1, <2>2, QuietQueues
<1>13. ListsOK'
  BY <1>0, <1>2, <1>4, <1>7, <1>10, QuietLists
<1>14. ArbiterOK'
  <2>1. /\ Len(waiting_threads') = Len(waiting_threads) + 1 /\ Len(waiting_threads) \in Nat
        /\ waiting_threads'[Len(waiting_threads) + 1] = w
        /\ \A i \in 1 .. Len(waiting_threads) : waiting_threads'[i] = waiting_threads[i]
    BY <1>1, <1>2, <1>3
  <2>2. w.thread = t
    OBVIOUS
  <2>3. \A i \in 1 .. Len(waiting_threads) : waiting_threads[i].thread # t
    BY <1>0, <1>2 DEF ArbiterOK
  <2>4. Once(waiting_threads')
    BY <1>0, <2>1, <2>2, <2>3 DEF ArbiterOK, Once
  <2>5. ASSUME NEW u \in Thread
        PROVE  /\ status'[u] = "WaitArb" =>
                    \E i \in 1 .. Len(waiting_threads') : waiting_threads'[i].thread = u
               /\ \A i \in 1 .. Len(waiting_threads') :
                    waiting_threads'[i].thread = u => status'[u] \in {"WaitArb", "Dead"}
    <3>1. CASE u = t
      BY <1>7, <2>1, <2>2, <3>1
    <3>2. CASE u # t
      <4>1. /\ status'[u] = "WaitArb" =>
                 \E i \in 1 .. Len(waiting_threads) : waiting_threads[i].thread = u
            /\ \A i \in 1 .. Len(waiting_threads) :
                 waiting_threads[i].thread = u => status'[u] \in {"WaitArb", "Dead"}
        BY <1>0, <1>10, <3>2 DEF ArbiterOK
      <4>2. QED BY <2>1, <2>2, <3>2, <4>1
    <3>3. QED BY <3>1, <3>2
  <2>6. QED BY <2>4, <2>5 DEF ArbiterOK
<1>15. QED BY <1>5, <1>8, <1>9, <1>11, <1>12, <1>13, <1>14 DEF Inv

\* A signal: some threads leave the list and are resumed.
LEMMA SignalInv ==
  ASSUME Inv, NEW T, T \cap Thread = Threads(waiting_threads) \ Threads(waiting_threads'),
         AllWait \/ UNCHANGED waiting_threads,
         waiting_threads' \in Parts(waiting_threads), ResumeFromWait(T),
         UNCHANGED <<event_queue, ts_queue>>, UNCHANGED session_vars
  PROVE  Inv'
<1>0. /\ TypeOK /\ EndpointsOK /\ CountsOK /\ ThreadsOK /\ AsyncOK /\ QueuesOK /\ ListsOK
      /\ ArbiterOK
  BY DEF Inv
<1>1. /\ status \in [Thread -> Status] /\ waiting_threads \in Seq(Waiter)
  BY <1>0 DEF TypeOK, Waiter
<1>2. \A t \in Thread : status[t] = "WaitArb" => t \in Threads(waiting_threads)
  BY <1>0, <1>1, ListedThreads DEF ArbiterOK
<1>3. \A t \in Thread \cap T : status[t] = "WaitArb"
  BY DEF AllWait
<1>4. UNCHANGED <<endpoint_vars, queue_vars, wait_vars, request, async_vars>>
  BY DEF session_vars
<1>5. UNCHANGED <<event_queue, ts_queue, worker, request>>
  BY <1>4 DEF async_vars
<1>6. /\ status' \in [Thread -> Status]
      /\ wakeup_callback' \in [Thread -> {"none", "ipc", "arbiter", "async"}]
      /\ \A t \in Thread : IF t \in T /\ status[t] \in Waits THEN Woken(t) ELSE Same(t)
  <2>1. \A t \in Thread \cap T : status[t] # "WaitHleEvent"
    BY <1>3
  <2>2. QED BY <1>0, <1>5, <2>1, ResumedThreads
<1>7. ASSUME NEW t \in Thread
      PROVE  \/ Same(t) /\ t \notin T
             \/ Woken(t) /\ t \in T /\ status[t] = "WaitArb" /\ status'[t] = "Ready"
  <2>1. CASE t \in T
    <3>1. status[t] = "WaitArb" /\ status[t] \in Waits
      BY <1>3, <2>1 DEF Waits
    <3>2. QED BY <1>6, <2>1, <3>1 DEF Woken
  <2>2. CASE t \notin T
    BY <1>6, <2>2
  <2>3. QED BY <2>1, <2>2
<1>8. ArbiterOK' /\ waiting_threads' \in Seq([thread : Thread, address : Address])
  <2>1. ASSUME NEW t \in Thread
        PROVE  /\ status'[t] = "WaitArb" <=> status[t] = "WaitArb" /\ t \in Threads(waiting_threads')
               /\ status[t] = "Dead" => status'[t] = "Dead"
    BY <1>2, <1>7 DEF Same
  <2>2. QED BY <1>0, <2>1, ArbiterParts
<1>9. TypeOK'
  BY <1>0, <1>4, <1>5, <1>6, <1>8 DEF TypeOK, endpoint_vars, queue_vars, wait_vars, async_vars
<1>10. EndpointsOK' /\ CountsOK' /\ SessionsKept
  BY <1>0, <1>4, QuietEndpoints
<1>11. ThreadsOK'
  <2>1. UNCHANGED server
    BY <1>4 DEF endpoint_vars
  <2>2. \A u \in Thread : status[u] = "WaitHleEvent" => server'[request[u]] = "open"
    BY <1>0, <2>1, ServedSame
  <2>3. PICK n : n \notin Thread
    BY NoneAssumption
  <2>4. QED BY <1>0, <1>7, <1>10, <2>2, <2>3, OtherThreads
<1>12. AsyncOK'
  <2>1. \A t \in Thread : status'[t] = "WaitHleEvent" <=> status[t] = "WaitHleEvent"
    BY <1>7 DEF Same
  <2>2. QED BY <1>0, <1>4, <2>1, QuietAsync DEF async_vars
<1>13. QueuesOK'
  <2>1. \A u \in Thread : Stays(u) /\ Passes(u)
    BY <1>7 DEF Same, Stays, Passes
  <2>2. QED BY <1>0, <1>4, <1>10, <2>1, QuietQueues
<1>14. ListsOK'
  <2>1. \A t \in Thread : status[t] = "WaitSynchAny" => status'[t] = "WaitSynchAny"
    BY <1>7 DEF Same
  <2>2. QED BY <1>0, <1>4, <2>1, QuietLists
<1>15. QED BY <1>8, <1>9, <1>10, <1>11, <1>12, <1>13, <1>14 DEF Inv


LEMMA ResumeFirstInv ==
  ASSUME Inv, NEW t \in Thread, NEW a \in Address, NEW n \in SignalCounts, ResumeFirst(t, a, n),
         UNCHANGED session_vars
  PROVE  Inv'
<1>1. waiting_threads \in Seq(Waiter) /\ Once(waiting_threads)
  BY DEF Inv, TypeOK, ArbiterOK, Waiter
<1>2. waiting_threads' \in Parts(waiting_threads)
  <2>1. n \in Nat
    BY SignalAssumption
  <2>2. QED BY <1>1, <2>1, AfterSignalPart DEF ResumeFirst
<1> DEFINE T == Threads(waiting_threads) \ Threads(AfterSignal(n, a))
<1>3. T \cap Thread = Threads(waiting_threads) \ Threads(waiting_threads')
  <2>1. \A i \in 1 .. Len(waiting_threads) : waiting_threads[i].thread \in Thread
    <3>1. \A i \in 1 .. Len(waiting_threads) : waiting_threads[i] \in Waiter
      BY <1>1
    <3>2. \A w \in Waiter : w.thread \in Thread
      BY DEF Waiter
    <3>3. QED BY <3>1, <3>2
  <2>2. Threads(waiting_threads) \subseteq Thread
    BY <1>1, <2>1, ListedThreads
  <2>3. QED BY <2>2 DEF ResumeFirst
<1>4. ResumeFromWait(T) /\ UNCHANGED <<event_queue, ts_queue>>
  BY DEF ResumeFirst
<1>5. AllWait \/ UNCHANGED waiting_threads
  <2>1. CASE n > 0
    BY <2>1 DEF ResumeFirst
  <2>2. CASE n = 0
    BY <2>2, SignalNone DEF ResumeFirst
  <2>3. n \in Nat
    BY SignalAssumption
  <2>4. QED BY <2>1, <2>2, <2>3
<1> HIDE DEF T
<1>6. QED BY <1>2, <1>3, <1>4, <1>5, SignalInv

LEMMA ResumeAllThreadsInv ==
  ASSUME Inv, NEW t \in Thread, NEW a \in Address, ResumeAllThreads(t, a), UNCHANGED session_vars
  PROVE  Inv'
<1> DEFINE l == waiting_threads
           p == Others(l, a)
           q == WaitsOn(l, a)
<1>1. l \in Seq(Waiter) /\ Once(l)
  BY DEF Inv, TypeOK, ArbiterOK, Waiter
<1>2. /\ p \in Seq(Waiter) /\ Range(p) = Range(l) \ [thread : Thread, address : {a}] /\ Once(p)
      /\ q \in Seq(Waiter) /\ Range(q) = Range(l) \ [thread : Thread, address : Address \ {a}]
  BY <1>1, WithoutMembers, WithoutOnce DEF Others, WaitsOn
<1>3. /\ waiting_threads' = p /\ ResumeFromWait(Threads(q)) /\ UNCHANGED <<event_queue, ts_queue>>
      /\ AllWait
  BY DEF ResumeAllThreads
<1>4. waiting_threads' \in Parts(waiting_threads)
  BY <1>2, <1>3 DEF Parts
<1>5. ASSUME NEW w \in Range(l) PROVE /\ w.thread \in Thread
                                      /\ w \in Range(q) <=> w.address = a
                                      /\ w \in Range(p) <=> w.address # a
  <2>1. w \in Waiter
    BY <1>1, InRange
  <2>2. /\ w.thread \in Thread /\ w.address \in Address
        /\ w = [thread |-> w.thread, address |-> w.address]
    BY <2>1 DEF Waiter
  <2>3. QED BY <1>2, <2>2
<1>6. ASSUME NEW v \in Range(l), NEW w \in Range(l), v.thread = w.thread PROVE v = w
  BY <1>1, <1>6, InRange DEF Once
<1>7. Threads(q) \cap Thread = Threads(l) \ Threads(p)
  <2>1. Range(p) \subseteq Range(l) /\ Range(q) \subseteq Range(l)
    BY <1>2
  <2> HIDE DEF p, q, l
  <2>2. ASSUME NEW x \in Threads(q) PROVE x \in Threads(l) \ Threads(p)
    <3>1. PICK w \in Range(q) : x = w.thread
      BY <2>2 DEF Threads
    <3>2. w \in Range(l) /\ w.address = a
      BY <1>5, <2>1, <3>1
    <3>3. \A v \in Range(p) : v.thread # x
      BY <1>5, <1>6, <2>1, <3>1, <3>2
    <3>4. QED BY <3>1, <3>2, <3>3 DEF Threads
  <2>3. ASSUME NEW x \in Threads(l) \ Threads(p) PROVE x \in Threads(q) \cap Thread
    <3>1. PICK w \in Range(l) : x = w.thread
      BY <2>3 DEF Threads
    <3>2. w \notin Range(p)
      BY <2>3, <3>1 DEF Threads
    <3>3. QED BY <1>5, <3>1, <3>2 DEF Threads
  <2>4. QED BY <2>2, <2>3
<1>8. PICK T : T = Threads(q)
  OBVIOUS
<1>9. T \cap Thread = Threads(waiting_threads) \ Threads(waiting_threads') /\ ResumeFromWait(T)
  BY <1>3, <1>7, <1>8
<1>10. QED BY <1>3, <1>4, <1>9, SignalInv

--------------------------------------------------------------------------------
(* Requests to the services of the emulator. *)

LEMMA RequestServiceInv ==
  ASSUME Inv, NEW t \in Thread, NEW s \in Session, RequestService(t, s), UNCHANGED waiting_threads
  PROVE  Inv'
<1>0. /\ TypeOK /\ EndpointsOK /\ CountsOK /\ ThreadsOK /\ AsyncOK /\ QueuesOK /\ ListsOK
      /\ ArbiterOK
  BY DEF Inv
<1>1. /\ status \in [Thread -> Status] /\ event_queue \in [Thread -> Nat]
      /\ request \in [Thread -> Session \cup {None}]
  BY <1>0 DEF TypeOK
<1>2. /\ status[t] = "Running" /\ status' = [status EXCEPT ![t] = "WaitIPC"]
      /\ client[s] = "open" /\ Hle(s)
      /\ request' = [request EXCEPT ![t] = s]
      /\ event_queue' = [event_queue EXCEPT ![t] = @ + 1]
      /\ UNCHANGED <<wakeup_callback, ts_queue, endpoint_vars, queue_vars, wait_vars, async_vars>>
  BY DEF RequestService
<1>3. TypeOK'
  <2>1. status' \in [Thread -> Status]
    BY <1>1, <1>2 DEF Status, Waits
  <2>2. event_queue' \in [Thread -> Nat]
    BY <1>1, <1>2
  <2>3. request' \in [Thread -> Session \cup {None}]
    BY <1>1, <1>2
  <2>4. QED BY <1>0, <1>2, <2>1, <2>2, <2>3
             DEF TypeOK, endpoint_vars, queue_vars, wait_vars, async_vars
<1>4. \A u \in Thread : u # t => Same(u)
  BY <1>1, <1>2 DEF Same, async_vars
<1>5. /\ status'[t] = "WaitIPC" /\ event_queue'[t] = 1 /\ ts_queue'[t] = 0 /\ t \notin worker'
      /\ wakeup_callback'[t] = "none" /\ request'[t] = s
  <2>1. event_queue[t] = 0 /\ ts_queue[t] = 0 /\ t \notin worker /\ wakeup_callback[t] = "none"
    BY <1>0, <1>2, RunningThread
  <2>2. QED BY <1>1, <1>2, <2>1 DEF async_vars
<1>6. EndpointsOK' /\ CountsOK' /\ SessionsKept
  BY <1>0, <1>2, QuietEndpoints
<1>7. ThreadsOK'
  <2>1. UNCHANGED <<server, port, client>>
    BY <1>2 DEF endpoint_vars
  <2>2. ThreadOK(t)'
    BY <1>2, <1>5, <2>1 DEF ThreadOK, WakeupsOK, CallbacksOK, RequestOK, Hle
  <2>3. \A u \in Thread : status[u] = "WaitHleEvent" => server'[request[u]] = "open"
    BY <1>0, <2>1, ServedSame
  <2>4. QED BY <1>0, <1>4, <1>6, <2>2, <2>3, OtherThreads
<1>8. \A u \in Thread : status'[u] = status[u] \/ u = t
  BY <1>4 DEF Same
<1>9. AsyncOK'
  BY <1>0, <1>2, <1>5, <1>8, QuietAsync DEF async_vars
<1>10. QueuesOK'
  <2>1. \A u \in Thread : Stays(u)
    BY <1>2, <1>4 DEF Same, Stays
  <2>2. \A u \in Thread : Passes(u)
    BY <1>4, <1>5 DEF Passes
  <2>3. QED BY <1>0, <1>2, <1>6, <2>1, <2>2, QuietQueues
<1>11. ListsOK' /\ ArbiterOK'
  BY <1>0, <1>2, <1>5, <1>8, QuietLists, QuietArbiter
<1>12. QED BY <1>3, <1>6, <1>7, <1>9, <1>10, <1>11 DEF Inv

LEMMA RequestDeterministicInv ==
  ASSUME Inv, NEW t \in Thread, NEW s \in Session, RequestDeterministic(t, s),
         UNCHANGED waiting_threads
  PROVE  Inv'
<1>0. /\ TypeOK /\ EndpointsOK /\ CountsOK /\ ThreadsOK /\ AsyncOK /\ QueuesOK /\ ListsOK
      /\ ArbiterOK
  BY DEF Inv
<1>1. /\ status \in [Thread -> Status] /\ event_queue \in [Thread -> Nat]
      /\ wakeup_callback \in [Thread -> {"none", "ipc", "arbiter", "async"}]
      /\ request \in [Thread -> Session \cup {None}] /\ worker \subseteq Thread
      /\ pending_async_operations \in Nat
  BY <1>0 DEF TypeOK
<1>2. /\ status[t] = "Running" /\ status' = [status EXCEPT ![t] = "WaitHleEvent"]
      /\ client[s] = "open" /\ Hle(s)
      /\ request' = [request EXCEPT ![t] = s]
      /\ wakeup_callback' = [wakeup_callback EXCEPT ![t] = "async"]
      /\ event_queue' = [event_queue EXCEPT ![t] = @ + 1]
      /\ pending_async_operations' = pending_async_operations + 1
      /\ UNCHANGED <<ts_queue, endpoint_vars, queue_vars, wait_vars, worker, starting>>
  BY DEF RequestDeterministic
<1>3. TypeOK'
  <2>1. status' \in [Thread -> Status]
    BY <1>1, <1>2 DEF Status, Waits
  <2>2. event_queue' \in [Thread -> Nat]
    BY <1>1, <1>2
  <2>3. request' \in [Thread -> Session \cup {None}]
    BY <1>1, <1>2
  <2>4. wakeup_callback' \in [Thread -> {"none", "ipc", "arbiter", "async"}]
    BY <1>1, <1>2
  <2>5. worker' \subseteq Thread /\ pending_async_operations' \in Nat
    BY <1>1, <1>2
  <2>6. QED BY <1>0, <1>2, <2>1, <2>2, <2>3, <2>4, <2>5
             DEF TypeOK, endpoint_vars, queue_vars, wait_vars
<1>4. \A u \in Thread : u # t => Same(u)
  BY <1>1, <1>2 DEF Same
<1>5. /\ status'[t] = "WaitHleEvent" /\ ts_queue'[t] = 0 /\ t \notin worker'
      /\ wakeup_callback'[t] = "async" /\ request'[t] = s
  <2>1. event_queue[t] = 0 /\ ts_queue[t] = 0 /\ t \notin worker /\ wakeup_callback[t] = "none"
    BY <1>0, <1>2, RunningThread
  <2>2. QED BY <1>1, <1>2, <2>1
<1>6. EndpointsOK' /\ CountsOK' /\ SessionsKept
  BY <1>0, <1>2, QuietEndpoints
<1>7. ThreadsOK'
  <2>1. UNCHANGED <<server, port, client>>
    BY <1>2 DEF endpoint_vars
  <2>2. server[s] = "open"
    BY <1>0, <1>2 DEF EndpointsOK
  <2>3. ThreadOK(t)'
    BY <1>2, <1>5, <2>1, <2>2 DEF ThreadOK, WakeupsOK, CallbacksOK, RequestOK, Hle
  <2>4. \A u \in Thread : status[u] = "WaitHleEvent" => server'[request[u]] = "open"
    BY <1>0, <2>1, ServedSame
  <2>5. QED BY <1>0, <1>4, <1>6, <2>3, <2>4, OtherThreads
<1>8. \A u \in Thread : status'[u] = status[u] \/ u = t
  BY <1>4 DEF Same
<1>9. AsyncOK'
  <2>1. Helped' = Helped \cup {t} /\ t \notin Helped
    BY <1>2, <1>5, <1>8 DEF Helped
  <2>2. IsFiniteSet(Helped) /\ pending_async_operations = Cardinality(Helped)
    BY <1>0 DEF AsyncOK
  <2>3. IsFiniteSet(Helped \cup {t}) /\ Cardinality(Helped \cup {t}) = Cardinality(Helped) + 1
    BY <2>1, <2>2, FS_AddElement
  <2>4. QED BY <1>2, <2>1, <2>2, <2>3 DEF AsyncOK
<1>10. QueuesOK'
  <2>1. \A u \in Thread : Stays(u)
    BY <1>2, <1>4 DEF Same, Stays
  <2>2. \A u \in Thread : Passes(u)
    BY <1>4, <1>5 DEF Passes
  <2>3. QED BY <1>0, <1>2, <1>6, <2>1, <2>2, QuietQueues
<1>11. ListsOK' /\ ArbiterOK'
  BY <1>0, <1>2, <1>5, <1>8, QuietLists, QuietArbiter
<1>12. QED BY <1>3, <1>6, <1>7, <1>9, <1>10, <1>11 DEF Inv

LEMMA AsyncSectionDoneInv ==
  ASSUME Inv, NEW t \in Thread, AsyncSectionDone(t), UNCHANGED waiting_threads
  PROVE  Inv'
<1>0. /\ TypeOK /\ EndpointsOK /\ CountsOK /\ ThreadsOK /\ AsyncOK /\ QueuesOK /\ ListsOK
      /\ ArbiterOK
  BY DEF Inv
<1>1. ts_queue \in [Thread -> Nat] /\ worker \subseteq Thread
  BY <1>0 DEF TypeOK
<1>2. /\ t \in worker /\ worker' = worker \ {t}
      /\ ts_queue' = [ts_queue EXCEPT ![t] = @ + 1]
      /\ UNCHANGED <<status, wakeup_callback, event_queue, endpoint_vars, queue_vars,
                     wait_vars, request, starting, pending_async_operations>>
  BY DEF AsyncSectionDone
<1>3. TypeOK'
  <2>1. ts_queue' \in [Thread -> Nat] /\ worker' \subseteq Thread
    BY <1>1, <1>2
  <2>2. QED BY <1>0, <1>2, <2>1 DEF TypeOK, endpoint_vars, queue_vars, wait_vars
<1>4. \A u \in Thread : u # t => Same(u)
  BY <1>1, <1>2 DEF Same
<1>5. ThreadOK(t)
  BY <1>0 DEF ThreadsOK
<1>6. status[t] = "WaitHleEvent" /\ event_queue[t] = 0 /\ t \notin worker'
  BY <1>2, <1>5 DEF ThreadOK, WakeupsOK
<1>7. EndpointsOK' /\ CountsOK' /\ SessionsKept
  BY <1>0, <1>2, QuietEndpoints
<1>8. ThreadsOK'
  <2>1. UNCHANGED <<server, port, client>>
    BY <1>2 DEF endpoint_vars
  <2>2. ThreadOK(t)'
    BY <1>2, <1>5, <1>6, <2>1 DEF ThreadOK, WakeupsOK, CallbacksOK, RequestOK, Hle
  <2>3. \A u \in Thread : status[u] = "WaitHleEvent" => server'[request[u]] = "open"
    BY <1>0, <2>1, ServedSame
  <2>4. QED BY <1>0, <1>4, <1>7, <2>2, <2>3, OtherThreads
<1>9. AsyncOK'
  BY <1>0, <1>2, QuietAsync
<1>10. QueuesOK'
  <2>1. \A u \in Thread : Stays(u)
    BY <1>2 DEF Stays
  <2>2. \A u \in Thread : Passes(u)
    BY <1>2, <1>4, <1>6 DEF Passes
  <2>3. QED BY <1>0, <1>2, <1>7, <2>1, <2>2, QuietQueues
<1>11. ListsOK' /\ ArbiterOK'
  BY <1>0, <1>2, QuietLists, QuietArbiter
<1>12. QED BY <1>3, <1>7, <1>8, <1>9, <1>10, <1>11 DEF Inv


--------------------------------------------------------------------------------
(* Wakeup events and terminations. *)

\* The endpoint goes with the last request of a session without client.
LEMMA WakeupEndpoints ==
  ASSUME Inv, NEW t \in Thread, ThreadWakeup(t), \A u \in Thread : u # t => Same(u)
  PROVE  /\ EndpointsOK' /\ CountsOK' /\ SessionsKept
         /\ server' \in [Session -> {"none", "open", "closed"}]
         /\ active_sessions' \in [Port -> Nat]
         /\ \A u \in Thread : u # t /\ status[u] = "WaitHleEvent" => server'[request[u]] = "open"
<1>0. TypeOK /\ EndpointsOK /\ CountsOK /\ ThreadsOK
  BY DEF Inv
<1>1. server \in [Session -> {"none", "open", "closed"}] /\ active_sessions \in [Port -> Nat]
  BY <1>0 DEF TypeOK
<1>2. UNCHANGED <<client, port, pending_sessions>>
  BY DEF ThreadWakeup
<1>3. PICK s : s = request[t]
  OBVIOUS
<1> DEFINE Closes == wakeup_callback[t] = "async" /\ client[s] = "closed" /\ ~InUse(s, wakeup_callback')
<1>4. CASE Closes
  <2>1. server' = [server EXCEPT ![s] = "closed"] /\ active_sessions' = Disconnected(s)
    BY <1>3, <1>4 DEF ThreadWakeup
  <2>2. s \in Session /\ server[s] = "open"
    BY <1>0, <1>3, <1>4 DEF ThreadsOK, ThreadOK, CallbacksOK, RequestOK
  <2>3. CountsOK' /\ active_sessions' \in [Port -> Nat]
    BY <1>0, <1>2, <2>1, <2>2, CloseCounts
  <2>4. server' \in [Session -> {"none", "open", "closed"}]
    BY <1>1, <2>1
  <2>5. \A q \in Session : server'[q] = IF q = s THEN "closed" ELSE server[q]
    BY <1>1, <2>1
  <2>6. EndpointsOK' /\ SessionsKept
    BY <1>0, <1>2, <1>4, <2>5 DEF EndpointsOK, SessionsKept, Hle
  <2>7. ASSUME NEW u \in Thread, u # t, status[u] = "WaitHleEvent"
        PROVE  server'[request[u]] = "open"
    <3>1. wakeup_callback[u] = "async" /\ request[u] \in Session /\ server[request[u]] = "open"
      BY <1>0, <2>7 DEF ThreadsOK, ThreadOK, CallbacksOK, RequestOK
    <3>2. wakeup_callback'[u] = "async"
      BY <2>7, <3>1 DEF Same
    <3>3. request[u] # s
      BY <1>4, <3>2 DEF InUse
    <3>4. QED BY <2>5, <3>1, <3>3
  <2>8. QED BY <2>3, <2>4, <2>6, <2>7
<1>5. CASE ~Closes
  <2>1. UNCHANGED <<server, active_sessions>>
    BY <1>3, <1>5 DEF ThreadWakeup
  <2>2. UNCHANGED endpoint_vars
    BY <1>2, <2>1 DEF endpoint_vars
  <2>3. EndpointsOK' /\ CountsOK' /\ SessionsKept
    BY <1>0, <2>2, QuietEndpoints
  <2>4. \A u \in Thread : status[u] = "WaitHleEvent" => server'[request[u]] = "open"
    BY <1>0, <2>1, ServedSame
  <2>5. QED BY <1>1, <2>1, <2>3, <2>4
<1>6. QED BY <1>4, <1>5

LEMMA ThreadWakeupInv ==
  ASSUME Inv, NEW t \in Thread, ThreadWakeup(t)
  PROVE  Inv'
<1>0. /\ TypeOK /\ EndpointsOK /\ CountsOK /\ ThreadsOK /\ AsyncOK /\ QueuesOK /\ ListsOK
      /\ ArbiterOK
  BY DEF Inv
<1>1. /\ status \in [Thread -> Status] /\ event_queue \in [Thread -> Nat]
      /\ wakeup_callback \in [Thread -> {"none", "ipc", "arbiter", "async"}]
      /\ waiting_threads \in Seq(Waiter) /\ ts_queue \in [Thread -> Nat]
      /\ pending_async_operations \in Nat
  BY <1>0 DEF TypeOK, Waiter
<1>2. /\ event_queue[t] > 0 /\ status[t] # "Dead"
      /\ event_queue' = [event_queue EXCEPT ![t] = @ - 1]
      /\ waiting_threads' = IF wakeup_callback[t] = "arbiter" THEN TimedOut(t) ELSE waiting_threads
      /\ StopWaiting({t})
      /\ pending_async_operations' = OperationsLeft(t)
      /\ UNCHANGED <<ts_queue, client, port, pending_sessions, queue_vars, request, worker,
                     starting>>
  BY DEF ThreadWakeup
<1>3. /\ status' = [u \in Thread |-> IF u = t /\ status[u] \in Waits THEN "Ready" ELSE status[u]]
      /\ wakeup_callback' = [u \in Thread |-> IF u = t /\ status[u] \in Waits THEN "none"
                                              ELSE wakeup_callback[u]]
  BY DEF ThreadWakeup, ResumeFromWait, Resumed, Released
<1>4. \A u \in Thread : u # t => Same(u)
  BY <1>1, <1>2, <1>3 DEF Same
<1>5. ThreadOK(t)
  BY <1>0 DEF ThreadsOK
<1>6. status'[t] = "Ready" /\ wakeup_callback'[t] = "none" /\ t \notin worker' /\ ts_queue'[t] = 0
  <2>1. ts_queue[t] \in Nat /\ event_queue[t] \in Nat /\ status[t] \in Status
        /\ wakeup_callback[t] \in {"none", "ipc", "arbiter", "async"}
    BY <1>1
  <2>2. status[t] # "Running" /\ t \notin worker /\ ts_queue[t] = 0
    BY <1>2, <1>5, <2>1 DEF ThreadOK, WakeupsOK
  <2>3. CASE status[t] \in Waits
    BY <1>2, <1>3, <2>2, <2>3
  <2>4. CASE status[t] = "Ready"
    <3>1. status[t] \notin Waits
      BY <2>4 DEF Waits
    <3>2. wakeup_callback[t] = "none"
      BY <1>5, <2>1, <2>4 DEF ThreadOK, CallbacksOK
    <3>3. QED BY <1>2, <1>3, <2>2, <2>4, <3>1, <3>2
  <2>5. QED BY <1>2, <2>1, <2>2, <2>3, <2>4 DEF Status
<1>7. /\ EndpointsOK' /\ CountsOK' /\ SessionsKept
      /\ server' \in [Session -> {"none", "open", "closed"}]
      /\ active_sessions' \in [Port -> Nat]
      /\ \A u \in Thread : u # t /\ status[u] = "WaitHleEvent" => server'[request[u]] = "open"
  BY <1>4, WakeupEndpoints
<1>8. ThreadsOK'
  <2>1. ThreadOK(t)'
    BY <1>6 DEF ThreadOK, WakeupsOK, CallbacksOK, RequestOK
  <2>2. QED BY <1>0, <1>4, <1>7, <2>1, OtherThreads
<1>9. \A u \in Thread : status'[u] = status[u] \/ u = t
  BY <1>4 DEF Same
<1>10. AsyncOK' /\ pending_async_operations' \in Nat
  <2>1. IsFiniteSet(Helped) /\ pending_async_operations = Cardinality(Helped)
    BY <1>0 DEF AsyncOK
  <2>2. wakeup_callback[t] = "async" <=> t \in Helped
    BY <1>5 DEF ThreadOK, CallbacksOK, Helped
  <2>3. Helped' = Helped \ {t}
    BY <1>6, <1>9 DEF Helped
  <2>4. CASE t \in Helped
    <3>1. /\ IsFiniteSet(Helped \ {t}) /\ Cardinality(Helped \ {t}) = Cardinality(Helped) - 1
          /\ Cardinality(Helped \ {t}) \in Nat
      BY <2>1, <2>4, FS_RemoveElement, FS_CardinalityType
    <3>2. pending_async_operations' = pending_async_operations - 1
      BY <1>2, <2>2, <2>4 DEF OperationsLeft
    <3>3. QED BY <2>1, <2>3, <3>1, <3>2 DEF AsyncOK
  <2>5. CASE t \notin Helped
    <3>1. pending_async_operations' = pending_async_operations
      BY <1>1, <1>2, <2>2, <2>5 DEF OperationsLeft
    <3>2. Helped' = Helped
      BY <2>3, <2>5
    <3>3. QED BY <1>1, <2>1, <3>1, <3>2 DEF AsyncOK
  <2>6. QED BY <2>4, <2>5
<1>11. QueuesOK'
  <2>1. \A u \in Thread : Stays(u)
    BY <1>2, <1>4 DEF Same, Stays
  <2>2. \A u \in Thread : Passes(u)
    BY <1>4, <1>6 DEF Passes
  <2>3. QED BY <1>0, <1>2, <1>7, <2>1, <2>2, QuietQueues
<1>12. /\ waiters' \in [Object -> Seq(Thread)] /\ wait_objects' \in [Thread -> SUBSET Object]
       /\ ListsOK'
  <2>1. \A u \in Thread : u \notin {t} /\ status[u] = "WaitSynchAny" => status'[u] = "WaitSynchAny"
    BY <1>9
  <2>2. QED BY <1>0, <1>2, <2>1, StopWaitingLists
<1>13. ArbiterOK' /\ waiting_threads' \in Seq([thread : Thread, address : Address])
  <2>1. CASE wakeup_callback[t] = "arbiter"
    <3>1. PICK T : T = [thread : {t}, address : Address]
      OBVIOUS
    <3>2. waiting_threads' = Without(waiting_threads, T)
      BY <1>2, <2>1, <3>1 DEF TimedOut
    <3>3. /\ waiting_threads' \in Seq(Waiter) /\ Range(waiting_threads') = Range(waiting_threads) \ T
          /\ Once(waiting_threads')
      BY <1>0, <1>1, <3>2, WithoutMembers, WithoutOnce DEF ArbiterOK
    <3>4. waiting_threads' \in Parts(waiting_threads)
      BY <3>3 DEF Parts
    <3>5. ASSUME NEW w \in Range(waiting_threads) PROVE w \in T <=> w.thread = t
      <4>1. w \in Waiter
        BY <1>1, InRange
      <4>2. w = [thread |-> w.thread, address |-> w.address] /\ w.address \in Address
        BY <4>1 DEF Waiter
      <4>3. QED BY <3>1, <4>2
    <3>6. Threads(waiting_threads') = Threads(waiting_threads) \ {t}
      BY <3>3, <3>5 DEF Threads
    <3>7. \A u \in Thread : status[u] = "WaitArb" => u \in Threads(waiting_threads)
      BY <1>0, <1>1, ListedThreads DEF ArbiterOK
    <3>8. \A u \in Thread : /\ status'[u] = "WaitArb" <=>
                                 status[u] = "WaitArb" /\ u \in Threads(waiting_threads')
                            /\ status[u] = "Dead" => status'[u] = "Dead"
      BY <1>2, <1>6, <1>9, <3>6, <3>7
    <3>9. QED BY <1>0, <3>4, <3>8, ArbiterParts
  <2>2. CASE wakeup_callback[t] # "arbiter"
    <3>1. status[t] # "WaitArb"
      BY <1>2, <1>5, <2>2 DEF ThreadOK, WakeupsOK
    <3>2. QED BY <1>0, <1>1, <1>2, <1>6, <1>9, <2>2, <3>1, QuietArbiter DEF Waiter
  <2>3. QED BY <2>1, <2>2
<1>14. TypeOK'
  <2>1. status' \in [Thread -> Status]
    BY <1>1, <1>3 DEF Status
  <2>2. wakeup_callback' \in [Thread -> {"none", "ipc", "arbiter", "async"}]
    BY <1>1, <1>3
  <2>3. event_queue' \in [Thread -> Nat]
    BY <1>1, <1>2
  <2>4. QED BY <1>0, <1>2, <1>7, <1>10, <1>12, <1>13, <2>1, <2>2, <2>3 DEF TypeOK, queue_vars
<1>15. QED BY <1>7, <1>8, <1>10, <1>11, <1>12, <1>13, <1>14 DEF Inv

LEMMA StopInv ==
  ASSUME SafeKills, Inv, NEW t \in Thread, Stop(t)
  PROVE  Inv'
<1>0. /\ TypeOK /\ EndpointsOK /\ CountsOK /\ ThreadsOK /\ AsyncOK /\ QueuesOK /\ ListsOK
      /\ ArbiterOK
  BY DEF Inv
<1>1. status \in [Thread -> Status] /\ event_queue \in [Thread -> Nat]
  BY <1>0 DEF TypeOK
<1>2. /\ status[t] \in KillStates \ {"Dead"} /\ status' = [status EXCEPT ![t] = "Dead"]
      /\ event_queue' = [u \in Thread |-> IF u = t THEN 0 ELSE event_queue[u]]
      /\ StopWaiting({t})
      /\ UNCHANGED <<wakeup_callback, ts_queue, waiting_threads, endpoint_vars, queue_vars,
                     request, async_vars>>
  BY DEF Stop, UnscheduleEvent
<1>3. status[t] # "WaitHleEvent"
  BY <1>2 DEF SafeKills
<1>4. \A u \in Thread : u # t => Same(u)
  BY <1>1, <1>2 DEF Same, async_vars
<1>5. status'[t] = "Dead" /\ event_queue'[t] = 0
  BY <1>1, <1>2
<1>6. EndpointsOK' /\ CountsOK' /\ SessionsKept
  BY <1>0, <1>2, QuietEndpoints
<1>7. ThreadsOK'
  <2>1. ThreadOK(t)'
    <3>1. ThreadOK(t)
      BY <1>0 DEF ThreadsOK
    <3>2. t \in worker' <=> t \in worker
      BY <1>2 DEF async_vars
    <3>3. QED BY <1>2, <1>3, <1>5, <3>1, <3>2 DEF ThreadOK, WakeupsOK, CallbacksOK, RequestOK
  <2>2. UNCHANGED server
    BY <1>2 DEF endpoint_vars
  <2>3. \A u \in Thread : status[u] = "WaitHleEvent" => server'[request[u]] = "open"
    BY <1>0, <2>2, ServedSame
  <2>4. QED BY <1>0, <1>4, <1>6, <2>1, <2>3, OtherThreads
<1>8. \A u \in Thread : status'[u] = status[u] \/ u = t
  BY <1>4 DEF Same
<1>9. AsyncOK'
  BY <1>0, <1>2, <1>3, <1>5, <1>8, QuietAsync DEF async_vars
<1>10. QueuesOK'
  <2>1. \A u \in Thread : Stays(u)
    BY <1>2, <1>4, <1>5 DEF Same, Stays
  <2>2. \A u \in Thread : Passes(u)
    BY <1>4, <1>5 DEF Passes
  <2>3. QED BY <1>0, <1>2, <1>6, <2>1, <2>2, QuietQueues
<1>11. /\ waiters' \in [Object -> Seq(Thread)] /\ wait_objects' \in [Thread -> SUBSET Object]
       /\ ListsOK'
  <2>1. \A u \in Thread : u \notin {t} /\ status[u] = "WaitSynchAny" => status'[u] = "WaitSynchAny"
    BY <1>8
  <2>2. QED BY <1>0, <1>2, <2>1, StopWaitingLists
<1>12. ArbiterOK'
  <2>1. \A u \in Thread : /\ status'[u] = "WaitArb" => status[u] = "WaitArb"
                          /\ status[u] \in {"WaitArb", "Dead"} => status'[u] \in {"WaitArb", "Dead"}
    BY <1>5, <1>8
  <2>2. QED BY <1>0, <1>2, <2>1 DEF ArbiterOK
<1>13. TypeOK'
  <2>1. status' \in [Thread -> Status]
    BY <1>1, <1>2 DEF Status
  <2>2. event_queue' \in [Thread -> Nat]
    BY <1>1, <1>2
  <2>3. QED BY <1>0, <1>2, <1>11, <2>1, <2>2 DEF TypeOK, endpoint_vars, queue_vars, async_vars
<1>14. QED BY <1>6, <1>7, <1>9, <1>10, <1>11, <1>12, <1>13 DEF Inv


--------------------------------------------------------------------------------
(* Opening and closing. *)

\* Threads that wait for objects leave the lists and go on.
LEMMA WaitersWoken ==
  ASSUME TypeOK, ListsOK, NEW T, \A u \in T : u \in Thread /\ status[u] = "WaitSynchAny",
         StopWaiting(T), ResumeFromWait(T), UNCHANGED <<event_queue, ts_queue, worker, request>>
  PROVE  /\ status' \in [Thread -> Status]
         /\ wakeup_callback' \in [Thread -> {"none", "ipc", "arbiter", "async"}]
         /\ waiters' \in [Object -> Seq(Thread)] /\ wait_objects' \in [Thread -> SUBSET Object]
         /\ ListsOK'
         /\ \A u \in Thread : \/ Same(u)
                              \/ Woken(u) /\ status[u] = "WaitSynchAny" /\ status'[u] = "Ready"
<1>1. /\ status' \in [Thread -> Status]
      /\ wakeup_callback' \in [Thread -> {"none", "ipc", "arbiter", "async"}]
      /\ \A u \in Thread : IF u \in T /\ status[u] \in Waits THEN Woken(u) ELSE Same(u)
  <2>1. \A u \in Thread \cap T : status[u] # "WaitHleEvent"
    OBVIOUS
  <2>2. QED BY <2>1, ResumedThreads
<1>2. \A u \in Thread : \/ Same(u)
                        \/ Woken(u) /\ status[u] = "WaitSynchAny" /\ status'[u] = "Ready"
  BY <1>1 DEF Woken
<1>3. \A u \in Thread : u \notin T /\ status[u] = "WaitSynchAny" => status'[u] = "WaitSynchAny"
  BY <1>1 DEF Same
<1>4. /\ waiters' \in [Object -> Seq(Thread)] /\ wait_objects' \in [Thread -> SUBSET Object]
      /\ ListsOK'
  BY <1>3, StopWaitingLists
<1>5. QED BY <1>1, <1>2, <1>4

LEMMA ListedWait ==
  ASSUME TypeOK, ListsOK, NEW o \in Object
  PROVE  \A u \in Range(waiters[o]) : u \in Thread /\ status[u] = "WaitSynchAny" /\ u \in Server
<1>1. waiters[o] \in Seq(Thread)
  BY DEF TypeOK
<1>2. \A u \in Range(waiters[o]) : u \in Thread
  BY <1>1, InRange
<1>3. QED BY <1>2 DEF ListsOK

\* Waking threads of the wait lists disturbs neither arbiter nor services.
LEMMA WaitersOnly ==
  ASSUME \A u \in Thread : \/ Same(u)
                           \/ Woken(u) /\ status[u] = "WaitSynchAny" /\ status'[u] = "Ready"
  PROVE  /\ \A u \in Thread : status'[u] = "WaitHleEvent" <=> status[u] = "WaitHleEvent"
         /\ \A u \in Thread : /\ status'[u] = "WaitArb" <=> status[u] = "WaitArb"
                              /\ status[u] = "Dead" => status'[u] = "Dead"
         /\ \A u \in Thread : Stays(u)
         /\ \A u \in Thread : Passes(u)
         /\ \A u \in Thread : Same(u) \/ Woken(u)
<1>1. ASSUME NEW u \in Thread
      PROVE  /\ status'[u] = "WaitHleEvent" <=> status[u] = "WaitHleEvent"
             /\ status'[u] = "WaitArb" <=> status[u] = "WaitArb"
             /\ status[u] = "Dead" => status'[u] = "Dead"
             /\ Stays(u) /\ Passes(u) /\ (Same(u) \/ Woken(u))
  BY DEF Same, Stays, Passes
<1>2. QED BY <1>1

\* A new session takes one of the free slots.
LEMMA ConnectCounts ==
  ASSUME TypeOK, EndpointsOK, CountsOK, NEW s \in Session, NEW p \in Port, client[s] = "none",
         active_sessions[p] < max_sessions[p],
         active_sessions' = [active_sessions EXCEPT ![p] = @ + 1],
         server' = [server EXCEPT ![s] = "open"], port' = [port EXCEPT ![s] = p]
  PROVE  CountsOK' /\ active_sessions' \in [Port -> Nat]
<1>1. /\ server \in [Session -> {"none", "open", "closed"}] /\ active_sessions \in [Port -> Nat]
      /\ port \in [Session -> Port \cup {None}]
  BY DEF TypeOK
<1>2. server[s] = "none"
  BY DEF EndpointsOK
<1>3. Open(p)' = Open(p) \cup {s} /\ s \notin Open(p)
  BY <1>1, <1>2 DEF Open
<1>4. \A q \in Port : q # p => Open(q)' = Open(q)
  BY <1>1, <1>2 DEF Open
<1>5. /\ IsFiniteSet(Open(p)') /\ Cardinality(Open(p)') = Cardinality(Open(p)) + 1
  <2>1. IsFiniteSet(Open(p))
    BY DEF CountsOK
  <2>2. QED BY <1>3, <2>1, FS_AddElement
<1>6. ASSUME NEW q \in Port
      PROVE  /\ IsFiniteSet(Open(q)') /\ active_sessions'[q] = Cardinality(Open(q)')
             /\ active_sessions'[q] <= max_sessions[q] /\ active_sessions'[q] \in Nat
  <2>1. /\ IsFiniteSet(Open(q)) /\ active_sessions[q] = Cardinality(Open(q))
        /\ active_sessions[q] <= max_sessions[q] /\ active_sessions[q] \in Nat
        /\ max_sessions[q] \in Nat
    BY <1>1, PortAssumption DEF CountsOK
  <2>2. CASE q = p
    <3>1. active_sessions'[p] = active_sessions[p] + 1
      BY <1>1
    <3>2. QED BY <1>5, <2>1, <2>2, <3>1
  <2>3. CASE q # p
    <3>1. active_sessions'[q] = active_sessions[q]
      BY <1>1, <2>3
    <3>2. QED BY <1>4, <2>1, <2>3, <3>1
  <2>4. QED BY <2>2, <2>3
<1>7. active_sessions' \in [Port -> Nat]
  BY <1>1
<1>8. QED BY <1>6, <1>7 DEF CountsOK

LEMMA ConnectInv ==
  ASSUME Inv, NEW t \in Thread, NEW p \in Port, NEW s \in Session, Connect(t, p, s),
         UNCHANGED waiting_threads
  PROVE  Inv'
<1>0. /\ TypeOK /\ EndpointsOK /\ CountsOK /\ ThreadsOK /\ AsyncOK /\ QueuesOK /\ ListsOK
      /\ ArbiterOK
  BY DEF Inv
<1>1. /\ client \in [Session -> {"none", "open", "closed"}]
      /\ server \in [Session -> {"none", "open", "closed"}]
      /\ port \in [Session -> Port \cup {None}] /\ pending_sessions \in [Port -> Seq(Session)]
  BY <1>0 DEF TypeOK
<1>2. /\ client[s] = "none" /\ active_sessions[p] < max_sessions[p]
      /\ active_sessions' = [active_sessions EXCEPT ![p] = @ + 1]
      /\ client' = [client EXCEPT ![s] = "open"]
      /\ server' = [server EXCEPT ![s] = "open"]
      /\ port' = [port EXCEPT ![s] = p]
      /\ pending_sessions' = IF p \in HlePort THEN pending_sessions
                             ELSE [pending_sessions EXCEPT ![p] = Append(@, s)]
      /\ UNCHANGED <<queue_vars, request, async_vars, event_queue, ts_queue>>
  BY DEF Connect
<1>3. PICK T : /\ T \subseteq Range(waiters[p])
               /\ StopWaiting(T) /\ ResumeFromWait(T)
  <2>1. PICK woken : woken = IF pending_sessions'[p] = << >> THEN {} ELSE Range(waiters[p])
    OBVIOUS
  <2>2. StopWaiting(woken) /\ ResumeFromWait(woken)
    BY <2>1 DEF Connect
  <2>3. QED BY <2>1, <2>2
<1>4. /\ status' \in [Thread -> Status]
      /\ wakeup_callback' \in [Thread -> {"none", "ipc", "arbiter", "async"}]
      /\ waiters' \in [Object -> Seq(Thread)] /\ wait_objects' \in [Thread -> SUBSET Object]
      /\ ListsOK'
      /\ \A u \in Thread : \/ Same(u)
                           \/ Woken(u) /\ status[u] = "WaitSynchAny" /\ status'[u] = "Ready"
  <2>1. \A u \in T : u \in Thread /\ status[u] = "WaitSynchAny"
    BY <1>0, <1>3, ListedWait DEF Object
  <2>2. UNCHANGED <<event_queue, ts_queue, worker, request>>
    BY <1>2 DEF async_vars
  <2>3. QED BY <1>0, <1>3, <2>1, <2>2, WaitersWoken
<1>5. /\ \A u \in Thread : status'[u] = "WaitHleEvent" <=> status[u] = "WaitHleEvent"
      /\ \A u \in Thread : /\ status'[u] = "WaitArb" <=> status[u] = "WaitArb"
                           /\ status[u] = "Dead" => status'[u] = "Dead"
      /\ \A u \in Thread : Stays(u)
      /\ \A u \in Thread : Passes(u)
      /\ \A u \in Thread : Same(u) \/ Woken(u)
  BY <1>4, WaitersOnly
<1>6. CountsOK' /\ active_sessions' \in [Port -> Nat]
  BY <1>0, <1>2, ConnectCounts
<1>7. \A q \in Session : IF q = s THEN client'[q] = "open" /\ server'[q] = "open" /\ port'[q] = p
                         ELSE client'[q] = client[q] /\ server'[q] = server[q] /\ port'[q] = port[q]
  BY <1>1, <1>2
<1>8. EndpointsOK'
  BY <1>0, <1>7 DEF EndpointsOK, Hle
<1>9. SessionsKept
  <2>1. server[s] = "none"
    BY <1>0, <1>2 DEF EndpointsOK
  <2>2. QED BY <1>2, <1>7, <2>1 DEF SessionsKept
<1>10. TypeOK'
  <2>1. /\ client' \in [Session -> {"none", "open", "closed"}]
        /\ server' \in [Session -> {"none", "open", "closed"}]
        /\ port' \in [Session -> Port \cup {None}]
    BY <1>1, <1>2
  <2>2. pending_sessions' \in [Port -> Seq(Session)]
    BY <1>1, <1>2
  <2>3. QED BY <1>0, <1>2, <1>4, <1>6, <2>1, <2>2 DEF TypeOK, queue_vars, async_vars
<1>11. ThreadsOK'
  <2>1. ASSUME NEW u \in Thread, status[u] = "WaitHleEvent" PROVE server'[request[u]] = "open"
    <3>1. request[u] \in Session /\ server[request[u]] = "open"
      BY <1>0, <2>1 DEF ThreadsOK, ThreadOK, RequestOK
    <3>2. QED BY <1>7, <3>1
  <2>2. PICK n : n \notin Thread
    BY NoneAssumption
  <2>3. QED BY <1>0, <1>5, <1>9, <2>1, <2>2, OtherThreads
<1>12. AsyncOK'
  BY <1>0, <1>2, <1>5, QuietAsync DEF async_vars
<1>13. QueuesOK'
  BY <1>0, <1>2, <1>5, <1>9, QuietQueues
<1>14. ArbiterOK'
  BY <1>0, <1>5, QuietArbiter
<1>15. QED BY <1>4, <1>6, <1>8, <1>10, <1>11, <1>12, <1>13, <1>14 DEF Inv

\* The first part and the end of a list.
LEMMA FrontLast ==
  ASSUME NEW S, NEW s \in Seq(S), s # << >>
  PROVE  /\ Front(s) \in Seq(S) /\ Last(s) \in S
         /\ Range(s) = Range(Front(s)) \cup {Last(s)}
         /\ IsInjective(s) => IsInjective(Front(s)) /\ Last(s) \notin Range(Front(s))
<1> DEFINE r == Front(s)
           n == Len(s)
<1>1. n \in Nat /\ n >= 1 /\ \A i \in 1 .. n : s[i] \in S
  OBVIOUS
<1>2. r \in Seq(S) /\ Len(r) = n - 1 /\ \A i \in 1 .. n - 1 : r[i] = s[i]
  <2>1. r = SubSeq(s, 1, n - 1)
    BY DEF Front
  <2>2. 1 \in Int /\ n - 1 \in Int /\ \A i \in 1 .. n - 1 : s[i] \in S
    BY <1>1
  <2> HIDE DEF r, n
  <2>3. /\ SubSeq(s, 1, n - 1) \in Seq(S)
        /\ Len(SubSeq(s, 1, n - 1)) = IF 1 <= n - 1 THEN n - 1 - 1 + 1 ELSE 0
        /\ \A i \in 1 .. n - 1 - 1 + 1 : SubSeq(s, 1, n - 1)[i] = s[1 + i - 1]
    BY <2>2, SubSeqProperties
  <2>4. QED BY <1>1, <2>1, <2>3
<1>3. Last(s) = s[n]
  BY DEF Last
<1>4. /\ \A x : x \in Range(s) <=> \E i \in 1 .. n : s[i] = x
      /\ \A x : x \in Range(r) <=> \E i \in 1 .. n - 1 : s[i] = x
  <2>1. \A x : x \in Range(s) <=> \E i \in 1 .. n : s[i] = x
    BY InRange
  <2>2. \A x : x \in Range(r) <=> \E i \in 1 .. n - 1 : r[i] = x
    BY <1>2, InRange
  <2>3. QED BY <1>2, <2>1, <2>2
<1>5. /\ IsInjective(s) <=> \A i, j \in 1 .. n : s[i] = s[j] => i = j
      /\ IsInjective(r) <=> \A i, j \in 1 .. n - 1 : r[i] = r[j] => i = j
  BY <1>2, InToSet
<1> HIDE DEF r, n
<1>6. Range(s) = Range(r) \cup {s[n]}
  BY <1>1, <1>4
<1>7. IsInjective(s) => IsInjective(r) /\ s[n] \notin Range(r)
  BY <1>1, <1>2, <1>4, <1>5
<1>8. QED BY <1>1, <1>2, <1>3, <1>6, <1>7 DEF r

LEMMA AcceptSessionInv ==
  ASSUME Inv, NEW t \in Thread, NEW p \in Port, AcceptSession(t, p), UNCHANGED waiting_threads
  PROVE  Inv'
<1>0. /\ TypeOK /\ EndpointsOK /\ CountsOK /\ ThreadsOK /\ AsyncOK /\ QueuesOK /\ ListsOK
      /\ ArbiterOK
  BY DEF Inv
<1>1. /\ pending_sessions[p] # << >>
      /\ pending_sessions' = [pending_sessions EXCEPT ![p] = Front(@)]
      /\ UNCHANGED <<thread_vars, client, server, port, active_sessions, queue_vars,
                     wait_vars, request, async_vars>>
  BY DEF AcceptSession
<1>2. TypeOK'
  <2>1. pending_sessions \in [Port -> Seq(Session)]
    BY <1>0 DEF TypeOK
  <2>2. Front(pending_sessions[p]) \in Seq(Session)
    BY <1>1, <2>1, FrontLast
  <2>3. pending_sessions' \in [Port -> Seq(Session)]
    BY <1>1, <2>1, <2>2
  <2>4. QED BY <1>0, <1>1, <2>3 DEF TypeOK, thread_vars, queue_vars, wait_vars, async_vars
<1>3. EndpointsOK' /\ ThreadsOK' /\ QueuesOK' /\ ListsOK' /\ ArbiterOK'
  <2>1. EndpointsOK'
    BY <1>0, <1>1 DEF EndpointsOK, Hle
  <2>2. ThreadsOK'
    BY <1>0, <1>1 DEF ThreadsOK, ThreadOK, WakeupsOK, CallbacksOK, RequestOK, Hle, thread_vars, async_vars
  <2>3. QueuesOK'
    BY <1>0, <1>1 DEF QueuesOK, QueueOK, Tracked, Members, Hle, thread_vars, queue_vars
  <2>4. ListsOK' /\ ArbiterOK'
    BY <1>0, <1>1 DEF ListsOK, ArbiterOK, thread_vars, wait_vars
  <2>5. QED BY <2>1, <2>2, <2>3, <2>4
<1>4. CountsOK' /\ AsyncOK'
  <2>1. \A q : Open(q)' = Open(q)
    BY <1>1 DEF Open
  <2>2. Helped' = Helped
    BY <1>1 DEF Helped, thread_vars
  <2>3. QED BY <1>0, <1>1, <2>1, <2>2 DEF CountsOK, AsyncOK, async_vars
<1>5. QED BY <1>2, <1>3, <1>4 DEF Inv


\* A session has no more requests than before, each still that of a sleeping thread.
Shrinks(s) ==
  /\ IsInjective(pending_requesting_threads'[s])
  /\ currently_handling'[s] \notin Range(pending_requesting_threads'[s])
  /\ Members(s)' \subseteq Members(s) /\ \A t \in Members(s)' : Stays(t)
Remembered(t) ==
  status[t] = "WaitIPC" /\ Same(t) /\ t \in Members(request[t]) =>
    \/ t \in Members(request[t])'
    \/ client'[request[t]] = "closed" \/ server'[request[t]] = "closed"

\* The requests of a session are those of threads.
LEMMA MembersAreThreads ==
  ASSUME TypeOK, NEW s \in Session
  PROVE  Members(s) \subseteq Thread
<1>1. pending_requesting_threads[s] \in Seq(Thread) /\ currently_handling[s] \in Thread \cup {None}
  BY DEF TypeOK
<1>2. QED BY <1>1, InRange DEF Members

\* Steps that take requests from the sessions.
LEMMA ShrunkQueues ==
  ASSUME TypeOK, QueuesOK, ThreadsOK, SessionsKept, \A s \in Session : Shrinks(s),
         \A t \in Thread : Passes(t), \A t \in Thread : Remembered(t)
  PROVE  QueuesOK'
<1>1. ASSUME NEW s \in Session PROVE QueueOK(s)'
  <2>1. ASSUME NEW t \in Members(s)'
        PROVE  request'[t] = s /\ status'[t] \in {"WaitIPC", "Dead"} /\ ~Hle(s)' /\ client'[s] # "none"
    <3>1. t \in Members(s) /\ t \in Thread /\ Stays(t)
      BY MembersAreThreads DEF Shrinks
    <3>2. request[t] = s /\ status[t] \in {"WaitIPC", "Dead"} /\ ~Hle(s) /\ client[s] # "none"
      BY <3>1 DEF QueuesOK, QueueOK
    <3>3. ~(status[t] = "WaitIPC" /\ event_queue[t] > 0)
      BY <3>1, <3>2 DEF ThreadsOK, ThreadOK, WakeupsOK
    <3>4. QED BY <3>1, <3>2, <3>3 DEF SessionsKept, Hle, Stays
  <2>2. QED BY <2>1 DEF QueueOK, Shrinks
<1>2. ASSUME NEW t \in Thread PROVE Tracked(t)'
  <2>1. SUFFICES ASSUME Same(t), status[t] = "WaitIPC" PROVE Tracked(t)'
    BY DEF Tracked, Same, Passes
  <2>2. request[t] \in Session /\ request'[t] = request[t] /\ event_queue'[t] = event_queue[t]
    BY <2>1 DEF ThreadsOK, ThreadOK, RequestOK, Same
  <2>3. Tracked(t)
    BY DEF QueuesOK
  <2>4. PICK s \in Session : s = request[t]
    BY <2>2
  <2>5. Members(request[t])' = Members(s)' /\ Members(request[t]) = Members(s)
    BY <2>2, <2>4
  <2>6. CASE t \in Members(s)
    <3>1. t \in Members(s)' \/ client'[s] = "closed" \/ server'[s] = "closed"
      <4>1. t \in Members(s)' <=> t \in Members(request[t])'
        BY <2>5
      <4>2. QED BY <2>1, <2>4, <2>5, <2>6, <4>1 DEF Remembered
    <3>2. QED BY <2>2, <2>4, <2>5, <3>1 DEF Tracked
  <2>7. CASE t \notin Members(s)
    BY <2>1, <2>2, <2>3, <2>4, <2>5, <2>7 DEF Tracked, SessionsKept
  <2>8. QED BY <2>6, <2>7
<1>3. QED BY <1>1, <1>2 DEF QueuesOK


\* A closed session forgets its clients.
LEMMA DroppedQueues ==
  ASSUME TypeOK, QueuesOK, NEW s \in Session,
         pending_requesting_threads' = [pending_requesting_threads EXCEPT ![s] = << >>],
         currently_handling' = [currently_handling EXCEPT ![s] = None],
         client'[s] = "closed" \/ server'[s] = "closed", \A u \in Thread : Stays(u)
  PROVE  /\ pending_requesting_threads' \in [Session -> Seq(Thread)]
         /\ currently_handling' \in [Session -> Thread \cup {None}]
         /\ \A q \in Session : Shrinks(q)
         /\ \A u \in Thread : Remembered(u)
<1>1. /\ pending_requesting_threads \in [Session -> Seq(Thread)]
      /\ currently_handling \in [Session -> Thread \cup {None}]
  BY DEF TypeOK
<1>2. \A q \in Session :
        IF q = s THEN pending_requesting_threads'[q] = << >> /\ currently_handling'[q] = None
        ELSE /\ pending_requesting_threads'[q] = pending_requesting_threads[q]
             /\ currently_handling'[q] = currently_handling[q]
  BY <1>1
<1>3. Range(<< >>) = {} /\ IsInjective(<< >>)
  BY DEF Range, IsInjective
<1>4. \A q \in Session : Members(q)' = IF q = s THEN {} ELSE Members(q)
  BY <1>2, <1>3 DEF Members
<1>5. ASSUME NEW q \in Session PROVE Shrinks(q)
  <2>1. \A u \in Members(q)' : Stays(u)
    BY <1>4, MembersAreThreads
  <2>2. IsInjective(pending_requesting_threads'[q])
        /\ currently_handling'[q] \notin Range(pending_requesting_threads'[q])
    BY <1>2, <1>3 DEF QueuesOK, QueueOK
  <2>3. QED BY <1>4, <2>1, <2>2 DEF Shrinks
<1>6. ASSUME NEW u \in Thread PROVE Remembered(u)
  <2>1. SUFFICES ASSUME Same(u), status[u] = "WaitIPC", u \in Members(request[u])
                 PROVE  \/ u \in Members(request[u])'
                        \/ client'[request[u]] = "closed" \/ server'[request[u]] = "closed"
    BY DEF Remembered
  <2>2. request[u] \in Session \/ request[u] = None
    BY DEF TypeOK
  <2>3. CASE request[u] = s
    BY <2>3
  <2>4. CASE request[u] # s
    <3>1. PICK q : q = request[u]
      OBVIOUS
    <3>2. request'[u] = q
      BY <2>1, <3>1 DEF Same
    <3>3. Members(request[u])' = Members(q)'
      BY <3>2
    <3>4. CASE q \in Session
      BY <1>4, <2>1, <2>4, <3>1, <3>3, <3>4
    <3>5. CASE q \notin Session
      BY <1>1, <2>1, <2>4, <3>1, <3>3, <3>5 DEF Members
    <3>6. QED BY <3>4, <3>5
  <2>5. QED BY <2>3, <2>4
<1>7. QED BY <1>1, <1>5, <1>6

LEMMA CloseServerInv ==
  ASSUME Inv, NEW t \in Thread, NEW s \in Session, CloseServer(t, s), UNCHANGED waiting_threads
  PROVE  Inv'
<1>0. /\ TypeOK /\ EndpointsOK /\ CountsOK /\ ThreadsOK /\ AsyncOK /\ QueuesOK /\ ListsOK
      /\ ArbiterOK
  BY DEF Inv
<1>1. /\ server[s] = "open" /\ ~Hle(s)
      /\ server' = [server EXCEPT ![s] = "closed"] /\ active_sessions' = Disconnected(s)
      /\ pending_requesting_threads' = [pending_requesting_threads EXCEPT ![s] = << >>]
      /\ currently_handling' = [currently_handling EXCEPT ![s] = None]
      /\ UNCHANGED <<thread_vars, client, port, pending_sessions, wait_vars, request, async_vars>>
  BY DEF CloseServer, Accepted
<1>2. server \in [Session -> {"none", "open", "closed"}]
  BY <1>0 DEF TypeOK
<1>3. \A q \in Session : server'[q] = IF q = s THEN "closed" ELSE server[q]
  BY <1>1, <1>2
<1>4. CountsOK' /\ active_sessions' \in [Port -> Nat]
  BY <1>0, <1>1, CloseCounts
<1>5. EndpointsOK' /\ SessionsKept
  BY <1>0, <1>1, <1>3 DEF EndpointsOK, SessionsKept, Hle
<1>6. \A u \in Thread : Same(u) /\ status'[u] = status[u]
  BY <1>1 DEF Same, thread_vars, async_vars
<1>7. \A u \in Thread : Stays(u)
  BY <1>6 DEF Same, Stays
<1>8. \A u \in Thread : Passes(u)
  BY <1>6 DEF Passes
<1>9. /\ pending_requesting_threads' \in [Session -> Seq(Thread)]
      /\ currently_handling' \in [Session -> Thread \cup {None}]
      /\ \A q \in Session : Shrinks(q)
      /\ \A u \in Thread : Remembered(u)
  BY <1>0, <1>1, <1>3, <1>7, DroppedQueues
<1>10. QueuesOK'
  BY <1>0, <1>5, <1>8, <1>9, ShrunkQueues
<1>11. TypeOK'
  <2>1. server' \in [Session -> {"none", "open", "closed"}]
    BY <1>1, <1>2
  <2>2. QED BY <1>0, <1>1, <1>4, <1>9, <2>1 DEF TypeOK, thread_vars, wait_vars, async_vars
<1>12. ThreadsOK'
  <2>1. ASSUME NEW u \in Thread, status[u] = "WaitHleEvent" PROVE server'[request[u]] = "open"
    <3>1. request[u] \in Session /\ Hle(request[u]) /\ server[request[u]] = "open"
      BY <1>0, <2>1 DEF ThreadsOK, ThreadOK, RequestOK
    <3>2. request[u] # s
      BY <1>1, <3>1
    <3>3. QED BY <1>3, <3>1, <3>2
  <2>2. PICK n : n \notin Thread
    BY NoneAssumption
  <2>3. QED BY <1>0, <1>5, <1>6, <2>1, <2>2, OtherThreads
<1>13. AsyncOK'
  BY <1>0, <1>1, <1>6, QuietAsync DEF async_vars
<1>14. ListsOK' /\ ArbiterOK'
  BY <1>0, <1>1, <1>6, QuietLists, QuietArbiter
<1>15. QED BY <1>4, <1>5, <1>10, <1>11, <1>12, <1>13, <1>14 DEF Inv

\* The endpoint of a service that has no request of the session goes with the client.
LEMMA CloseClientEndpoints ==
  ASSUME Inv, NEW t \in Thread, NEW s \in Session, CloseClient(t, s)
  PROVE  /\ EndpointsOK' /\ CountsOK' /\ SessionsKept
         /\ client' \in [Session -> {"none", "open", "closed"}] /\ client'[s] = "closed"
         /\ server' \in [Session -> {"none", "open", "closed"}]
         /\ active_sessions' \in [Port -> Nat]
         /\ \A u \in Thread : status[u] = "WaitHleEvent" => server'[request[u]] = "open"
<1>0. TypeOK /\ EndpointsOK /\ CountsOK /\ ThreadsOK
  BY DEF Inv
<1>1. /\ client \in [Session -> {"none", "open", "closed"}]
      /\ server \in [Session -> {"none", "open", "closed"}] /\ active_sessions \in [Port -> Nat]
  BY <1>0 DEF TypeOK
<1>2. client[s] = "open" /\ client' = [client EXCEPT ![s] = "closed"] /\ UNCHANGED port
  BY DEF CloseClient
<1>3. /\ client' \in [Session -> {"none", "open", "closed"}]
      /\ \A q \in Session : client'[q] = IF q = s THEN "closed" ELSE client[q]
  BY <1>1, <1>2
<1> DEFINE Closes == server[s] = "open" /\ Hle(s) /\ ~InUse(s, wakeup_callback)
<1>4. CASE Closes
  <2>1. server' = [server EXCEPT ![s] = "closed"] /\ active_sessions' = Disconnected(s)
    BY <1>4 DEF CloseClient
  <2>2. CountsOK' /\ active_sessions' \in [Port -> Nat]
    BY <1>0, <1>2, <1>4, <2>1, CloseCounts
  <2>3. server' \in [Session -> {"none", "open", "closed"}]
    BY <1>1, <2>1
  <2>4. \A q \in Session : server'[q] = IF q = s THEN "closed" ELSE server[q]
    BY <1>1, <2>1
  <2>5. EndpointsOK' /\ SessionsKept
    BY <1>0, <1>2, <1>3, <2>4 DEF EndpointsOK, SessionsKept, Hle
  <2>6. ASSUME NEW u \in Thread, status[u] = "WaitHleEvent" PROVE server'[request[u]] = "open"
    <3>1. wakeup_callback[u] = "async" /\ request[u] \in Session /\ server[request[u]] = "open"
      BY <1>0, <2>6 DEF ThreadsOK, ThreadOK, CallbacksOK, RequestOK
    <3>2. request[u] # s
      BY <1>4, <3>1 DEF InUse
    <3>3. QED BY <2>4, <3>1, <3>2
  <2>7. QED BY <1>3, <2>2, <2>3, <2>5, <2>6
<1>5. CASE ~Closes
  <2>1. UNCHANGED <<server, active_sessions>>
    BY <1>5 DEF CloseClient
  <2>2. \A p : Open(p)' = Open(p)
    BY <1>2, <2>1 DEF Open
  <2>3. CountsOK'
    BY <1>0, <2>1, <2>2 DEF CountsOK
  <2>4. EndpointsOK' /\ SessionsKept
    BY <1>0, <1>2, <1>3, <2>1 DEF EndpointsOK, SessionsKept, Hle
  <2>5. \A u \in Thread : status[u] = "WaitHleEvent" => server'[request[u]] = "open"
    BY <1>0, <2>1, ServedSame
  <2>6. QED BY <1>1, <1>3, <2>1, <2>3, <2>4, <2>5
<1>6. QED BY <1>4, <1>5

LEMMA CloseClientInv ==
  ASSUME Inv, NEW t \in Thread, NEW s \in Session, CloseClient(t, s), UNCHANGED waiting_threads
  PROVE  Inv'
<1>0. /\ TypeOK /\ EndpointsOK /\ CountsOK /\ ThreadsOK /\ AsyncOK /\ QueuesOK /\ ListsOK
      /\ ArbiterOK
  BY DEF Inv
<1>1. /\ StopWaiting(Range(waiters[s])) /\ ResumeFromWait(Range(waiters[s]))
      /\ UNCHANGED <<port, pending_sessions, request, async_vars, event_queue, ts_queue>>
      /\ UNCHANGED <<event_queue, ts_queue, worker, request>>
  BY DEF CloseClient, async_vars
<1>2. /\ EndpointsOK' /\ CountsOK' /\ SessionsKept
      /\ client' \in [Session -> {"none", "open", "closed"}] /\ client'[s] = "closed"
      /\ server' \in [Session -> {"none", "open", "closed"}]
      /\ active_sessions' \in [Port -> Nat]
      /\ \A u \in Thread : status[u] = "WaitHleEvent" => server'[request[u]] = "open"
  BY CloseClientEndpoints
<1>3. /\ status' \in [Thread -> Status]
      /\ wakeup_callback' \in [Thread -> {"none", "ipc", "arbiter", "async"}]
      /\ waiters' \in [Object -> Seq(Thread)] /\ wait_objects' \in [Thread -> SUBSET Object]
      /\ ListsOK'
      /\ \A u \in Thread : \/ Same(u)
                           \/ Woken(u) /\ status[u] = "WaitSynchAny" /\ status'[u] = "Ready"
  <2>1. PICK T : T = Range(waiters[s])
    OBVIOUS
  <2>2. \A u \in T : u \in Thread /\ status[u] = "WaitSynchAny"
    BY <1>0, <2>1, ListedWait DEF Object
  <2>3. QED BY <1>0, <1>1, <2>1, <2>2, WaitersWoken
<1>4. /\ \A u \in Thread : status'[u] = "WaitHleEvent" <=> status[u] = "WaitHleEvent"
      /\ \A u \in Thread : /\ status'[u] = "WaitArb" <=> status[u] = "WaitArb"
                           /\ status[u] = "Dead" => status'[u] = "Dead"
      /\ \A u \in Thread : Stays(u)
      /\ \A u \in Thread : Passes(u)
      /\ \A u \in Thread : Same(u) \/ Woken(u)
  BY <1>3, WaitersOnly
<1>5. /\ pending_requesting_threads' \in [Session -> Seq(Thread)]
      /\ currently_handling' \in [Session -> Thread \cup {None}]
      /\ QueuesOK'
  <2>1. CASE server[s] = "open"
    <3>1. /\ pending_requesting_threads' = [pending_requesting_threads EXCEPT ![s] = << >>]
          /\ currently_handling' = [currently_handling EXCEPT ![s] = None]
      BY <2>1 DEF CloseClient
    <3>2. /\ pending_requesting_threads' \in [Session -> Seq(Thread)]
          /\ currently_handling' \in [Session -> Thread \cup {None}]
          /\ \A q \in Session : Shrinks(q)
          /\ \A u \in Thread : Remembered(u)
      BY <1>0, <1>2, <1>4, <3>1, DroppedQueues
    <3>3. QED BY <1>0, <1>2, <1>4, <3>2, ShrunkQueues
  <2>2. CASE server[s] # "open"
    <3>1. UNCHANGED queue_vars
      BY <2>2 DEF CloseClient
    <3>2. QueuesOK'
      BY <1>0, <1>2, <1>4, <3>1, QuietQueues
    <3>3. QED BY <1>0, <3>1, <3>2 DEF TypeOK, queue_vars
  <2>3. QED BY <2>1, <2>2
<1>6. TypeOK'
  BY <1>0, <1>1, <1>2, <1>3, <1>5 DEF TypeOK, async_vars
<1>7. ThreadsOK'
  <2>1. PICK n : n \notin Thread
    BY NoneAssumption
  <2>2. QED BY <1>0, <1>2, <1>4, <2>1, OtherThreads
<1>8. AsyncOK'
  BY <1>0, <1>1, <1>4, QuietAsync DEF async_vars
<1>9. ArbiterOK'
  BY <1>0, <1>4, QuietArbiter
<1>10. QED BY <1>2, <1>3, <1>5, <1>6, <1>7, <1>8, <1>9 DEF Inv


--------------------------------------------------------------------------------
(* Requests to a guest server. *)

\* The best of the threads that wait for an object is one of them.
LEMMA BestWaiterWaits ==
  ASSUME TypeOK, NEW o \in Object, waiters[o] # << >>
  PROVE  BestWaiter(o) \in Range(waiters[o])
<1> DEFINE w == waiters[o]
           Best(i) == /\ \A j \in DOMAIN w : Priority[w[i]] <= Priority[w[j]]
                      /\ \A j \in 1 .. i - 1 : Priority[w[i]] < Priority[w[j]]
<1>1. w \in Seq(Thread) /\ w # << >>
  BY DEF TypeOK
<1>2. /\ DOMAIN w = 1 .. Len(w) /\ Len(w) \in Nat /\ Len(w) >= 1
      /\ \A j \in 1 .. Len(w) : Priority[w[j]] \in Nat
  BY <1>1, PriorityAssumption
<1> DEFINE P == {Priority[w[j]] : j \in 1 .. Len(w)}
           m == Min(P)
           I == {j \in 1 .. Len(w) : Priority[w[j]] = m}
           k == Min(I)
<1> HIDE DEF w
<1>3. P \in SUBSET Nat /\ P # {}
  BY <1>2
<1>4. m \in P /\ \A x \in P : m <= x
  <2> HIDE DEF P
  <2>1. QED BY <1>3, MinIsLeast
<1>5. I \in SUBSET Nat /\ I # {}
  <2> HIDE DEF m
  <2>1. QED BY <1>2, <1>4
<1>6. k \in I /\ \A x \in I : k <= x
  <2> HIDE DEF I
  <2>1. QED BY <1>5, MinIsLeast
<1> HIDE DEF k, m
<1>7. k \in 1 .. Len(w) /\ Priority[w[k]] = m
  BY <1>6
<1>8. \A j \in 1 .. Len(w) : Priority[w[k]] <= Priority[w[j]]
  BY <1>4, <1>7
<1>9. ASSUME NEW j \in 1 .. k - 1 PROVE Priority[w[k]] < Priority[w[j]]
  <2>1. j \in 1 .. Len(w) /\ j < k
    BY <1>2, <1>7
  <2>2. Priority[w[j]] # m
    BY <1>2, <1>6, <1>7, <2>1
  <2>3. QED BY <1>2, <1>7, <1>8, <2>1, <2>2
<1>10. k \in DOMAIN w /\ Best(k)
  BY <1>2, <1>7, <1>8, <1>9
<1>11. BestWaiter(o) = w[CHOOSE i \in DOMAIN w : Best(i)]
  BY DEF BestWaiter, w
<1> HIDE DEF Best
<1>12. (CHOOSE i \in DOMAIN w : Best(i)) \in DOMAIN w
  BY <1>10
<1>13. QED BY <1>1, <1>2, <1>11, <1>12, InRange DEF w

\* Some threads are resumed and the caller t goes to sleep.
LEMMA ResumedOthers ==
  ASSUME TypeOK, NEW t \in Thread, NEW T, \A u \in Thread \cap T : status[u] # "WaitHleEvent",
         \A u \in Thread : u # t =>
           /\ status'[u] = IF u \in T /\ status[u] \in Waits THEN "Ready" ELSE status[u]
           /\ wakeup_callback'[u] = IF u \in T /\ status[u] \in Waits THEN "none"
                                    ELSE wakeup_callback[u]
           /\ request'[u] = request[u],
         UNCHANGED <<event_queue, ts_queue, worker>>
  PROVE  \A u \in Thread : u # t => IF u \in T /\ status[u] \in Waits THEN Woken(u) ELSE Same(u)
<1>1. ASSUME NEW u \in Thread, u # t
      PROVE  IF u \in T /\ status[u] \in Waits THEN Woken(u) ELSE Same(u)
  <2>1. CASE u \in T /\ status[u] \in Waits
    <3>1. status[u] \in {"WaitArb", "WaitSynchAny", "WaitIPC"}
      BY <2>1 DEF Waits
    <3>2. QED BY <1>1, <2>1, <3>1 DEF Woken
  <2>2. CASE ~(u \in T /\ status[u] \in Waits)
    BY <1>1, <2>2 DEF Same
  <2>3. QED BY <2>1, <2>2
<1>2. QED BY <1>1

\* The new request: handled at once, or the last of the queue.
LEMMA RequestQueues ==
  ASSUME TypeOK, QueuesOK, NEW t \in Thread, NEW s \in Session, status[t] = "Running",
         NEW taken \in BOOLEAN, taken => currently_handling[s] = None,
         pending_requesting_threads' = [pending_requesting_threads EXCEPT
           ![s] = IF taken THEN Front(Append(pending_requesting_threads[s], t))
                  ELSE Append(pending_requesting_threads[s], t)],
         currently_handling' = IF taken THEN [currently_handling EXCEPT ![s] = t]
                               ELSE currently_handling
  PROVE  /\ pending_requesting_threads' \in [Session -> Seq(Thread)]
         /\ currently_handling' \in [Session -> Thread \cup {None}]
         /\ \A q \in Session :
              /\ IsInjective(pending_requesting_threads'[q])
              /\ currently_handling'[q] \notin Range(pending_requesting_threads'[q])
              /\ Members(q)' = IF q = s THEN Members(q) \cup {t} ELSE Members(q)
<1>1. /\ pending_requesting_threads \in [Session -> Seq(Thread)]
      /\ currently_handling \in [Session -> Thread \cup {None}]
  BY DEF TypeOK
<1>2. PICK p \in Seq(Thread) : p = pending_requesting_threads[s]
  BY <1>1
<1>3. t \notin Members(s) /\ t \notin Range(p) /\ IsInjective(p) /\ currently_handling[s] \notin Range(p)
  BY <1>2 DEF QueuesOK, QueueOK, Members
<1>4. ToSet(p) = Range(p)
  BY DEF ToSet, Range
<1>5. /\ Append(p, t) \in Seq(Thread) /\ IsInjective(Append(p, t))
      /\ Range(Append(p, t)) = Range(p) \cup {t}
  <2>1. /\ Append(p, t) \in Seq(Thread) /\ IsInjective(Append(p, t))
        /\ \A x : x \in ToSet(Append(p, t)) <=> x \in ToSet(p) \/ x = t
    BY <1>3, <1>4, AppendNew
  <2>2. ToSet(Append(p, t)) = Range(Append(p, t))
    BY DEF ToSet, Range
  <2>3. QED BY <1>4, <2>1, <2>2
<1>6. Front(Append(p, t)) = p
  <2>1. Front(Append(p, t)) = SubSeq(Append(p, t), 1, Len(p))
    <3>1. Len(Append(p, t)) - 1 = Len(p)
      OBVIOUS
    <3>2. QED BY <3>1 DEF Front
  <2>2. /\ Front(Append(p, t)) \in Seq(Thread)
        /\ Len(Front(Append(p, t))) = Len(p)
        /\ \A i \in 1 .. Len(p) : Front(Append(p, t))[i] = p[i]
    <3>1. 1 \in Int /\ Len(p) \in Int /\ \A i \in 1 .. Len(p) : Append(p, t)[i] \in Thread
      OBVIOUS
    <3>2. /\ SubSeq(Append(p, t), 1, Len(p)) \in Seq(Thread)
          /\ Len(SubSeq(Append(p, t), 1, Len(p))) = IF 1 <= Len(p) THEN Len(p) - 1 + 1 ELSE 0
          /\ \A i \in 1 .. Len(p) - 1 + 1 : SubSeq(Append(p, t), 1, Len(p))[i] = Append(p, t)[1 + i - 1]
      BY <3>1, SubSeqProperties
    <3>3. \A i \in 1 .. Len(p) : Append(p, t)[i] = p[i]
      OBVIOUS
    <3>4. QED BY <2>1, <3>2, <3>3
  <2>3. QED BY <2>2, SeqEqual
<1>7. CASE taken
  <2>1. /\ pending_requesting_threads' = [pending_requesting_threads EXCEPT ![s] = p]
        /\ currently_handling' = [currently_handling EXCEPT ![s] = t]
        /\ currently_handling[s] = None
    BY <1>2, <1>6, <1>7
  <2>2. \A q \in Session : /\ pending_requesting_threads'[q] = pending_requesting_threads[q]
                           /\ currently_handling'[q] = IF q = s THEN t ELSE currently_handling[q]
    BY <1>1, <1>2, <2>1
  <2>3. \A q \in Session : Members(q)' = IF q = s THEN Members(q) \cup {t} ELSE Members(q)
    BY <2>1, <2>2, NoneAssumption DEF Members
  <2>4. \A q \in Session :
              /\ IsInjective(pending_requesting_threads'[q])
              /\ currently_handling'[q] \notin Range(pending_requesting_threads'[q])
    BY <1>2, <1>3, <2>2 DEF QueuesOK, QueueOK
  <2>5. QED BY <1>1, <2>1, <2>3, <2>4
<1>8. CASE ~taken
  <2>1. /\ pending_requesting_threads' = [pending_requesting_threads EXCEPT ![s] = Append(p, t)]
        /\ currently_handling' = currently_handling
    BY <1>2, <1>8
  <2>2. \A q \in Session : pending_requesting_threads'[q] = IF q = s THEN Append(p, t)
                                                            ELSE pending_requesting_threads[q]
    BY <1>1, <2>1
  <2>3. \A q \in Session : Members(q)' = IF q = s THEN Members(q) \cup {t} ELSE Members(q)
    BY <1>2, <1>5, <2>1, <2>2, NoneAssumption DEF Members
  <2>4. \A q \in Session :
              /\ IsInjective(pending_requesting_threads'[q])
              /\ currently_handling'[q] \notin Range(pending_requesting_threads'[q])
    <3>1. currently_handling[s] # t
      BY <1>3, NoneAssumption DEF Members
    <3>2. SUFFICES ASSUME NEW q \in Session
                   PROVE  /\ IsInjective(pending_requesting_threads'[q])
                          /\ currently_handling'[q] \notin Range(pending_requesting_threads'[q])
      OBVIOUS
    <3>3. CASE q = s
      <4>1. pending_requesting_threads'[q] = Append(p, t) /\ currently_handling'[q] = currently_handling[s]
        BY <2>1, <2>2, <3>3
      <4>2. QED BY <1>3, <1>5, <3>1, <4>1
    <3>4. CASE q # s
      <4>1. /\ pending_requesting_threads'[q] = pending_requesting_threads[q]
            /\ currently_handling'[q] = currently_handling[q]
        BY <2>1, <2>2, <3>4
      <4>2. QED BY <4>1 DEF QueuesOK, QueueOK
    <3>5. QED BY <3>3, <3>4
  <2>5. /\ pending_requesting_threads' \in [Session -> Seq(Thread)]
        /\ currently_handling' \in [Session -> Thread \cup {None}]
    BY <1>1, <1>5, <2>1
  <2>6. QED BY ONLY <2>3, <2>4, <2>5
<1>9. QED BY <1>7, <1>8


LEMMA RequestGuestInv ==
  ASSUME Inv, NEW t \in Thread, NEW s \in Session, RequestGuest(t, s), UNCHANGED waiting_threads
  PROVE  Inv'
<1>0. /\ TypeOK /\ EndpointsOK /\ CountsOK /\ ThreadsOK /\ AsyncOK /\ QueuesOK /\ ListsOK
      /\ ArbiterOK
  BY DEF Inv
<1>1. /\ status \in [Thread -> Status] /\ request \in [Thread -> Session \cup {None}]
      /\ wakeup_callback \in [Thread -> {"none", "ipc", "arbiter", "async"}]
  BY <1>0 DEF TypeOK
<1>2. /\ status[t] = "Running" /\ client[s] = "open" /\ server[s] = "open" /\ ~Hle(s)
      /\ request' = [request EXCEPT ![t] = s]
      /\ UNCHANGED <<endpoint_vars, async_vars, event_queue, ts_queue>>
      /\ UNCHANGED <<event_queue, ts_queue, worker>>
  BY DEF RequestGuest, async_vars
<1>3. PICK taken \in BOOLEAN : taken = (waiters[s] # << >> /\ currently_handling[s] = None)
  OBVIOUS
<1>4. PICK T : T = IF taken THEN {BestWaiter(s)} ELSE {}
  OBVIOUS
<1>5. PICK asleep : asleep = [status EXCEPT ![t] = "WaitIPC"]
  OBVIOUS
<1>6. /\ pending_requesting_threads' = [pending_requesting_threads EXCEPT
           ![s] = IF taken THEN Front(Append(pending_requesting_threads[s], t))
                  ELSE Append(pending_requesting_threads[s], t)]
      /\ currently_handling' = IF taken THEN [currently_handling EXCEPT ![s] = t]
                               ELSE currently_handling
      /\ StopWaiting(T)
      /\ status' = Resumed(asleep, T)
      /\ wakeup_callback' = Released(asleep, wakeup_callback, T)
  BY <1>3, <1>4, <1>5 DEF RequestGuest
<1>7. \A u \in T : u \in Thread /\ status[u] = "WaitSynchAny" /\ u # t
  <2>1. s \in Object
    BY DEF Object
  <2>2. taken => BestWaiter(s) \in Range(waiters[s])
    BY <1>0, <1>3, <2>1, BestWaiterWaits
  <2>3. QED BY <1>0, <1>2, <1>4, <2>1, <2>2, ListedWait
<1>8. /\ status' = [u \in Thread |-> IF u = t THEN "WaitIPC" ELSE
                       IF u \in T /\ status[u] \in Waits THEN "Ready" ELSE status[u]]
      /\ wakeup_callback' = [u \in Thread |-> IF u # t /\ u \in T /\ status[u] \in Waits THEN "none"
                                              ELSE wakeup_callback[u]]
  <2>1. asleep \in [Thread -> Status] /\ \A u \in Thread : asleep[u] = IF u = t THEN "WaitIPC" ELSE status[u]
    BY <1>1, <1>5 DEF Status, Waits
  <2>2. t \notin T
    BY <1>7
  <2>3. QED BY <1>6, <2>1, <2>2 DEF Resumed, Released
<1>9. /\ status' \in [Thread -> Status]
      /\ wakeup_callback' \in [Thread -> {"none", "ipc", "arbiter", "async"}]
  BY <1>1, <1>8 DEF Status, Waits
<1>10. ASSUME NEW u \in Thread, u # t
       PROVE  Same(u) \/ (Woken(u) /\ status[u] = "WaitSynchAny" /\ status'[u] = "Ready" /\ u \in T)
  <2>1. \A v \in Thread : v # t =>
           /\ status'[v] = IF v \in T /\ status[v] \in Waits THEN "Ready" ELSE status[v]
           /\ wakeup_callback'[v] = IF v \in T /\ status[v] \in Waits THEN "none"
                                    ELSE wakeup_callback[v]
           /\ request'[v] = request[v]
    BY <1>1, <1>2, <1>8
  <2>2. \A v \in Thread \cap T : status[v] # "WaitHleEvent"
    BY <1>7
  <2>3. \A v \in Thread : v # t => IF v \in T /\ status[v] \in Waits THEN Woken(v) ELSE Same(v)
    BY <1>0, <1>2, <2>1, <2>2, ResumedOthers
  <2>4. QED BY <1>7, <1>10, <2>3 DEF Woken
<1>11. /\ status'[t] = "WaitIPC" /\ request'[t] = s /\ t \notin worker' /\ ts_queue'[t] = 0
       /\ event_queue'[t] = 0 /\ wakeup_callback'[t] = "none"
  <2>1. event_queue[t] = 0 /\ ts_queue[t] = 0 /\ t \notin worker /\ wakeup_callback[t] = "none"
    BY <1>0, <1>2, RunningThread
  <2>2. QED BY <1>1, <1>2, <1>8, <2>1
<1>12. EndpointsOK' /\ CountsOK' /\ SessionsKept
  BY <1>0, <1>2, QuietEndpoints
<1>13. ThreadsOK'
  <2>1. UNCHANGED <<server, client, port>>
    BY <1>2 DEF endpoint_vars
  <2>2. ThreadOK(t)'
    BY <1>2, <1>11, <2>1 DEF ThreadOK, WakeupsOK, CallbacksOK, RequestOK
  <2>3. \A u \in Thread : status[u] = "WaitHleEvent" => server'[request[u]] = "open"
    BY <1>0, <2>1, ServedSame
  <2>4. \A u \in Thread : u # t => Same(u) \/ Woken(u)
    BY <1>10
  <2>5. QED BY <1>0, <1>12, <2>2, <2>3, <2>4, OtherThreads
<1>14. /\ waiters' \in [Object -> Seq(Thread)] /\ wait_objects' \in [Thread -> SUBSET Object]
       /\ ListsOK'
  <2>1. \A u \in Thread : u \notin T /\ status[u] = "WaitSynchAny" => status'[u] = "WaitSynchAny"
    BY <1>2, <1>10 DEF Same
  <2>2. QED BY <1>0, <1>6, <2>1, StopWaitingLists
<1>15. /\ pending_requesting_threads' \in [Session -> Seq(Thread)]
       /\ currently_handling' \in [Session -> Thread \cup {None}]
       /\ \A q \in Session :
            /\ IsInjective(pending_requesting_threads'[q])
            /\ currently_handling'[q] \notin Range(pending_requesting_threads'[q])
            /\ Members(q)' = IF q = s THEN Members(q) \cup {t} ELSE Members(q)
  <2>1. taken => currently_handling[s] = None
    BY <1>3
  <2>2. QED BY <1>0, <1>2, <1>6, <2>1, RequestQueues
<1>16. QueuesOK'
  <2>1. ASSUME NEW q \in Session, NEW u \in Members(q)'
        PROVE  request'[u] = q /\ status'[u] \in {"WaitIPC", "Dead"} /\ ~Hle(q)' /\ client'[q] # "none"
    <3>1. UNCHANGED <<client, port>>
      BY <1>2 DEF endpoint_vars
    <3>2. CASE u = t
      <4>1. t \notin Members(q)
        BY <1>0, <1>2 DEF QueuesOK, QueueOK
      <4>2. q = s
        BY <1>15, <2>1, <3>2, <4>1
      <4>3. QED BY <1>2, <1>11, <3>1, <3>2, <4>2 DEF Hle
    <3>3. CASE u # t
      <4>1. u \in Members(q)
        BY <1>15, <2>1, <3>3
      <4>2. u \in Thread /\ request[u] = q /\ status[u] \in {"WaitIPC", "Dead"} /\ ~Hle(q) /\ client[q] # "none"
        BY <1>0, <4>1, MembersAreThreads DEF QueuesOK, QueueOK
      <4>3. Same(u)
        BY <1>10, <3>3, <4>2
      <4>4. QED BY <3>1, <4>2, <4>3 DEF Same, Hle
    <3>4. QED BY <3>2, <3>3
  <2>2. ASSUME NEW q \in Session PROVE QueueOK(q)'
    BY <1>15, <2>1 DEF QueueOK
  <2>3. ASSUME NEW u \in Thread PROVE Tracked(u)'
    <3>1. CASE u = t
      <4>1. t \in Members(s)'
        BY <1>15
      <4>2. Members(request[t])' = Members(s)'
        BY <1>11
      <4>3. QED BY <3>1, <4>1, <4>2 DEF Tracked
    <3>2. CASE u # t
      <4>1. SUFFICES ASSUME Same(u), status[u] = "WaitIPC" PROVE Tracked(u)'
        BY <1>10, <3>2 DEF Tracked, Same
      <4>2. PICK q \in Session : q = request[u]
        BY <1>0, <4>1 DEF ThreadsOK, ThreadOK, RequestOK
      <4>3. Members(request[u])' = Members(q)' /\ request'[u] = q /\ event_queue'[u] = event_queue[u]
        BY <4>1, <4>2 DEF Same
      <4>4. \/ u \in Members(q) \/ event_queue[u] > 0
            \/ client[q] = "closed" \/ server[q] = "closed"
        BY <1>0, <4>1, <4>2 DEF QueuesOK, Tracked
      <4>5. \/ u \in Members(q)' \/ event_queue'[u] > 0
            \/ client'[q] = "closed" \/ server'[q] = "closed"
        BY <1>12, <1>15, <4>3, <4>4 DEF SessionsKept
      <4>6. QED BY <4>3, <4>5 DEF Tracked
    <3>3. QED BY <3>1, <3>2
  <2>4. QED BY <2>2, <2>3 DEF QueuesOK
<1>17. TypeOK'
  <2>1. request' \in [Thread -> Session \cup {None}]
    BY <1>1, <1>2
  <2>2. QED BY <1>0, <1>2, <1>9, <1>14, <1>15, <2>1 DEF TypeOK, endpoint_vars, async_vars
<1>18. ASSUME NEW u \in Thread
       PROVE  /\ status'[u] = "WaitHleEvent" <=> status[u] = "WaitHleEvent"
              /\ status'[u] = "WaitArb" <=> status[u] = "WaitArb"
              /\ status[u] = "Dead" => status'[u] = "Dead"
  BY <1>2, <1>10, <1>11 DEF Same
<1>19. AsyncOK'
  BY <1>0, <1>2, <1>18, QuietAsync DEF async_vars
<1>20. ArbiterOK'
  BY <1>0, <1>18, QuietArbiter
<1>21. QED BY <1>12, <1>13, <1>14, <1>16, <1>17, <1>19, <1>20 DEF Inv

--------------------------------------------------------------------------------
(* Replies. *)

\* A reply takes the request it answers, receiving moves one within its session.
LEMMA ReplyQueues ==
  ASSUME TypeOK, QueuesOK, NEW r \in Session \cup {None},
         \/ currently_handling' = Handling(r) /\ UNCHANGED pending_requesting_threads
         \/ \E s \in Session :
              /\ pending_requesting_threads[s] # << >> /\ Handling(r)[s] = None
              /\ currently_handling' =
                   [Handling(r) EXCEPT ![s] = Last(pending_requesting_threads[s])]
              /\ pending_requesting_threads' =
                   [pending_requesting_threads EXCEPT ![s] = Remaining(s)]
  PROVE  /\ pending_requesting_threads' \in [Session -> Seq(Thread)]
         /\ currently_handling' \in [Session -> Thread \cup {None}]
         /\ \A q \in Session :
              /\ IsInjective(pending_requesting_threads'[q])
              /\ currently_handling'[q] \notin Range(pending_requesting_threads'[q])
              /\ Members(q)' = IF q = r THEN Members(q) \ {currently_handling[q]} ELSE Members(q)
<1>1. /\ pending_requesting_threads \in [Session -> Seq(Thread)]
      /\ currently_handling \in [Session -> Thread \cup {None}]
  BY DEF TypeOK
<1>2. /\ Handling(r) \in [Session -> Thread \cup {None}]
      /\ \A q \in Session : Handling(r)[q] = IF q = r THEN None ELSE currently_handling[q]
  <2>1. CASE r = None
    BY <1>1, <2>1, NoneAssumption DEF Handling
  <2>2. CASE r # None
    BY <1>1, <2>2 DEF Handling
  <2>3. QED BY <2>1, <2>2
<1>3. PICK h \in [Session -> Thread \cup {None}] : h = Handling(r)
  BY <1>2
<1>4. ASSUME NEW q \in Session
      PROVE  /\ pending_requesting_threads[q] \in Seq(Thread)
             /\ IsInjective(pending_requesting_threads[q])
             /\ currently_handling[q] \notin Range(pending_requesting_threads[q])
             /\ None \notin Range(pending_requesting_threads[q])
             /\ h[q] = IF q = r THEN None ELSE currently_handling[q]
  <2>1. pending_requesting_threads[q] \in Seq(Thread)
    BY <1>1
  <2>2. Range(pending_requesting_threads[q]) \subseteq Thread
    BY <2>1, InRange
  <2>3. QED BY <1>2, <1>3, <2>1, <2>2, NoneAssumption DEF QueuesOK, QueueOK
<1>5. CASE currently_handling' = h /\ UNCHANGED pending_requesting_threads
  <2>1. \A q \in Session :
              /\ IsInjective(pending_requesting_threads'[q])
              /\ currently_handling'[q] \notin Range(pending_requesting_threads'[q])
    BY <1>4, <1>5
  <2>2. ASSUME NEW q \in Session
        PROVE  Members(q)' = IF q = r THEN Members(q) \ {currently_handling[q]} ELSE Members(q)
    <3>1. Members(q)' = Range(pending_requesting_threads[q]) \cup ({h[q]} \ {None})
      BY <1>5 DEF Members
    <3>2. QED BY <1>4, <3>1 DEF Members
  <2>3. QED BY <1>1, <1>5, <2>1, <2>2
<1>6. CASE \E s \in Session :
              /\ pending_requesting_threads[s] # << >> /\ h[s] = None
              /\ currently_handling' = [h EXCEPT ![s] = Last(pending_requesting_threads[s])]
              /\ pending_requesting_threads' =
                   [pending_requesting_threads EXCEPT ![s] = Remaining(s)]
  <2>1. PICK s \in Session :
              /\ pending_requesting_threads[s] # << >> /\ h[s] = None
              /\ currently_handling' = [h EXCEPT ![s] = Last(pending_requesting_threads[s])]
              /\ pending_requesting_threads' =
                   [pending_requesting_threads EXCEPT ![s] = Remaining(s)]
    BY <1>6
  <2>2. PICK p \in Seq(Thread) : p = pending_requesting_threads[s]
    BY <1>1
  <2>3. /\ Front(p) \in Seq(Thread) /\ Last(p) \in Thread
        /\ Range(p) = Range(Front(p)) \cup {Last(p)}
        /\ IsInjective(Front(p)) /\ Last(p) \notin Range(Front(p))
    <3>1. p # << >> /\ IsInjective(p)
      BY <1>4, <2>1, <2>2
    <3>2. QED BY <3>1, FrontLast
  <2>4. /\ pending_requesting_threads' = [pending_requesting_threads EXCEPT ![s] = Front(p)]
        /\ currently_handling' = [h EXCEPT ![s] = Last(p)]
    BY <2>1, <2>2 DEF Remaining
  <2>5. \A q \in Session :
          /\ pending_requesting_threads'[q] = IF q = s THEN Front(p) ELSE pending_requesting_threads[q]
          /\ currently_handling'[q] = IF q = s THEN Last(p) ELSE h[q]
    BY <1>1, <2>4
  <2>6. \A q \in Session :
              /\ IsInjective(pending_requesting_threads'[q])
              /\ currently_handling'[q] \notin Range(pending_requesting_threads'[q])
    BY <1>4, <2>3, <2>5
  <2>7. ASSUME NEW q \in Session
        PROVE  Members(q)' = IF q = r THEN Members(q) \ {currently_handling[q]} ELSE Members(q)
    <3>1. CASE q = s
      <4>1. Members(q)' = Range(Front(p)) \cup ({Last(p)} \ {None})
        BY <2>5, <3>1 DEF Members
      <4>2. Members(q)' = Range(p)
        BY <2>3, <4>1, NoneAssumption
      <4>3. QED BY <1>4, <2>1, <2>2, <3>1, <4>2 DEF Members
    <3>2. CASE q # s
      <4>1. Members(q)' = Range(pending_requesting_threads[q]) \cup ({h[q]} \ {None})
        BY <2>5, <3>2 DEF Members
      <4>2. QED BY <1>4, <4>1 DEF Members
    <3>3. QED BY <3>1, <3>2
  <2>8. QED BY <1>1, <2>3, <2>4, <2>6, <2>7
<1>7. QED BY <1>3, <1>5, <1>6


LEMMA ReplyErrorInv ==
  ASSUME Inv, NEW t \in Thread, NEW r \in Session, ReplyError(t, r), UNCHANGED waiting_threads
  PROVE  Inv'
<1>0. /\ TypeOK /\ EndpointsOK /\ CountsOK /\ ThreadsOK /\ AsyncOK /\ QueuesOK /\ ListsOK
      /\ ArbiterOK
  BY DEF Inv
<1>1. /\ ReplyFails(r) /\ currently_handling' = Handling(r)
      /\ UNCHANGED <<thread_vars, endpoint_vars, pending_requesting_threads, wait_vars,
                     request, async_vars>>
  BY DEF ReplyError
<1>2. /\ pending_requesting_threads' \in [Session -> Seq(Thread)]
      /\ currently_handling' \in [Session -> Thread \cup {None}]
      /\ \A q \in Session :
           /\ IsInjective(pending_requesting_threads'[q])
           /\ currently_handling'[q] \notin Range(pending_requesting_threads'[q])
           /\ Members(q)' = IF q = r THEN Members(q) \ {currently_handling[q]} ELSE Members(q)
  BY <1>0, <1>1, ReplyQueues
<1>3. EndpointsOK' /\ CountsOK' /\ SessionsKept
  BY <1>0, <1>1, QuietEndpoints
<1>4. UNCHANGED <<client, server, port>>
  BY <1>1 DEF endpoint_vars
<1>5. \A u \in Thread : Same(u) /\ status'[u] = status[u] /\ Stays(u) /\ Passes(u)
  BY <1>1 DEF Same, Stays, Passes, thread_vars, async_vars
<1>6. ASSUME NEW q \in Session PROVE Shrinks(q)
  <2>1. Members(q)' \subseteq Members(q)
    BY <1>2
  <2>2. \A u \in Members(q)' : Stays(u)
    BY <1>0, <1>5, <2>1, MembersAreThreads
  <2>3. QED BY <1>2, <2>1, <2>2 DEF Shrinks
<1>7. ASSUME NEW u \in Thread PROVE Remembered(u)
  <2>1. SUFFICES ASSUME status[u] = "WaitIPC", u \in Members(request[u])
                 PROVE  \/ u \in Members(request[u])'
                        \/ client'[request[u]] = "closed" \/ server'[request[u]] = "closed"
    BY DEF Remembered
  <2>2. PICK q \in Session : q = request[u]
    BY <1>0, <2>1 DEF ThreadsOK, ThreadOK, RequestOK
  <2>3. Members(request[u])' = Members(q)' /\ Members(request[u]) = Members(q)
    BY <1>5, <2>2 DEF Same
  <2>4. CASE q = r /\ u = currently_handling[q]
    <3>1. client[r] # "open"
      BY <1>1, <2>4, NoneAssumption DEF ReplyFails
    <3>2. client[r] \in {"none", "open", "closed"} /\ client[r] # "none"
      BY <1>0, <2>1, <2>3, <2>4 DEF TypeOK, QueuesOK, QueueOK
    <3>3. QED BY <1>4, <2>2, <2>4, <3>1, <3>2
  <2>5. CASE ~(q = r /\ u = currently_handling[q])
    BY <1>2, <2>1, <2>3, <2>5
  <2>6. QED BY <2>4, <2>5
<1>8. QueuesOK'
  BY <1>0, <1>3, <1>5, <1>6, <1>7, ShrunkQueues
<1>9. TypeOK'
  BY <1>0, <1>1, <1>2 DEF TypeOK, thread_vars, endpoint_vars, wait_vars, async_vars
<1>10. ThreadsOK'
  <2>1. \A u \in Thread : status[u] = "WaitHleEvent" => server'[request[u]] = "open"
    BY <1>0, <1>4, ServedSame
  <2>2. PICK n : n \notin Thread
    BY NoneAssumption
  <2>3. QED BY <1>0, <1>3, <1>5, <2>1, <2>2, OtherThreads
<1>11. AsyncOK'
  BY <1>0, <1>1, <1>5, QuietAsync DEF async_vars
<1>12. ListsOK' /\ ArbiterOK'
  BY <1>0, <1>1, <1>5, QuietLists, QuietArbiter
<1>13. QED BY <1>3, <1>8, <1>9, <1>10, <1>11, <1>12 DEF Inv

\* What a reply answers is awake; the rest of the requests stay.
LEMMA AnsweredQueues ==
  ASSUME TypeOK, QueuesOK, ThreadsOK, SessionsKept, NEW t \in Thread, NEW r \in Session \cup {None},
         status[t] = "Running", status'[t] # "WaitIPC",
         \A u \in Thread : u # t =>
           IF u \in Replied(r) /\ status[u] \in Waits THEN Woken(u) ELSE Same(u),
         \A q \in Session :
           /\ IsInjective(pending_requesting_threads'[q])
           /\ currently_handling'[q] \notin Range(pending_requesting_threads'[q])
           /\ Members(q)' = IF q = r THEN Members(q) \ {currently_handling[q]} ELSE Members(q)
  PROVE  QueuesOK'
<1>1. ASSUME NEW q \in Session, NEW u \in Members(q)
      PROVE  u \in Thread /\ u # t /\ request[u] = q /\ status[u] \in {"WaitIPC", "Dead"} /\ u # None
  BY MembersAreThreads, NoneAssumption DEF QueuesOK, QueueOK
<1>2. ASSUME NEW q \in Session PROVE Shrinks(q)
  <2>1. ASSUME NEW u \in Members(q)' PROVE Stays(u)
    <3>1. u \in Members(q) /\ ~(q = r /\ u = currently_handling[q])
      OBVIOUS
    <3>2. u \in Thread /\ u # t /\ request[u] = q /\ status[u] \in {"WaitIPC", "Dead"} /\ u # None
      BY <1>1, <3>1
    <3>3. u \notin Replied(r)
      <4>1. SUFFICES ASSUME u \in Replied(r) PROVE FALSE
        OBVIOUS
      <4>2. r \in Session /\ u = currently_handling[r]
        BY <4>1 DEF Replied
      <4>3. u \in Members(r)
        BY <3>2, <4>2 DEF Members
      <4>4. request[u] = r
        BY <1>1, <4>2, <4>3
      <4>5. QED BY <3>1, <3>2, <4>2, <4>4
    <3>4. Same(u)
      BY <3>2, <3>3
    <3>5. QED BY <3>4 DEF Same, Stays
  <2>2. Members(q)' \subseteq Members(q)
    OBVIOUS
  <2>3. QED BY <2>1, <2>2 DEF Shrinks
<1>3. ASSUME NEW u \in Thread PROVE Passes(u)
  BY DEF Passes, Woken
<1>4. ASSUME NEW u \in Thread PROVE Remembered(u)
  <2>1. SUFFICES ASSUME status[u] = "WaitIPC", Same(u), u \in Members(request[u])
                 PROVE  u \in Members(request[u])'
    BY DEF Remembered
  <2>2. PICK q \in Session : q = request[u]
    BY <2>1 DEF ThreadsOK, ThreadOK, RequestOK
  <2>3. Members(request[u])' = Members(q)' /\ Members(request[u]) = Members(q)
    BY <2>1, <2>2 DEF Same
  <2>4. ~(q = r /\ u = currently_handling[q])
    <3>1. SUFFICES ASSUME q = r, u = currently_handling[q] PROVE FALSE
      OBVIOUS
    <3>2. u \in Replied(r)
      BY <3>1, NoneAssumption DEF Replied
    <3>3. Woken(u)
      BY <2>1, <3>2 DEF Waits
    <3>4. QED BY <2>1, <3>3 DEF Woken, Same
  <2>5. QED BY <2>1, <2>3, <2>4
<1>5. QED BY <1>2, <1>3, <1>4, ShrunkQueues

\* ReplyAndReceive, with what becomes of its caller and of the lists left open.
LEMMA ReplyRest ==
  ASSUME Inv, NEW t \in Thread, NEW r \in Session \cup {None}, status[t] = "Running",
         r # None => ~ReplyFails(r),
         \/ currently_handling' = Handling(r) /\ UNCHANGED pending_requesting_threads
         \/ \E s \in Session :
              /\ pending_requesting_threads[s] # << >> /\ Handling(r)[s] = None
              /\ currently_handling' =
                   [Handling(r) EXCEPT ![s] = Last(pending_requesting_threads[s])]
              /\ pending_requesting_threads' =
                   [pending_requesting_threads EXCEPT ![s] = Remaining(s)],
         \A u \in Thread : u # t =>
           /\ status'[u] = IF u \in Replied(r) /\ status[u] \in Waits THEN "Ready" ELSE status[u]
           /\ wakeup_callback'[u] = IF u \in Replied(r) /\ status[u] \in Waits THEN "none"
                                    ELSE wakeup_callback[u],
         \/ status'[t] = "Running" /\ wakeup_callback'[t] = wakeup_callback[t]
         \/ status'[t] = "WaitSynchAny" /\ wakeup_callback'[t] = "ipc",
         UNCHANGED <<event_queue, ts_queue, endpoint_vars, request, async_vars>>,
         UNCHANGED waiting_threads
  PROVE  /\ EndpointsOK' /\ CountsOK' /\ ThreadsOK' /\ AsyncOK' /\ QueuesOK' /\ ArbiterOK'
         /\ pending_requesting_threads' \in [Session -> Seq(Thread)]
         /\ currently_handling' \in [Session -> Thread \cup {None}]
         /\ \A u \in Thread : u # t /\ status[u] = "WaitSynchAny" => status'[u] = "WaitSynchAny"
<1>0. /\ TypeOK /\ EndpointsOK /\ CountsOK /\ ThreadsOK /\ AsyncOK /\ QueuesOK /\ ListsOK
      /\ ArbiterOK
  BY DEF Inv
<1>1. \A u \in Replied(r) : u \in Thread => status[u] \in {"WaitIPC", "Dead"}
  <2>1. SUFFICES ASSUME NEW u \in Replied(r), u \in Thread PROVE status[u] \in {"WaitIPC", "Dead"}
    OBVIOUS
  <2>2. r \in Session /\ u = currently_handling[r] /\ u # None
    BY <2>1, NoneAssumption DEF Replied
  <2>3. u \in Members(r)
    BY <2>2 DEF Members
  <2>4. QED BY <1>0, <2>2, <2>3 DEF QueuesOK, QueueOK
<1>2. /\ pending_requesting_threads' \in [Session -> Seq(Thread)]
      /\ currently_handling' \in [Session -> Thread \cup {None}]
      /\ \A q \in Session :
           /\ IsInjective(pending_requesting_threads'[q])
           /\ currently_handling'[q] \notin Range(pending_requesting_threads'[q])
           /\ Members(q)' = IF q = r THEN Members(q) \ {currently_handling[q]} ELSE Members(q)
  BY <1>0, ReplyQueues
<1>3. EndpointsOK' /\ CountsOK' /\ SessionsKept
  BY <1>0, QuietEndpoints
<1>4. \A u \in Thread : u # t =>
        IF u \in Replied(r) /\ status[u] \in Waits THEN Woken(u) ELSE Same(u)
  <2>1. PICK T : T = Replied(r)
    OBVIOUS
  <2>2. \A u \in Thread \cap T : status[u] # "WaitHleEvent"
    BY <1>1, <2>1
  <2>3. \A u \in Thread : u # t =>
           /\ status'[u] = IF u \in T /\ status[u] \in Waits THEN "Ready" ELSE status[u]
           /\ wakeup_callback'[u] = IF u \in T /\ status[u] \in Waits THEN "none"
                                    ELSE wakeup_callback[u]
           /\ request'[u] = request[u]
    BY <2>1
  <2>4. UNCHANGED <<event_queue, ts_queue, worker>>
    BY DEF async_vars
  <2>5. \A u \in Thread : u # t => IF u \in T /\ status[u] \in Waits THEN Woken(u) ELSE Same(u)
    BY <1>0, <2>2, <2>3, <2>4, ResumedOthers
  <2>6. QED BY <2>1, <2>5
<1>5. QueuesOK'
  <2>1. status'[t] # "WaitIPC"
    OBVIOUS
  <2>2. QED BY <1>0, <1>2, <1>3, <1>4, <2>1, AnsweredQueues
<1>6. ThreadsOK'
  <2>1. UNCHANGED server
    BY DEF endpoint_vars
  <2>2. \A u \in Thread : status[u] = "WaitHleEvent" => server'[request[u]] = "open"
    BY <1>0, <2>1, ServedSame
  <2>3. event_queue'[t] = 0 /\ ts_queue'[t] = 0 /\ t \notin worker' /\ wakeup_callback[t] = "none"
    <3>1. event_queue[t] = 0 /\ ts_queue[t] = 0 /\ t \notin worker /\ wakeup_callback[t] = "none"
      BY <1>0, RunningThread
    <3>2. QED BY <3>1 DEF async_vars
  <2>4. ThreadOK(t)'
    BY <2>3 DEF ThreadOK, WakeupsOK, CallbacksOK, RequestOK
  <2>5. \A u \in Thread : u # t => Same(u) \/ Woken(u)
    BY <1>4
  <2>6. QED BY <1>0, <1>3, <2>2, <2>4, <2>5, OtherThreads
<1>7. ASSUME NEW u \in Thread
      PROVE  /\ status'[u] = "WaitHleEvent" <=> status[u] = "WaitHleEvent"
             /\ status'[u] = "WaitArb" <=> status[u] = "WaitArb"
             /\ status[u] = "Dead" => status'[u] = "Dead"
             /\ u # t /\ status[u] = "WaitSynchAny" => status'[u] = "WaitSynchAny"
  <2>1. CASE u = t
    BY <2>1
  <2>2. CASE u # t
    BY <1>1, <2>2 DEF Waits
  <2>3. QED BY <2>1, <2>2
<1>8. AsyncOK'
  BY <1>0, <1>7, QuietAsync DEF async_vars
<1>9. ArbiterOK'
  BY <1>0, <1>7, QuietArbiter
<1>10. QED BY <1>2, <1>3, <1>5, <1>6, <1>7, <1>8, <1>9


LEMMA ReplyAndReceiveInv ==
  ASSUME Inv, NEW t \in Server, NEW r \in Session \cup {None},
         NEW O \in SUBSET ((Port \ HlePort) \cup Session), ReplyAndReceive(t, r, O),
         UNCHANGED waiting_threads
  PROVE  Inv'
<1>0. TypeOK /\ QueuesOK /\ ListsOK
  BY DEF Inv
<1>1. /\ status \in [Thread -> Status] /\ waiters \in [Object -> Seq(Thread)]
      /\ wakeup_callback \in [Thread -> {"none", "ipc", "arbiter", "async"}]
      /\ wait_objects \in [Thread -> SUBSET Object]
  BY <1>0 DEF TypeOK
<1>2. t \in Thread /\ O \subseteq Object
  BY ServerAssumption DEF Object
<1>3. /\ status[t] = "Running" /\ (r # None => ~ReplyFails(r))
      /\ UNCHANGED <<event_queue, ts_queue, endpoint_vars, request, async_vars>>
  BY DEF ReplyAndReceive
<1>4. PICK h : h = Handling(r)
  OBVIOUS
<1>5. PICK ready : ready = {s \in O \cap Session : SessionReady(s, pending_requesting_threads[s], h[s])}
                           \cup {p \in O \cap Port : pending_sessions[p] # << >>}
  OBVIOUS
<1> DEFINE
      Receives == /\ ResumeFromWait(Replied(r)) /\ UNCHANGED wait_vars
                  /\ \/ \E s \in ready \cap Session :
                          /\ client[s] = "open"
                          /\ currently_handling' = [h EXCEPT ![s] = Last(pending_requesting_threads[s])]
                          /\ pending_requesting_threads' =
                               [pending_requesting_threads EXCEPT ![s] = Remaining(s)]
                     \/ currently_handling' = h /\ UNCHANGED pending_requesting_threads
      Sleeps == /\ status' = [Resumed(status, Replied(r)) EXCEPT ![t] = "WaitSynchAny"]
                /\ wakeup_callback' = [Released(status, wakeup_callback, Replied(r)) EXCEPT ![t] = "ipc"]
                /\ wait_objects' = [wait_objects EXCEPT ![t] = O]
                /\ waiters' = [o \in Object |-> IF o \in O THEN Append(waiters[o], t) ELSE waiters[o]]
                /\ currently_handling' = h /\ UNCHANGED pending_requesting_threads
<1>6. Receives \/ Sleeps
  BY <1>4, <1>5 DEF ReplyAndReceive
<1> HIDE DEF Receives, Sleeps
<1>7. t \notin Replied(r)
  <2>1. SUFFICES ASSUME t \in Replied(r) PROVE FALSE
    OBVIOUS
  <2>2. r \in Session /\ t = currently_handling[r]
    BY <2>1 DEF Replied
  <2>3. t \in Members(r)
    BY <1>2, <2>2, NoneAssumption DEF Members
  <2>4. QED BY <1>0, <1>3, <2>2, <2>3 DEF QueuesOK, QueueOK
<1>8. CASE Receives
  <2>1. /\ status' = [u \in Thread |-> IF u \in Replied(r) /\ status[u] \in Waits THEN "Ready"
                                       ELSE status[u]]
        /\ wakeup_callback' = [u \in Thread |-> IF u \in Replied(r) /\ status[u] \in Waits THEN "none"
                                                ELSE wakeup_callback[u]]
        /\ UNCHANGED wait_vars
    BY <1>8 DEF Receives, ResumeFromWait, Resumed, Released
  <2>2. \/ currently_handling' = Handling(r) /\ UNCHANGED pending_requesting_threads
        \/ \E s \in Session :
             /\ pending_requesting_threads[s] # << >> /\ Handling(r)[s] = None
             /\ currently_handling' =
                  [Handling(r) EXCEPT ![s] = Last(pending_requesting_threads[s])]
             /\ pending_requesting_threads' =
                  [pending_requesting_threads EXCEPT ![s] = Remaining(s)]
    <3>1. CASE currently_handling' = h /\ UNCHANGED pending_requesting_threads
      BY <1>4, <3>1
    <3>2. CASE \E s \in ready \cap Session :
                  /\ client[s] = "open"
                  /\ currently_handling' = [h EXCEPT ![s] = Last(pending_requesting_threads[s])]
                  /\ pending_requesting_threads' =
                       [pending_requesting_threads EXCEPT ![s] = Remaining(s)]
      <4>1. PICK s \in ready \cap Session :
                  /\ client[s] = "open"
                  /\ currently_handling' = [h EXCEPT ![s] = Last(pending_requesting_threads[s])]
                  /\ pending_requesting_threads' =
                       [pending_requesting_threads EXCEPT ![s] = Remaining(s)]
        BY <3>2
      <4>2. SessionReady(s, pending_requesting_threads[s], h[s])
        BY <1>5, <4>1, ServerAssumption
      <4>3. pending_requesting_threads[s] # << >> /\ h[s] = None
        BY <4>1, <4>2 DEF SessionReady
      <4>4. QED BY <1>4, <4>1, <4>3
    <3>3. QED BY <1>8, <3>1, <3>2 DEF Receives
  <2>3. /\ \A u \in Thread : u # t =>
             /\ status'[u] = IF u \in Replied(r) /\ status[u] \in Waits THEN "Ready" ELSE status[u]
             /\ wakeup_callback'[u] = IF u \in Replied(r) /\ status[u] \in Waits THEN "none"
                                      ELSE wakeup_callback[u]
        /\ status'[t] = "Running" /\ wakeup_callback'[t] = wakeup_callback[t]
    BY <1>2, <1>3, <1>7, <2>1
  <2>4. /\ EndpointsOK' /\ CountsOK' /\ ThreadsOK' /\ AsyncOK' /\ QueuesOK' /\ ArbiterOK'
        /\ pending_requesting_threads' \in [Session -> Seq(Thread)]
        /\ currently_handling' \in [Session -> Thread \cup {None}]
        /\ \A u \in Thread : u # t /\ status[u] = "WaitSynchAny" => status'[u] = "WaitSynchAny"
    BY <1>2, <1>3, <2>2, <2>3, ReplyRest
  <2>5. ListsOK'
    <3>1. \A u \in Thread : status[u] = "WaitSynchAny" => status'[u] = "WaitSynchAny"
      BY <1>3, <2>4
    <3>2. QED BY <1>0, <2>1, <3>1, QuietLists
  <2>6. TypeOK'
    <3>1. status' \in [Thread -> Status] /\ wakeup_callback' \in [Thread -> {"none", "ipc", "arbiter", "async"}]
      BY <1>1, <2>1 DEF Status
    <3>2. QED BY <1>0, <1>3, <2>1, <2>4, <3>1 DEF TypeOK, wait_vars, endpoint_vars, async_vars
  <2>7. QED BY <2>4, <2>5, <2>6 DEF Inv
<1>9. CASE Sleeps
  <2>1. /\ status' = [u \in Thread |-> IF u = t THEN "WaitSynchAny"
                                       ELSE IF u \in Replied(r) /\ status[u] \in Waits THEN "Ready"
                                       ELSE status[u]]
        /\ wakeup_callback' = [u \in Thread |-> IF u = t THEN "ipc"
                                       ELSE IF u \in Replied(r) /\ status[u] \in Waits THEN "none"
                                       ELSE wakeup_callback[u]]
    BY <1>2, <1>9 DEF Sleeps, Resumed, Released
  <2>2. /\ wait_objects' = [wait_objects EXCEPT ![t] = O]
        /\ waiters' = [o \in Object |-> IF o \in O THEN Append(waiters[o], t) ELSE waiters[o]]
        /\ currently_handling' = Handling(r) /\ UNCHANGED pending_requesting_threads
    BY <1>4, <1>9 DEF Sleeps
  <2>3. /\ \A u \in Thread : u # t =>
             /\ status'[u] = IF u \in Replied(r) /\ status[u] \in Waits THEN "Ready" ELSE status[u]
             /\ wakeup_callback'[u] = IF u \in Replied(r) /\ status[u] \in Waits THEN "none"
                                      ELSE wakeup_callback[u]
        /\ status'[t] = "WaitSynchAny" /\ wakeup_callback'[t] = "ipc"
    BY <1>2, <2>1
  <2>4. /\ EndpointsOK' /\ CountsOK' /\ ThreadsOK' /\ AsyncOK' /\ QueuesOK' /\ ArbiterOK'
        /\ pending_requesting_threads' \in [Session -> Seq(Thread)]
        /\ currently_handling' \in [Session -> Thread \cup {None}]
        /\ \A u \in Thread : u # t /\ status[u] = "WaitSynchAny" => status'[u] = "WaitSynchAny"
    BY <1>2, <1>3, <2>2, <2>3, ReplyRest
  <2>5. \A o \in Object : waiters'[o] \in Seq(Thread)
          /\ Range(waiters'[o]) = IF o \in O THEN Range(waiters[o]) \cup {t} ELSE Range(waiters[o])
    <3>1. SUFFICES ASSUME NEW o \in Object
                   PROVE  waiters'[o] \in Seq(Thread)
                          /\ Range(waiters'[o]) = IF o \in O THEN Range(waiters[o]) \cup {t}
                                                  ELSE Range(waiters[o])
      OBVIOUS
    <3>2. PICK w \in Seq(Thread) : w = waiters[o]
      BY <1>1
    <3>3. waiters'[o] = IF o \in O THEN Append(w, t) ELSE w
      BY <2>2, <3>2
    <3>4. Append(w, t) \in Seq(Thread) /\ Range(Append(w, t)) = Range(w) \cup {t}
      <4>1. Append(w, t) \in Seq(Thread)
        BY <1>2
      <4>2. \A x : x \in Range(Append(w, t)) <=> \E i \in 1 .. Len(Append(w, t)) : Append(w, t)[i] = x
        BY <4>1, InRange
      <4>3. \A x : x \in Range(w) <=> \E i \in 1 .. Len(w) : w[i] = x
        BY InRange
      <4>4. /\ Len(w) \in Nat /\ Len(Append(w, t)) = Len(w) + 1 /\ Append(w, t)[Len(w) + 1] = t
            /\ \A i \in 1 .. Len(w) : Append(w, t)[i] = w[i]
        BY <1>2
      <4>5. QED BY <4>1, <4>2, <4>3, <4>4
    <3>5. QED BY <3>2, <3>3, <3>4
  <2>6. ListsOK'
    <3>1. ASSUME NEW u \in Thread, NEW o \in Object
          PROVE  /\ u \in Range(waiters'[o]) <=> o \in wait_objects'[u]
                 /\ o \in wait_objects'[u] => status'[u] = "WaitSynchAny" /\ u \in Server
      <4>1. /\ u \in Range(waiters[o]) <=> o \in wait_objects[u]
            /\ o \in wait_objects[u] => status[u] = "WaitSynchAny" /\ u \in Server
        BY <1>0 DEF ListsOK
      <4>2. CASE u = t
        <5>1. wait_objects'[u] = O
          BY <1>1, <1>2, <2>2, <4>2
        <5>2. u \notin Range(waiters[o])
          BY <1>3, <4>1, <4>2
        <5>3. QED BY <2>3, <2>5, <4>2, <5>1, <5>2
      <4>3. CASE u # t
        <5>1. wait_objects'[u] = wait_objects[u]
          BY <1>1, <2>2, <4>3
        <5>2. QED BY <2>4, <2>5, <4>1, <4>3, <5>1
      <4>4. QED BY <4>2, <4>3
    <3>2. QED BY <3>1 DEF ListsOK
  <2>7. TypeOK'
    <3>1. status' \in [Thread -> Status] /\ wakeup_callback' \in [Thread -> {"none", "ipc", "arbiter", "async"}]
      BY <1>1, <2>1 DEF Status, Waits
    <3>2. waiters' \in [Object -> Seq(Thread)]
      BY <2>2, <2>5
    <3>3. wait_objects' \in [Thread -> SUBSET Object]
      BY <1>1, <1>2, <2>2
    <3>4. QED BY <1>0, <1>3, <2>4, <3>1, <3>2, <3>3 DEF TypeOK, endpoint_vars, async_vars
  <2>8. QED BY <2>4, <2>6, <2>7 DEF Inv
<1>10. QED BY <1>6, <1>8, <1>9

--------------------------------------------------------------------------------
(* The theorems. *)

LEMMA StutterInv == Inv /\ UNCHANGED vars => Inv'
<1> SUFFICES ASSUME Inv, UNCHANGED vars PROVE Inv'
  OBVIOUS
<1> USE DEF vars, thread_vars, session_vars, endpoint_vars, queue_vars, wait_vars, async_vars
<1>1. TypeOK'
  BY DEF Inv, TypeOK
<1>2. EndpointsOK' /\ ThreadsOK'
  BY DEF Inv, EndpointsOK, ThreadsOK, ThreadOK, WakeupsOK, CallbacksOK, RequestOK, Hle
<1>3. CountsOK' /\ AsyncOK'
  BY DEF Inv, CountsOK, AsyncOK, Open, Helped
<1>4. QueuesOK'
  BY DEF Inv, QueuesOK, QueueOK, Tracked, Members, Hle
<1>5. ListsOK' /\ ArbiterOK'
  BY DEF Inv, ListsOK, ArbiterOK
<1>6. QED BY <1>1, <1>2, <1>3, <1>4, <1>5 DEF Inv

\* What holds while RunAsync is under way for t: the thread still runs, its request is
\* counted, and the host thread works on it or has put the wakeup into the queue.
Beginning(t) ==
  /\ status[t] = "Running" /\ wakeup_callback[t] = "none" /\ event_queue[t] = 0
  /\ t \in worker => ts_queue[t] = 0
  /\ request[t] \in Session /\ Hle(request[t]) /\ server[request[t]] = "open"
Mid(t) ==
  /\ TypeOK /\ EndpointsOK /\ CountsOK /\ QueuesOK /\ ListsOK /\ ArbiterOK
  /\ \A u \in Thread \ {t} : ThreadOK(u)
  /\ Beginning(t)
  /\ IsFiniteSet(Helped) /\ pending_async_operations = Cardinality(Helped) + 1
Inside == \/ starting = {} /\ Inv
          \/ \E t \in Thread : starting = {t} /\ Mid(t)

LEMMA RequestAsyncMid ==
  ASSUME Inv, NEW t \in Thread, NEW s \in Session, RequestAsync(t, s), UNCHANGED waiting_threads
  PROVE  starting' = {t} /\ Mid(t)'
<1>0. /\ TypeOK /\ EndpointsOK /\ CountsOK /\ ThreadsOK /\ AsyncOK /\ QueuesOK /\ ListsOK
      /\ ArbiterOK
  BY DEF Inv
<1>1. /\ request \in [Thread -> Session \cup {None}] /\ worker \subseteq Thread
      /\ pending_async_operations \in Nat
  BY <1>0 DEF TypeOK
<1>2. /\ status[t] = "Running" /\ client[s] = "open" /\ Hle(s)
      /\ request' = [request EXCEPT ![t] = s]
      /\ pending_async_operations' = pending_async_operations + 1
      /\ worker' = worker \cup {t} /\ starting' = {t}
      /\ UNCHANGED <<thread_vars, endpoint_vars, queue_vars, wait_vars>>
  BY DEF RequestAsync
<1>3. TypeOK'
  <2>1. request' \in [Thread -> Session \cup {None}] /\ worker' \subseteq Thread
    BY <1>1, <1>2
  <2>2. starting' \subseteq Thread /\ pending_async_operations' \in Nat
    BY <1>1, <1>2
  <2>3. QED BY <1>0, <1>2, <2>1, <2>2 DEF TypeOK, thread_vars, endpoint_vars, queue_vars, wait_vars
<1>4. \A u \in Thread : u # t => Same(u)
  BY <1>1, <1>2 DEF Same, thread_vars
<1>5. EndpointsOK' /\ CountsOK' /\ SessionsKept
  BY <1>0, <1>2, QuietEndpoints
<1>6. Beginning(t)'
  <2>1. event_queue[t] = 0 /\ ts_queue[t] = 0 /\ wakeup_callback[t] = "none"
    BY <1>0, <1>2, RunningThread
  <2>2. request'[t] = s
    BY <1>1, <1>2
  <2>3. server[s] = "open"
    BY <1>0, <1>2 DEF EndpointsOK
  <2>4. QED BY <1>2, <2>1, <2>2, <2>3 DEF Beginning, Hle, thread_vars, endpoint_vars
<1>7. \A u \in Thread \ {t} : ThreadOK(u)'
  <2>1. ASSUME NEW u \in Thread \ {t} PROVE ThreadOK(u)'
    <3>1. ThreadOK(u) /\ Same(u)
      BY <1>0, <1>4 DEF ThreadsOK
    <3>2. status[u] = "WaitHleEvent" => server'[request[u]] = "open"
      BY <1>2, <3>1 DEF ThreadOK, RequestOK, endpoint_vars
    <3>3. QED BY <1>0, <1>5, <3>1, <3>2, SameThread
  <2>2. QED BY <2>1
<1>8. IsFiniteSet(Helped') /\ pending_async_operations' = Cardinality(Helped') + 1
  <2>1. Helped' = Helped
    BY <1>2 DEF Helped, thread_vars
  <2>2. QED BY <1>0, <1>2, <2>1 DEF AsyncOK
<1>9. QueuesOK'
  <2>1. \A u \in Thread : Stays(u) /\ Passes(u)
    BY <1>2, <1>4 DEF Same, Stays, Passes, thread_vars
  <2>2. QED BY <1>0, <1>2, <1>5, <2>1, QuietQueues
<1>10. ListsOK' /\ ArbiterOK'
  BY <1>0, <1>2, QuietLists, QuietArbiter DEF thread_vars
<1>11. QED BY <1>2, <1>3, <1>5, <1>6, <1>7, <1>8, <1>9, <1>10 DEF Mid

\* A host thread is done, that of the thread or another's, before the thread sleeps.
LEMMA AsyncSectionDoneMid ==
  ASSUME NEW t \in Thread, Mid(t), NEW d \in Thread, AsyncSectionDone(d), UNCHANGED waiting_threads
  PROVE  Mid(t)'
<1>0. /\ TypeOK /\ EndpointsOK /\ CountsOK /\ QueuesOK /\ ListsOK /\ ArbiterOK
      /\ \A u \in Thread \ {t} : ThreadOK(u)
      /\ Beginning(t)
      /\ IsFiniteSet(Helped) /\ pending_async_operations = Cardinality(Helped) + 1
  BY DEF Mid
<1>1. ts_queue \in [Thread -> Nat] /\ worker \subseteq Thread
  BY <1>0 DEF TypeOK
<1>2. /\ d \in worker /\ worker' = worker \ {d}
      /\ ts_queue' = [ts_queue EXCEPT ![d] = @ + 1]
      /\ UNCHANGED <<status, wakeup_callback, event_queue, endpoint_vars, queue_vars,
                     wait_vars, request, starting, pending_async_operations>>
  BY DEF AsyncSectionDone
<1>3. TypeOK'
  <2>1. ts_queue' \in [Thread -> Nat] /\ worker' \subseteq Thread
    BY <1>1, <1>2
  <2>2. QED BY <1>0, <1>2, <2>1 DEF TypeOK, endpoint_vars, queue_vars, wait_vars
<1>4. \A u \in Thread : u # d => Same(u)
  BY <1>1, <1>2 DEF Same
<1>5. EndpointsOK' /\ CountsOK' /\ SessionsKept
  BY <1>0, <1>2, QuietEndpoints
<1>6. UNCHANGED <<server, port, client>>
  BY <1>2 DEF endpoint_vars
<1>7. Beginning(t)'
  <2>1. t \in worker' => t \in worker /\ t # d
    BY <1>2
  <2>2. t # d => ts_queue'[t] = ts_queue[t]
    BY <1>4 DEF Same
  <2>3. QED BY <1>0, <1>2, <1>6, <2>1, <2>2 DEF Beginning, Hle
<1>8. ASSUME NEW u \in Thread \ {t} PROVE ThreadOK(u)'
  <2>1. ThreadOK(u)
    BY <1>0
  <2>2. CASE u = d
    <3>1. status[u] = "WaitHleEvent" /\ event_queue[u] = 0 /\ u \notin worker'
      BY <1>2, <2>1, <2>2 DEF ThreadOK, WakeupsOK
    <3>2. QED BY <1>2, <1>6, <2>1, <3>1 DEF ThreadOK, WakeupsOK, CallbacksOK, RequestOK, Hle
  <2>3. CASE u # d
    <3>1. status[u] = "WaitHleEvent" => server'[request[u]] = "open"
      BY <1>6, <2>1 DEF ThreadOK, RequestOK
    <3>2. QED BY <1>0, <1>4, <1>5, <2>1, <2>3, <3>1, SameThread
  <2>4. QED BY <2>2, <2>3
<1>9. IsFiniteSet(Helped') /\ pending_async_operations' = Cardinality(Helped') + 1
  <2>1. Helped' = Helped
    BY <1>2 DEF Helped
  <2>2. QED BY <1>0, <1>2, <2>1
<1>10. QueuesOK'
  <2>1. ASSUME NEW u \in Thread, status[u] = "WaitIPC" PROVE ThreadOK(u) /\ Same(u)
    <3>1. ThreadOK(u)
      BY <1>0, <2>1 DEF Beginning
    <3>2. u # d
      BY <1>2, <2>1, <3>1 DEF ThreadOK, WakeupsOK
    <3>3. QED BY <1>4, <3>1, <3>2
  <2>2. \A u \in Thread : Stays(u) /\ Passes(u)
    BY <1>2, <2>1 DEF Stays, Passes
  <2>3. QED BY <1>0, <1>2, <1>5, <2>1, <2>2, QueuesQuiet
<1>11. ListsOK' /\ ArbiterOK'
  BY <1>0, <1>2, QuietLists, QuietArbiter
<1>12. QED BY <1>3, <1>5, <1>7, <1>8, <1>9, <1>10, <1>11 DEF Mid

\* The thread sleeps: its wakeup may be in the queue already.
LEMMA SleepClientThreadInv ==
  ASSUME NEW t \in Thread, Mid(t), SleepClientThread(t), UNCHANGED waiting_threads
  PROVE  starting' = {} /\ Inv'
<1>0. /\ TypeOK /\ EndpointsOK /\ CountsOK /\ QueuesOK /\ ListsOK /\ ArbiterOK
      /\ \A u \in Thread \ {t} : ThreadOK(u)
      /\ Beginning(t)
      /\ IsFiniteSet(Helped) /\ pending_async_operations = Cardinality(Helped) + 1
  BY DEF Mid
<1>1. /\ status \in [Thread -> Status]
      /\ wakeup_callback \in [Thread -> {"none", "ipc", "arbiter", "async"}]
  BY <1>0 DEF TypeOK
<1>2. /\ starting' = {} /\ status' = [status EXCEPT ![t] = "WaitHleEvent"]
      /\ wakeup_callback' = [wakeup_callback EXCEPT ![t] = "async"]
      /\ UNCHANGED <<event_queue, ts_queue, endpoint_vars, queue_vars, wait_vars, request,
                     worker, pending_async_operations>>
  BY DEF SleepClientThread
<1>3. TypeOK'
  <2>1. status' \in [Thread -> Status]
    BY <1>1, <1>2 DEF Status, Waits
  <2>2. wakeup_callback' \in [Thread -> {"none", "ipc", "arbiter", "async"}]
    BY <1>1, <1>2
  <2>3. starting' \subseteq Thread
    BY <1>2
  <2>4. QED BY <1>0, <1>2, <2>1, <2>2, <2>3 DEF TypeOK, endpoint_vars, queue_vars, wait_vars
<1>4. \A u \in Thread : u # t => Same(u)
  BY <1>1, <1>2 DEF Same
<1>5. status'[t] = "WaitHleEvent" /\ wakeup_callback'[t] = "async" /\ status[t] = "Running"
  BY <1>0, <1>1, <1>2 DEF Beginning
<1>6. EndpointsOK' /\ CountsOK' /\ SessionsKept
  BY <1>0, <1>2, QuietEndpoints
<1>7. ThreadsOK'
  <2>0. UNCHANGED <<server, port, client>>
    BY <1>2 DEF endpoint_vars
  <2>1. ThreadOK(t)'
    BY <1>0, <1>2, <1>5, <2>0 DEF Beginning, ThreadOK, WakeupsOK, CallbacksOK, RequestOK, Hle
  <2>2. ASSUME NEW u \in Thread \ {t} PROVE ThreadOK(u)'
    <3>1. ThreadOK(u) /\ Same(u)
      BY <1>0, <1>4
    <3>2. status[u] = "WaitHleEvent" => server'[request[u]] = "open"
      BY <2>0, <3>1 DEF ThreadOK, RequestOK
    <3>3. QED BY <1>0, <1>6, <3>1, <3>2, SameThread
  <2>3. QED BY <2>1, <2>2 DEF ThreadsOK
<1>8. \A u \in Thread : status'[u] = status[u] \/ u = t
  BY <1>4 DEF Same
<1>9. AsyncOK'
  <2>1. Helped' = Helped \cup {t} /\ t \notin Helped
    BY <1>5, <1>8 DEF Helped
  <2>2. IsFiniteSet(Helped \cup {t}) /\ Cardinality(Helped \cup {t}) = Cardinality(Helped) + 1
    BY <1>0, <2>1, FS_AddElement
  <2>3. QED BY <1>0, <1>2, <2>1, <2>2 DEF AsyncOK
<1>10. QueuesOK'
  <2>1. \A u \in Thread : status[u] = "WaitIPC" => ThreadOK(u)
    BY <1>0, <1>5
  <2>2. \A u \in Thread : Stays(u)
    BY <1>4, <1>5 DEF Same, Stays
  <2>3. \A u \in Thread : Passes(u)
    BY <1>4, <1>5 DEF Passes
  <2>4. QED BY <1>0, <1>2, <1>6, <2>1, <2>2, <2>3, QueuesQuiet
<1>11. ListsOK' /\ ArbiterOK'
  BY <1>0, <1>2, <1>5, <1>8, QuietLists, QuietArbiter
<1>12. QED BY <1>2, <1>3, <1>6, <1>7, <1>9, <1>10, <1>11 DEF Inv

LEMMA StutterMid ==
  ASSUME NEW t \in Thread, Mid(t), UNCHANGED vars
  PROVE  Mid(t)'
<1> USE DEF vars, thread_vars, session_vars, endpoint_vars, queue_vars, wait_vars, async_vars
<1>1. TypeOK'
  BY DEF Mid, TypeOK
<1>2. EndpointsOK' /\ CountsOK' /\ Helped' = Helped
  BY DEF Mid, EndpointsOK, CountsOK, Hle, Open, Helped
<1>3. Beginning(t)' /\ \A u \in Thread \ {t} : ThreadOK(u)'
  BY DEF Mid, Beginning, ThreadOK, WakeupsOK, CallbacksOK, RequestOK, Hle
<1>4. QueuesOK'
  BY DEF Mid, QueuesOK, QueueOK, Tracked, Members, Hle
<1>5. ListsOK' /\ ArbiterOK'
  BY DEF Mid, ListsOK, ArbiterOK
<1>6. QED BY <1>1, <1>2, <1>3, <1>4, <1>5 DEF Mid

\* What the emulation thread does.
LEMMA EmulationInside ==
  ASSUME SafeKills, Inv, starting = {}, Emulation
  PROVE  Inside'
<1>1. CASE Schedule
  <2>1. starting' = starting
    BY <1>1 DEF Schedule, async_vars
  <2>2. Inv'
    BY <1>1, SwitchToInv, PreemptInv, MoveEventsInv DEF Schedule
  <2>3. QED BY <2>1, <2>2 DEF Inside
<1>2. CASE Arbitrate
  <2>1. starting' = starting
    BY <1>2 DEF Arbitrate, session_vars, async_vars
  <2>2. Inv'
    BY <1>2, ArbitrateWaitInv, ResumeFirstInv, ResumeAllThreadsInv DEF Arbitrate, ArbitrateAddress
  <2>3. QED BY <2>1, <2>2 DEF Inside
<1>3. CASE IPC
  <2>1. Call /\ UNCHANGED waiting_threads
    BY <1>3 DEF IPC
  <2>2. ASSUME NEW t \in Thread \ Server, NEW s \in Session,
               \/ \E p \in Port : Connect(t, p, s)
               \/ CloseClient(t, s)
               \/ RequestGuest(t, s)
               \/ RequestService(t, s)
               \/ RequestDeterministic(t, s)
        PROVE  Inside'
    <3>1. Inv'
      BY <2>1, <2>2, ConnectInv, CloseClientInv, RequestGuestInv, RequestServiceInv,
         RequestDeterministicInv
    <3>2. starting' = starting
      BY <2>2 DEF Connect, CloseClient, RequestGuest, RequestService, RequestDeterministic, async_vars
    <3>3. QED BY <3>1, <3>2 DEF Inside
  <2>3. ASSUME NEW t \in Thread \ Server, NEW s \in Session, RequestAsync(t, s) PROVE Inside'
    BY <2>1, <2>3, RequestAsyncMid DEF Inside
  <2>4. ASSUME NEW t \in Server,
               \/ \E p \in Port : AcceptSession(t, p)
               \/ \E s \in Session : CloseServer(t, s) \/ ReplyError(t, s)
               \/ \E r \in Session \cup {None}, O \in SUBSET ((Port \ HlePort) \cup Session) :
                    ReplyAndReceive(t, r, O)
        PROVE  Inside'
    <3>1. Inv'
      BY <2>1, <2>4, ServerAssumption, AcceptSessionInv, CloseServerInv, ReplyErrorInv,
         ReplyAndReceiveInv
    <3>2. starting' = starting
      BY <2>4 DEF AcceptSession, CloseServer, ReplyError, ReplyAndReceive, async_vars
    <3>3. QED BY <3>1, <3>2 DEF Inside
  <2>5. QED BY <2>1, <2>2, <2>3, <2>4 DEF Call
<1>4. ASSUME NEW t \in Thread, ThreadWakeup(t) \/ Stop(t) PROVE Inside'
  <2>1. Inv'
    BY <1>4, ThreadWakeupInv, StopInv
  <2>2. starting' = starting
    BY <1>4 DEF ThreadWakeup, Stop, async_vars
  <2>3. QED BY <2>1, <2>2 DEF Inside
<1>5. QED BY <1>1, <1>2, <1>3, <1>4 DEF Emulation

LEMMA NextInside == SafeKills /\ Inside /\ [Next]_vars => Inside'
<1> SUFFICES ASSUME SafeKills, Inside, [Next]_vars PROVE Inside'
  OBVIOUS
<1>1. CASE starting = {} /\ Inv
  <2>1. CASE Emulation
    BY <1>1, <2>1, EmulationInside
  <2>2. ~Asleep
    BY <1>1 DEF Asleep, SleepClientThread
  <2>3. CASE HostDone
    <3>1. PICK d \in Thread : AsyncSectionDone(d) /\ UNCHANGED waiting_threads
      BY <2>3 DEF HostDone
    <3>2. Inv' /\ starting' = starting
      BY <1>1, <3>1, AsyncSectionDoneInv DEF AsyncSectionDone
    <3>3. QED BY <1>1, <3>2 DEF Inside
  <2>4. CASE UNCHANGED vars
    BY <1>1, <2>4, StutterInv DEF Inside, vars, session_vars, async_vars
  <2>5. QED BY <2>1, <2>2, <2>3, <2>4 DEF Next
<1>2. ASSUME NEW t \in Thread, starting = {t}, Mid(t) PROVE Inside'
  <2>1. CASE Asleep
    <3>1. SleepClientThread(t) /\ UNCHANGED waiting_threads
      BY <1>2, <2>1 DEF Asleep, SleepClientThread
    <3>2. QED BY <1>2, <3>1, SleepClientThreadInv DEF Inside
  <2>2. CASE HostDone
    <3>1. PICK d \in Thread : AsyncSectionDone(d) /\ UNCHANGED waiting_threads
      BY <2>2 DEF HostDone
    <3>2. Mid(t)' /\ starting' = starting
      BY <1>2, <3>1, AsyncSectionDoneMid DEF AsyncSectionDone
    <3>3. QED BY <1>2, <3>2 DEF Inside
  <2>3. CASE UNCHANGED vars
    BY <1>2, <2>3, StutterMid DEF Inside, vars, session_vars, async_vars
  <2>4. QED BY <1>2, <2>1, <2>2, <2>3 DEF Next
<1>3. QED BY <1>1, <1>2 DEF Inside


LEMMA Always == SafeKills /\ Spec => []Inside
<1> DEFINE KInv == SafeKills /\ Inside
<1>1. SafeKills /\ Init => KInv
  BY InitInv DEF Inside, Init, InitSessions
<1>2. KInv /\ [Next]_vars => KInv'
  BY NextInside DEF SafeKills
<1> HIDE DEF KInv
<1>3. SafeKills /\ Spec => []KInv
  BY <1>1, <1>2, PTL DEF Spec
<1>4. KInv => Inside
  BY DEF KInv
<1>5. QED BY <1>3, <1>4, PTL

\* What holds in every state, also while RunAsync is under way.
LEMMA InsideParts ==
  ASSUME Inside
  PROVE  /\ TypeOK /\ CountsOK /\ QueuesOK /\ ListsOK /\ ArbiterOK
         /\ \A t \in Thread : status[t] = "WaitIPC" => request[t] \in Session
         /\ pending_async_operations = Cardinality(Helped \cup starting)
<1>1. CASE starting = {} /\ Inv
  <2>1. Helped \cup starting = Helped
    BY <1>1
  <2>2. QED BY <1>1, <2>1 DEF Inv, AsyncOK, ThreadsOK, ThreadOK, RequestOK
<1>2. ASSUME NEW t \in Thread, starting = {t}, Mid(t)
      PROVE  /\ TypeOK /\ CountsOK /\ QueuesOK /\ ListsOK /\ ArbiterOK
             /\ \A u \in Thread : status[u] = "WaitIPC" => request[u] \in Session
             /\ pending_async_operations = Cardinality(Helped \cup starting)
  <2>1. t \notin Helped
    BY <1>2 DEF Mid, Beginning, Helped
  <2>2. Cardinality(Helped \cup {t}) = Cardinality(Helped) + 1
    BY <1>2, <2>1, FS_AddElement DEF Mid
  <2>3. QED BY <1>2, <2>2 DEF Mid, Beginning, ThreadOK, RequestOK
<1>3. QED BY <1>1, <1>2 DEF Inside

\* The variables of the kernel's sessions, arbiter and wakeup queues stay within their
\* types; in particular no count of sessions or of operations under way wraps around.
THEOREM TypeCorrect == SafeKills /\ Spec => []TypeOK
<1>1. Inside => TypeOK
  BY InsideParts
<1>2. QED BY <1>1, Always, PTL

\* ClientPort::active_sessions is the number of sessions of the port whose server endpoint
\* exists, and at most max_sessions, in whatever order the two endpoints are destroyed and
\* however long a request under way keeps the server endpoint alive.
THEOREM EverySessionCounted == SafeKills /\ Spec => []SessionsCounted
<1>1. Inside => SessionsCounted
  BY InsideParts DEF CountsOK, Open, SessionsCounted
<1>2. QED BY <1>1, Always, PTL

\* Every request is in at most one place, its thread sleeps while a session has it, and a
\* thread that sleeps for a reply is in a queue, handled, or about to be woken, unless an
\* endpoint of its session was closed; the count that holds back save states is right, also
\* when the host thread of RunAsync is done before the client sleeps.
THEOREM EveryRequestTracked == SafeKills /\ Spec => []RequestsTracked
<1>1. ASSUME Inside PROVE RequestsTracked
  <2>1. TypeOK /\ QueuesOK
    BY <1>1, InsideParts
  <2>2. ASSUME NEW s \in Session
        PROVE  LET q == pending_requesting_threads[s] IN
                 /\ IsInjective(q) /\ ~Contains(q, currently_handling[s])
                 /\ \A t \in Range(q) \cup ({currently_handling[s]} \ {None}) :
                      request[t] = s /\ status[t] \in {"WaitIPC", "Dead"}
    <3>1. pending_requesting_threads[s] \in Seq(Thread)
      BY <2>1 DEF TypeOK
    <3>2. \A x : Contains(pending_requesting_threads[s], x) <=> x \in Range(pending_requesting_threads[s])
      BY <3>1, InRange
    <3>3. QED BY <2>1, <3>2 DEF QueuesOK, QueueOK, Members
  <2>3. ASSUME NEW t \in Thread, status[t] = "WaitIPC"
        PROVE  LET s == request[t] IN
                 \/ Contains(pending_requesting_threads[s], t)
                 \/ currently_handling[s] = t
                 \/ event_queue[t] > 0
                 \/ client[s] = "closed" \/ server[s] = "closed"
    <3>1. PICK s \in Session : s = request[t]
      BY <1>1, <2>3, InsideParts
    <3>2. pending_requesting_threads[s] \in Seq(Thread)
      BY <2>1 DEF TypeOK
    <3>3. \A x : Contains(pending_requesting_threads[s], x) <=> x \in Range(pending_requesting_threads[s])
      BY <3>2, InRange
    <3>4. \/ t \in Members(s) \/ event_queue[t] > 0 \/ client[s] = "closed" \/ server[s] = "closed"
      BY <2>1, <2>3, <3>1 DEF QueuesOK, Tracked
    <3>5. QED BY <3>1, <3>3, <3>4 DEF Members
  <2>4. pending_async_operations =
          Cardinality({t \in Thread : status[t] = "WaitHleEvent"} \cup starting)
    BY <1>1, InsideParts DEF Helped
  <2>5. QED BY <2>2, <2>3, <2>4 DEF RequestsTracked
<1>2. QED BY <1>1, Always, PTL

\* The arbiter's list holds every thread that waits for it, each once, and besides only
\* threads that were terminated while they waited: neither a signal that meets a timeout
\* nor a second signal leaves a thread behind or twice in it.
THEOREM ArbiterListRight == SafeKills /\ Spec => []ArbiterConsistent
<1>1. ASSUME Inside PROVE ArbiterConsistent
  <2> DEFINE l == waiting_threads
             n == Len(l)
             f == [i \in 1 .. n |-> l[i].thread]
  <2>1. l \in Seq(Waiter) /\ Once(l) /\ n \in Nat /\ ArbiterOK
    BY <1>1, InsideParts DEF TypeOK, ArbiterOK, Waiter
  <2>2. \A t : t \in Threads(l) <=> \E i \in 1 .. n : l[i].thread = t
    BY <2>1, ListedThreads
  <2>3. \A i \in 1 .. n : l[i].thread \in Thread
    <3>1. \A i \in 1 .. n : l[i] \in Waiter
      BY <2>1
    <3>2. \A w \in Waiter : w.thread \in Thread
      BY DEF Waiter
    <3>3. QED BY <3>1, <3>2
  <2>4. \A t \in Thread : /\ status[t] = "WaitArb" => \E i \in 1 .. n : l[i].thread = t
                          /\ \A i \in 1 .. n : l[i].thread = t => status[t] \in {"WaitArb", "Dead"}
    BY <2>1 DEF ArbiterOK
  <2> HIDE DEF l, n
  <2>5. /\ {t \in Thread : status[t] = "WaitArb"} \subseteq Threads(l)
        /\ \A t \in Threads(l) : status[t] \in {"WaitArb", "Dead"}
    BY <2>2, <2>3, <2>4
  <2>6. ExistsBijection(1 .. n, Threads(l))
    <3>1. f \in [1 .. n -> Threads(l)] /\ \A t \in Threads(l) : \E i \in 1 .. n : f[i] = t
      BY <2>2
    <3>2. \A i, j \in 1 .. n : f[i] = f[j] => i = j
      BY <2>1 DEF Once, n
    <3>3. f \in Bijection(1 .. n, Threads(l))
      BY <3>1, <3>2, Fun_IsBij
    <3>4. QED BY <3>3 DEF ExistsBijection
  <2>7. Cardinality(Threads(l)) = n
    BY <2>1, <2>6, FS_CountingElements
  <2>8. QED BY <2>5, <2>7 DEF ArbiterConsistent, l, n
<1>2. QED BY <1>1, Always, PTL


--------------------------------------------------------------------------------
(* Servers do not sleep in vain. *)

\* What some thread waits for: a session with a client, a port without a session.
Waited(o) ==
  waiters[o] # << >> =>
    /\ o \in Session => client[o] = "open"
    /\ o \in Port => pending_sessions[o] = << >>
AllWaited == \A o \in Object : Waited(o)

\* The session is ready although a server thread waits for it.
Missed(s) ==
  /\ waiters[s] # << >>
  /\ SessionReady(s, pending_requesting_threads[s], currently_handling[s])
NoneMissed == \A s \in Session : ~Missed(s)

\* A server thread answers, or fails to answer, the request that the session handles.
RepliedTo(s) ==
  \E t \in Server :
    \/ ReplyError(t, s)
    \/ \E O \in SUBSET ((Port \ HlePort) \cup Session) : ReplyAndReceive(t, s, O)

\* While the server runs, nobody waits.
LEMMA ServerRuns ==
  ASSUME OneServer, TypeOK, ListsOK, NEW t \in Server, status[t] = "Running", NEW o \in Object
  PROVE  waiters[o] = << >>
<1>1. waiters[o] \in Seq(Thread)
  BY DEF TypeOK
<1>2. Range(waiters[o]) = {}
  BY ListedWait DEF OneServer
<1>3. QED BY <1>1, <1>2, InRange

\* Erasing threads from the lists makes no list longer.
LEMMA StillWaited ==
  ASSUME TypeOK, NEW T, StopWaiting(T), NEW o \in Object, waiters'[o] # << >>
  PROVE  waiters[o] # << >> /\ ~(Range(waiters[o]) \subseteq T)
<1>1. waiters[o] \in Seq(Thread) /\ waiters'[o] = Without(waiters[o], T)
  BY DEF TypeOK, StopWaiting
<1>2. waiters'[o] \in Seq(Thread) /\ Range(waiters'[o]) = Range(waiters[o]) \ T
  BY <1>1, WithoutMembers
<1>3. Range(waiters'[o]) # {} /\ (Range(waiters[o]) = {} <=> waiters[o] = << >>)
  BY <1>1, <1>2, InRange
<1>4. QED BY <1>2, <1>3

LEMMA ConnectIdle ==
  ASSUME Inv, AllWaited, NEW t \in Thread, NEW p \in Port, NEW s \in Session, Connect(t, p, s)
  PROVE  AllWaited' /\ \A x \in Session : Missed(x)' => Missed(x)
<1>0. /\ TypeOK /\ client \in [Session -> {"none", "open", "closed"}]
      /\ pending_sessions \in [Port -> Seq(Session)]
  BY DEF Inv, TypeOK
<1>1. PICK T : T = IF pending_sessions'[p] = << >> THEN {} ELSE Range(waiters[p])
  OBVIOUS
<1>2. /\ client[s] = "none" /\ client' = [client EXCEPT ![s] = "open"]
      /\ pending_sessions' = IF p \in HlePort THEN pending_sessions
                             ELSE [pending_sessions EXCEPT ![p] = Append(@, s)]
      /\ StopWaiting(T) /\ UNCHANGED queue_vars
  BY <1>1 DEF Connect
<1>3. ASSUME NEW o \in Object, waiters'[o] # << >>
      PROVE  /\ waiters[o] # << >> /\ (o \in Session => o # s /\ client'[o] = client[o])
             /\ o \in Port => pending_sessions'[o] = << >>
  <2>1. waiters[o] # << >> /\ ~(Range(waiters[o]) \subseteq T) /\ Waited(o)
    BY <1>0, <1>2, <1>3, StillWaited DEF AllWaited
  <2>2. CASE o \in Session
    <3>1. o # s
      BY <1>2, <2>1, <2>2 DEF Waited
    <3>2. client'[o] = client[o]
      BY <1>0, <1>2, <2>2, <3>1
    <3>3. o \notin Port
      BY <2>2, ServerAssumption
    <3>4. QED BY <2>1, <3>1, <3>2, <3>3
  <2>3. CASE o \in Port
    <3>1. o \notin Session
      BY <2>3, ServerAssumption
    <3>2. CASE o = p
      BY <1>1, <2>1, <3>1, <3>2
    <3>3. CASE o # p
      <4>1. pending_sessions'[o] = pending_sessions[o]
        BY <1>0, <1>2, <2>3, <3>3
      <4>2. QED BY <2>1, <2>3, <3>1, <4>1 DEF Waited
    <3>4. QED BY <3>2, <3>3
  <2>4. QED BY <2>2, <2>3 DEF Object
<1>4. AllWaited'
  BY <1>3 DEF AllWaited, Waited
<1>5. ASSUME NEW x \in Session, Missed(x)' PROVE Missed(x)
  BY <1>2, <1>3, <1>5 DEF Missed, SessionReady, queue_vars, Object
<1>6. QED BY <1>4, <1>5

LEMMA CloseClientIdle ==
  ASSUME Inv, AllWaited, NEW t \in Thread, NEW s \in Session, CloseClient(t, s)
  PROVE  AllWaited' /\ \A x \in Session : Missed(x)' => Missed(x)
<1>0. /\ TypeOK /\ client \in [Session -> {"none", "open", "closed"}]
      /\ pending_requesting_threads \in [Session -> Seq(Thread)]
      /\ currently_handling \in [Session -> Thread \cup {None}]
  BY DEF Inv, TypeOK
<1>1. PICK T : T = Range(waiters[s])
  OBVIOUS
<1>2. /\ client' = [client EXCEPT ![s] = "closed"]
      /\ \/ /\ pending_requesting_threads' = [pending_requesting_threads EXCEPT ![s] = << >>]
            /\ currently_handling' = [currently_handling EXCEPT ![s] = None]
         \/ UNCHANGED queue_vars
      /\ StopWaiting(T) /\ UNCHANGED pending_sessions
  BY <1>1 DEF CloseClient
<1>3. \A o \in Session : o # s => /\ client'[o] = client[o]
                                  /\ pending_requesting_threads'[o] = pending_requesting_threads[o]
                                  /\ currently_handling'[o] = currently_handling[o]
  BY <1>0, <1>2 DEF queue_vars
<1>4. ASSUME NEW o \in Object, waiters'[o] # << >>
      PROVE  waiters[o] # << >> /\ Waited(o) /\ o # s
  <2>1. waiters[o] # << >> /\ ~(Range(waiters[o]) \subseteq T) /\ Waited(o)
    BY <1>0, <1>2, <1>4, StillWaited DEF AllWaited
  <2>2. QED BY <1>1, <2>1
<1>5. AllWaited'
  BY <1>2, <1>3, <1>4 DEF AllWaited, Waited
<1>6. ASSUME NEW x \in Session, Missed(x)' PROVE Missed(x)
  BY <1>3, <1>4, <1>6 DEF Missed, SessionReady, Object
<1>7. QED BY <1>5, <1>6

LEMMA RequestGuestIdle ==
  ASSUME Inv, AllWaited, NEW t \in Thread, NEW s \in Session, RequestGuest(t, s)
  PROVE  AllWaited' /\ \A x \in Session : Missed(x)' => Missed(x)
<1>0. /\ TypeOK /\ pending_requesting_threads \in [Session -> Seq(Thread)]
      /\ currently_handling \in [Session -> Thread \cup {None}]
  BY DEF Inv, TypeOK
<1>1. PICK taken \in BOOLEAN : taken = (waiters[s] # << >> /\ currently_handling[s] = None)
  OBVIOUS
<1>2. PICK T : T = IF taken THEN {BestWaiter(s)} ELSE {}
  OBVIOUS
<1>3. PICK q : q = IF taken THEN Front(Append(pending_requesting_threads[s], t))
                   ELSE Append(pending_requesting_threads[s], t)
  OBVIOUS
<1>4. /\ client[s] = "open" /\ StopWaiting(T) /\ UNCHANGED <<client, pending_sessions>>
      /\ pending_requesting_threads' = [pending_requesting_threads EXCEPT ![s] = q]
      /\ currently_handling' = IF taken THEN [currently_handling EXCEPT ![s] = t]
                               ELSE currently_handling
  BY <1>1, <1>2, <1>3 DEF RequestGuest, endpoint_vars
<1>5. \A o \in Session : /\ o # s => pending_requesting_threads'[o] = pending_requesting_threads[o]
                         /\ currently_handling'[o] = IF taken /\ o = s THEN t ELSE currently_handling[o]
  BY <1>0, <1>4
<1>6. \A o \in Object : waiters'[o] # << >> => waiters[o] # << >>
  BY <1>0, <1>4, StillWaited
<1>7. AllWaited'
  BY <1>4, <1>6 DEF AllWaited, Waited
<1>8. ASSUME NEW x \in Session, Missed(x)' PROVE Missed(x)
  <2>1. waiters[x] # << >>
    BY <1>6, <1>8 DEF Missed, Object
  <2>2. CASE x = s
    <3>1. currently_handling'[s] # None
      BY <1>1, <1>5, <2>1, <2>2, NoneAssumption
    <3>2. QED BY <1>4, <1>8, <2>2, <3>1 DEF Missed, SessionReady
  <2>3. CASE x # s
    BY <1>4, <1>5, <1>8, <2>1, <2>3 DEF Missed, SessionReady
  <2>4. QED BY <2>2, <2>3
<1>9. QED BY <1>7, <1>8

\* The server receives from one session, or goes to sleep when nothing it asks for is ready.
\* Only the session it answered may become ready.
LEMMA ReplyAndReceiveIdle ==
  ASSUME Inv, AllWaited, NEW t \in Server, NEW r \in Session \cup {None},
         NEW O \in SUBSET ((Port \ HlePort) \cup Session), ReplyAndReceive(t, r, O)
  PROVE  /\ AllWaited' /\ \A x \in Session : x # r /\ Missed(x)' => Missed(x)
         /\ OneServer => NoneMissed'
<1>0. /\ TypeOK /\ waiters \in [Object -> Seq(Thread)]
      /\ pending_requesting_threads \in [Session -> Seq(Thread)]
      /\ currently_handling \in [Session -> Thread \cup {None}]
  BY DEF Inv, TypeOK
<1>1. PICK h : h = Handling(r)
  OBVIOUS
<1>2. PICK ready : ready = {s \in O \cap Session : SessionReady(s, pending_requesting_threads[s], h[s])}
                           \cup {p \in O \cap Port : pending_sessions[p] # << >>}
  OBVIOUS
<1>3. /\ UNCHANGED <<client, pending_sessions>> /\ status[t] = "Running"
      /\ h \in [Session -> Thread \cup {None}]
      /\ \A x \in Session : x # r => h[x] = currently_handling[x]
  BY <1>0, <1>1, NoneAssumption DEF ReplyAndReceive, endpoint_vars, Handling
<1>4. \/ /\ UNCHANGED wait_vars
         /\ \E s \in ready \cap Session :
              /\ client[s] = "open"
              /\ currently_handling' = [h EXCEPT ![s] = Last(pending_requesting_threads[s])]
              /\ pending_requesting_threads' = [pending_requesting_threads EXCEPT ![s] = Remaining(s)]
      \/ UNCHANGED wait_vars /\ currently_handling' = h /\ UNCHANGED pending_requesting_threads
      \/ /\ ready = {}
         /\ waiters' = [o \in Object |-> IF o \in O THEN Append(waiters[o], t) ELSE waiters[o]]
         /\ currently_handling' = h /\ UNCHANGED pending_requesting_threads
  BY <1>1, <1>2 DEF ReplyAndReceive
<1>5. ASSUME OneServer PROVE \A o \in Object : waiters[o] = << >>
  BY <1>3, <1>5, ServerRuns DEF Inv
<1>6. CASE /\ UNCHANGED wait_vars
           /\ \E s \in ready \cap Session :
                /\ client[s] = "open"
                /\ currently_handling' = [h EXCEPT ![s] = Last(pending_requesting_threads[s])]
                /\ pending_requesting_threads' = [pending_requesting_threads EXCEPT ![s] = Remaining(s)]
  <2>1. PICK s \in ready \cap Session :
              /\ client[s] = "open"
              /\ currently_handling' = [h EXCEPT ![s] = Last(pending_requesting_threads[s])]
              /\ pending_requesting_threads' = [pending_requesting_threads EXCEPT ![s] = Remaining(s)]
    BY <1>6
  <2>2. pending_requesting_threads[s] # << >>
    BY <1>2, <2>1, ServerAssumption DEF SessionReady
  <2>3. Last(pending_requesting_threads[s]) \in Thread
    BY <1>0, <2>2, EmptySeq DEF Last
  <2>4. \A x \in Session :
          /\ x = s => currently_handling'[x] # None
          /\ x # s => /\ currently_handling'[x] = h[x]
                      /\ pending_requesting_threads'[x] = pending_requesting_threads[x]
    BY <1>0, <1>3, <2>1, <2>3, NoneAssumption
  <2>5. \A x \in Session : x # r /\ Missed(x)' => Missed(x)
    BY <1>3, <1>6, <2>1, <2>4 DEF Missed, SessionReady, wait_vars
  <2>6. AllWaited'
    BY <1>3, <1>6 DEF AllWaited, Waited, wait_vars
  <2>7. QED BY <1>5, <1>6, <2>5, <2>6 DEF NoneMissed, Missed, wait_vars, Object
<1>7. CASE UNCHANGED wait_vars /\ currently_handling' = h /\ UNCHANGED pending_requesting_threads
  <2>1. \A x \in Session : x # r /\ Missed(x)' => Missed(x)
    BY <1>3, <1>7 DEF Missed, SessionReady, wait_vars
  <2>2. AllWaited'
    BY <1>3, <1>7 DEF AllWaited, Waited, wait_vars
  <2>3. QED BY <1>5, <1>7, <2>1, <2>2 DEF NoneMissed, Missed, wait_vars, Object
<1>8. CASE /\ ready = {}
           /\ waiters' = [o \in Object |-> IF o \in O THEN Append(waiters[o], t) ELSE waiters[o]]
           /\ currently_handling' = h /\ UNCHANGED pending_requesting_threads
  <2>1. \A o \in Object : o \notin O => waiters'[o] = waiters[o]
    BY <1>8
  <2>2. ASSUME NEW x \in Session, x \in O PROVE client'[x] = "open" /\ ~Missed(x)'
    <3>1. ~SessionReady(x, pending_requesting_threads[x], h[x])
      BY <1>2, <1>8, <2>2
    <3>2. QED BY <1>3, <1>8, <3>1 DEF Missed, SessionReady
  <2>3. \A x \in Session : x # r /\ Missed(x)' => Missed(x)
    BY <1>3, <1>8, <2>1, <2>2 DEF Missed, SessionReady, Object
  <2>4. \A p \in Port : p \in O => pending_sessions'[p] = << >>
    BY <1>2, <1>3, <1>8
  <2>5. AllWaited'
    BY <1>3, <2>1, <2>2, <2>4 DEF AllWaited, Waited
  <2>6. QED BY <1>5, <2>1, <2>2, <2>3, <2>5 DEF NoneMissed, Missed, Object
<1>9. QED BY <1>4, <1>6, <1>7, <1>8

\* Steps that concern none of the servers, and those that only shorten the lists.
LEMMA SameIdle ==
  ASSUME AllWaited, UNCHANGED <<client, pending_sessions, queue_vars>>,
         \A o \in Object : waiters'[o] # << >> => waiters[o] # << >>
  PROVE  AllWaited' /\ \A x \in Session : Missed(x)' => Missed(x)
BY DEF AllWaited, Waited, Missed, SessionReady, queue_vars, Object

\* The other calls of a server thread.
LEMMA ServerIdle ==
  ASSUME Inv, AllWaited, NEW t \in Server,
         \/ \E p \in Port : AcceptSession(t, p)
         \/ \E s \in Session : CloseServer(t, s) \/ ReplyError(t, s)
  PROVE  /\ AllWaited' /\ \A x \in Session : Missed(x)' => Missed(x) \/ ReplyError(t, x)
         /\ OneServer => NoneMissed'
<1>0. /\ pending_sessions \in [Port -> Seq(Session)]
      /\ pending_requesting_threads \in [Session -> Seq(Thread)]
      /\ currently_handling \in [Session -> Thread \cup {None}]
  BY DEF Inv, TypeOK
<1>1. status[t] = "Running" /\ UNCHANGED <<client, waiters>>
  BY DEF AcceptSession, CloseServer, ReplyError, wait_vars, endpoint_vars
<1>2. OneServer => NoneMissed'
  BY <1>1, ServerRuns DEF Inv, NoneMissed, Missed, Object
<1>3. ASSUME NEW p \in Port, AcceptSession(t, p)
      PROVE  AllWaited' /\ \A x \in Session : Missed(x)' => Missed(x)
  <2>1. /\ pending_sessions[p] # << >> /\ pending_sessions' = [pending_sessions EXCEPT ![p] = Front(@)]
        /\ UNCHANGED queue_vars
    BY <1>3 DEF AcceptSession
  <2>2. \A q \in Port : q # p => pending_sessions'[q] = pending_sessions[q]
    BY <1>0, <2>1
  <2>3. waiters[p] = << >>
    BY <2>1 DEF AllWaited, Waited, Object
  <2>4. AllWaited'
    BY <1>1, <2>2, <2>3 DEF AllWaited, Waited
  <2>5. QED BY <1>1, <2>1, <2>4 DEF Missed, SessionReady, queue_vars
<1>4. ASSUME NEW s \in Session, CloseServer(t, s) \/ ReplyError(t, s)
      PROVE  AllWaited' /\ \A x \in Session : Missed(x)' => Missed(x) \/ ReplyError(t, x)
  <2>1. UNCHANGED pending_sessions
    BY <1>4 DEF CloseServer, ReplyError, endpoint_vars
  <2>2. AllWaited'
    BY <1>1, <2>1 DEF AllWaited, Waited
  <2>3. \A x \in Session : x # s => /\ pending_requesting_threads'[x] = pending_requesting_threads[x]
                                    /\ currently_handling'[x] = currently_handling[x]
    BY <1>0, <1>4 DEF CloseServer, ReplyError, Handling
  <2>4. CloseServer(t, s) => waiters[s] = << >>
    BY DEF CloseServer
  <2>5. QED BY <1>1, <1>4, <2>2, <2>3, <2>4 DEF Missed, SessionReady
<1>5. QED BY <1>2, <1>3, <1>4

LEMMA NextIdle ==
  ASSUME Inside, AllWaited, [Next]_vars
  PROVE  /\ AllWaited' /\ \A x \in Session : Missed(x)' => Missed(x) \/ RepliedTo(x)
         /\ OneServer /\ NoneMissed => NoneMissed'
<1>1. CASE \/ Schedule \/ Arbitrate \/ Asleep \/ HostDone \/ UNCHANGED vars
  <2>1. UNCHANGED <<client, pending_sessions, queue_vars, waiters>>
    BY <1>1 DEF Schedule, Arbitrate, Asleep, SleepClientThread, HostDone, AsyncSectionDone,
                vars, session_vars, endpoint_vars, wait_vars
  <2>2. QED BY <2>1, SameIdle DEF NoneMissed
<1>2. CASE starting = {} /\ \E t \in Thread : ThreadWakeup(t) \/ Stop(t)
  <2>1. PICK t \in Thread : ThreadWakeup(t) \/ Stop(t)
    BY <1>2
  <2>2. StopWaiting({t}) /\ UNCHANGED <<client, pending_sessions, queue_vars>>
    BY <2>1 DEF ThreadWakeup, Stop, endpoint_vars
  <2>3. \A o \in Object : waiters'[o] # << >> => waiters[o] # << >>
    BY <2>2, StillWaited, InsideParts
  <2>4. QED BY <2>2, <2>3, SameIdle DEF NoneMissed
<1>3. CASE starting = {} /\ IPC
  <2>1. Inv /\ Call
    BY <1>3 DEF IPC, Inside
  <2>2. ASSUME NEW t \in Thread \ Server, NEW s \in Session,
               \/ \E p \in Port : Connect(t, p, s)
               \/ CloseClient(t, s)
               \/ RequestGuest(t, s)
        PROVE  AllWaited' /\ \A x \in Session : Missed(x)' => Missed(x)
    BY <2>1, <2>2, ConnectIdle, CloseClientIdle, RequestGuestIdle
  <2>3. ASSUME NEW t \in Thread \ Server, NEW s \in Session,
               RequestService(t, s) \/ RequestDeterministic(t, s) \/ RequestAsync(t, s)
        PROVE  AllWaited' /\ \A x \in Session : Missed(x)' => Missed(x)
    <3>1. UNCHANGED <<client, pending_sessions, queue_vars, waiters>>
      BY <2>3 DEF RequestService, RequestDeterministic, RequestAsync, endpoint_vars, wait_vars
    <3>2. QED BY <3>1, SameIdle
  <2>4. CASE \E t \in Thread \ Server, s \in Session :
               \/ \E p \in Port : Connect(t, p, s)
               \/ CloseClient(t, s)
               \/ RequestGuest(t, s)
               \/ RequestService(t, s)
               \/ RequestDeterministic(t, s)
               \/ RequestAsync(t, s)
    <3>1. AllWaited' /\ \A x \in Session : Missed(x)' => Missed(x)
      BY <2>2, <2>3, <2>4
    <3>2. QED BY <3>1 DEF NoneMissed
  <2>5. ASSUME NEW t \in Server,
               \/ \E p \in Port : AcceptSession(t, p)
               \/ \E s \in Session : CloseServer(t, s) \/ ReplyError(t, s)
        PROVE  /\ AllWaited' /\ \A x \in Session : Missed(x)' => Missed(x) \/ RepliedTo(x)
               /\ OneServer => NoneMissed'
    BY <2>1, <2>5, ServerIdle DEF RepliedTo
  <2>6. ASSUME NEW t \in Server, NEW r \in Session \cup {None},
               NEW O \in SUBSET ((Port \ HlePort) \cup Session), ReplyAndReceive(t, r, O)
        PROVE  /\ AllWaited' /\ \A x \in Session : Missed(x)' => Missed(x) \/ RepliedTo(x)
               /\ OneServer => NoneMissed'
    <3>1. /\ AllWaited' /\ \A x \in Session : x # r /\ Missed(x)' => Missed(x)
          /\ OneServer => NoneMissed'
      BY <2>1, <2>6, ReplyAndReceiveIdle
    <3>2. r \in Session => RepliedTo(r)
      BY <2>6 DEF RepliedTo
    <3>3. QED BY <3>1, <3>2
  <2>7. QED BY <2>1, <2>4, <2>5, <2>6 DEF Call
<1>4. QED BY <1>1, <1>2, <1>3 DEF Next, Emulation

LEMMA AlwaysWaited == SafeKills /\ Spec => [](Inside /\ AllWaited)
<1>1. Init => AllWaited
  BY DEF Init, InitSessions, AllWaited, Waited
<1>2. Inside /\ AllWaited /\ [Next]_vars => AllWaited'
  BY NextIdle
<1>3. QED BY <1>1, <1>2, Always, PTL DEF Spec

\* However many server threads there are, none waits for a session whose client is gone or
\* for a port that has a session for it, and the lists of objects and threads agree; the only
\* server thread of a system never sleeps while a session it waits for has a request for it.
\* No order of requests, connections, closed clients, timeouts and replies loses such a wakeup.
THEOREM ServersNotIdle == SafeKills /\ Spec => []NoIdleServer
<1> DEFINE SInv == OneServer => NoneMissed
<1>1. Init => SInv
  BY DEF Init, InitSessions, NoneMissed, Missed, Object
<1>2. Inside /\ AllWaited /\ SInv /\ [Next]_vars => SInv'
  BY NextIdle DEF OneServer
<1>3. Inside /\ AllWaited /\ SInv => NoIdleServer
  <2> SUFFICES ASSUME Inside, AllWaited, SInv PROVE NoIdleServer
    OBVIOUS
  <2>1. ASSUME NEW s \in Session, waiters[s] # << >>
        PROVE  /\ client[s] = "open"
               /\ OneServer => ~SessionReady(s, pending_requesting_threads[s], currently_handling[s])
    BY <2>1 DEF AllWaited, Waited, NoneMissed, Missed, Object
  <2>2. ASSUME NEW p \in Port, waiters[p] # << >> PROVE pending_sessions[p] = << >>
    BY <2>2 DEF AllWaited, Waited, Object
  <2>3. ASSUME NEW t \in Thread, NEW o \in Object
        PROVE  /\ Contains(waiters[o], t) <=> o \in wait_objects[t]
               /\ o \in wait_objects[t] => status[t] = "WaitSynchAny"
    <3>1. waiters[o] \in Seq(Thread) /\ ListsOK
      BY InsideParts DEF TypeOK
    <3>2. Contains(waiters[o], t) <=> t \in Range(waiters[o])
      BY <3>1, InRange
    <3>3. QED BY <3>1, <3>2 DEF ListsOK
  <2>4. QED BY <2>1, <2>2, <2>3 DEF NoIdleServer
<1> HIDE DEF SInv
<1>4. QED BY <1>1, <1>2, <1>3, AlwaysWaited, PTL DEF Spec

\* A session becomes ready while some server thread waits for it only through a reply to that
\* very session: svcReplyAndReceive clears currently_handling and looks at the objects of its
\* own thread, not at the other threads that wait.  No request, connection, closed client,
\* timeout or termination does, with any number of server threads.
THEOREM OnlyRepliesMiss ==
  SafeKills /\ Spec => [][\A s \in Session : Missed(s)' => Missed(s) \/ RepliedTo(s)]_vars
<1>1. Inside /\ AllWaited /\ [Next]_vars =>
        [\A s \in Session : Missed(s)' => Missed(s) \/ RepliedTo(s)]_vars
  BY NextIdle
<1>2. QED BY <1>1, AlwaysWaited, PTL DEF Spec
================================================================================
