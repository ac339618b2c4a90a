---------------------------- MODULE SequenceLemmas -----------------------------
(******************************************************************************)
(* What the helpers that the kernel modules take from the community modules   *)
(* return: the least element of a set of numbers and the removal of an element*)
(* from a sequence.  And that recursive functions on numbers exist.           *)
(******************************************************************************)
EXTENDS Integers, Sequences, SequencesExt, SequenceTheorems, WellFoundedInduction, TLAPS

\* A set of natural numbers that is not empty has a least element, and Min is it.
LEMMA MinIsLeast ==
  ASSUME NEW S \in SUBSET Nat, S # {}
  PROVE  Min(S) \in S /\ \A x \in S : Min(S) <= x
<1>1. PICK m \in S : \A y \in S : ~(<<y, m>> \in OpToRel(<, Nat))
  BY WFMin, NatLessThanWellFounded
<1>2. ASSUME NEW y \in S, y < m PROVE FALSE
  <2>1. <<y, m>> \in Nat \X Nat /\ <<y, m>>[1] = y /\ <<y, m>>[2] = m
    OBVIOUS
  <2>2. <<y, m>> \in OpToRel(<, Nat)
    BY <1>2, <2>1, Zenon DEF OpToRel
  <2>3. QED BY <1>1, <2>2
<1>3. \A y \in S : m <= y
  BY <1>2
<1>4. QED BY <1>3 DEF Min

\* RemoveFirst cuts one place out of a sequence, or returns it as it is when the
\* element does not occur.
LEMMA RemoveFirstPlace ==
  ASSUME NEW S, NEW s \in Seq(S), NEW e
  PROVE  \/ /\ \A i \in 1 .. Len(s) : s[i] # e
            /\ RemoveFirst(s, e) = s
         \/ \E k \in 1 .. Len(s) :
              /\ s[k] = e /\ \A i \in 1 .. k - 1 : s[i] # e
              /\ RemoveFirst(s, e) = SubSeq(s, 1, k - 1) \o SubSeq(s, k + 1, Len(s))
<1>1. CASE ~ \E i \in 1 .. Len(s) : s[i] = e
  BY <1>1 DEF RemoveFirst
<1>2. CASE \E i \in 1 .. Len(s) : s[i] = e
  <2> DEFINE I == {i \in 1 .. Len(s) : s[i] = e}
  <2>1. I \in SUBSET Nat /\ I # {}
    BY <1>2
  <2>2. Min(I) \in I /\ \A x \in I : Min(I) <= x
    BY <2>1, MinIsLeast
  <2>3. RemoveFirst(s, e) = SubSeq(s, 1, Min(I) - 1) \o SubSeq(s, Min(I) + 1, Len(s))
    BY <1>2 DEF RemoveFirst, RemoveAt, SelectInSeq
  <2>4. Min(I) \in 1 .. Len(s) /\ s[Min(I)] = e /\ \A i \in 1 .. Min(I) - 1 : s[i] # e
    BY <2>2
  <2>5. QED BY <2>3, <2>4
<1>3. QED BY <1>1, <1>2

\* The result is a sequence over the same set; the empty sequence stays empty.
LEMMA RemoveFirstType ==
  ASSUME NEW S, NEW s \in Seq(S), NEW e
  PROVE  /\ RemoveFirst(s, e) \in Seq(S)
         /\ s = <<>> => RemoveFirst(s, e) = <<>>
<1>1. ASSUME NEW k \in 1 .. Len(s)
      PROVE  SubSeq(s, 1, k - 1) \in Seq(S) /\ SubSeq(s, k + 1, Len(s)) \in Seq(S)
  <2>1. \A i \in 1 .. Len(s) : s[i] \in S
    BY ElementOfSeq
  <2>2. QED BY <2>1, SubSeqProperties
<1>2. RemoveFirst(s, e) \in Seq(S)
  <2>1. CASE \A i \in 1 .. Len(s) : s[i] # e
    BY <2>1, RemoveFirstPlace
  <2>2. CASE ~ \A i \in 1 .. Len(s) : s[i] # e
    <3>1. PICK k \in 1 .. Len(s) :
            RemoveFirst(s, e) = SubSeq(s, 1, k - 1) \o SubSeq(s, k + 1, Len(s))
      BY <2>2, RemoveFirstPlace
    <3>2. QED BY <1>1, <3>1, ConcatProperties
  <2>3. QED BY <2>1, <2>2
<1>3. s = <<>> => RemoveFirst(s, e) = <<>>
  BY DEF RemoveFirst
<1>4. QED BY <1>2, <1>3

LEMMA InToSet ==
  ASSUME NEW S, NEW s \in Seq(S)
  PROVE  /\ Len(s) \in Nat
         /\ \A x : x \in ToSet(s) <=> \E i \in 1 .. Len(s) : s[i] = x
         /\ IsInjective(s) <=> \A i, j \in 1 .. Len(s) : s[i] = s[j] => i = j
BY DEF ToSet, IsInjective

\* r is s without its place k; r is s and one place n for e, the places of s shifted
\* by d.
Cut(s, k, r) ==
  /\ Len(r) = Len(s) - 1
  /\ \A i \in 1 .. Len(s) - 1 : r[i] = IF i < k THEN s[i] ELSE s[i + 1]
Extended(s, r, e, n, d) ==
  /\ r[n] = e /\ n \in 1 .. Len(r)
  /\ \A i \in 1 .. Len(s) : i + d \in 1 .. Len(r) /\ r[i + d] = s[i]
  /\ \A i \in 1 .. Len(r) : i = n \/ i - d \in 1 .. Len(s)

\* Two pieces of a sequence put together again without the place between them.
LEMMA CutPlace ==
  ASSUME NEW S, NEW s \in Seq(S), NEW k \in 1 .. Len(s)
  PROVE  Cut(s, k, SubSeq(s, 1, k - 1) \o SubSeq(s, k + 1, Len(s)))
<1> DEFINE a == SubSeq(s, 1, k - 1)
           b == SubSeq(s, k + 1, Len(s))
           r == a \o b
<1>1. Len(s) \in Nat /\ k \in Nat /\ k <= Len(s) /\ \A i \in 1 .. Len(s) : s[i] \in S
  BY ElementOfSeq
<1>2. /\ a \in Seq(S) /\ Len(a) = k - 1
      /\ \A i \in 1 .. k - 1 : a[i] = s[i]
  BY <1>1, SubSeqProperties
<1>3. /\ b \in Seq(S) /\ Len(b) = Len(s) - k
      /\ \A i \in 1 .. Len(s) - k : b[i] = s[k + i]
  BY <1>1, SubSeqProperties
<1> HIDE DEF a, b
<1>4. /\ Len(r) = Len(a) + Len(b)
      /\ \A i \in 1 .. Len(a) + Len(b) : r[i] = IF i <= Len(a) THEN a[i] ELSE b[i - Len(a)]
  <2>1. a \in Seq(S) /\ b \in Seq(S)
    BY <1>2, <1>3
  <2>2. QED BY <2>1, ConcatProperties
<1> HIDE DEF r
<1>5. Len(r) = Len(s) - 1
  BY <1>1, <1>2, <1>3, <1>4
<1>6. ASSUME NEW i \in 1 .. Len(s) - 1 PROVE r[i] = IF i < k THEN s[i] ELSE s[i + 1]
  <2>1. i \in 1 .. Len(a) + Len(b)
    BY <1>1, <1>2, <1>3
  <2>2. CASE i < k
    <3>1. i \in 1 .. k - 1 /\ i <= Len(a)
      BY <1>1, <1>2, <2>2
    <3>2. QED BY <1>2, <1>4, <2>1, <2>2, <3>1
  <2>3. CASE ~(i < k)
    <3>1. /\ i - (k - 1) \in 1 .. Len(s) - k /\ ~(i <= Len(a)) /\ i - Len(a) = i - (k - 1)
          /\ k + (i - (k - 1)) = i + 1
      BY <1>1, <1>2, <2>3
    <3>2. QED BY <1>3, <1>4, <2>1, <2>3, <3>1
  <2>4. QED BY <2>2, <2>3
<1>7. Cut(s, k, r)
  BY <1>5, <1>6 DEF Cut
<1>8. QED BY <1>7 DEF r, a, b

\* Without one place, a sequence in which no element occurs twice has all its other
\* elements, each once.
LEMMA CutInjective ==
  ASSUME NEW S, NEW s \in Seq(S), NEW k \in 1 .. Len(s), NEW r \in Seq(S), Cut(s, k, r),
         IsInjective(s)
  PROVE  /\ \A x : x \in ToSet(r) <=> x \in ToSet(s) /\ x # s[k]
         /\ IsInjective(r)
<1> DEFINE f(i) == IF i < k THEN i ELSE i + 1
<1>0. \A i, j \in 1 .. Len(s) : s[i] = s[j] => i = j
  BY InToSet
<1>1. Len(s) \in Nat /\ k \in Nat /\ Len(r) = Len(s) - 1
  BY DEF Cut
<1>2. ASSUME NEW i \in 1 .. Len(r)
      PROVE  f(i) \in 1 .. Len(s) /\ r[i] = s[f(i)] /\ f(i) # k
  BY <1>1 DEF Cut
<1>3. ASSUME NEW i \in 1 .. Len(r), NEW j \in 1 .. Len(r), r[i] = r[j] PROVE i = j
  <2>1. f(i) = f(j)
    <3> HIDE DEF f
    <3>1. QED BY <1>0, <1>2, <1>3
  <2>2. QED BY <1>1, <2>1
<1>4. ASSUME NEW x \in ToSet(r) PROVE x \in ToSet(s) /\ x # s[k]
  <2>1. PICK i \in 1 .. Len(r) : r[i] = x
    BY InToSet
  <2> HIDE DEF f
  <2>2. f(i) \in 1 .. Len(s) /\ s[f(i)] = x /\ x # s[k]
    BY <1>0, <1>2, <2>1
  <2>3. QED BY <2>2, InToSet
<1>5. ASSUME NEW x \in ToSet(s), x # s[k] PROVE x \in ToSet(r)
  <2>1. PICK i \in 1 .. Len(s) : s[i] = x
    BY InToSet
  <2>2. \E j \in 1 .. Len(r) : f(j) = i
    <3>1. CASE i < k
      <4>1. i \in 1 .. Len(r) /\ f(i) = i
        BY <1>1, <3>1
      <4>2. QED BY <4>1
    <3>2. CASE i > k
      <4>1. i - 1 \in 1 .. Len(r) /\ f(i - 1) = i
        BY <1>1, <3>2
      <4>2. QED BY <4>1
    <3>3. QED BY <1>1, <1>5, <2>1, <3>1, <3>2
  <2> HIDE DEF f
  <2>3. \E j \in 1 .. Len(r) : r[j] = x
    BY <1>2, <2>1, <2>2
  <2>4. QED BY <2>3, InToSet
<1>6. IsInjective(r)
  BY <1>3, InToSet
<1>7. QED BY <1>4, <1>5, <1>6

\* When no element occurs twice, RemoveFirst takes out the element and nothing else.
LEMMA RemoveFirstInjective ==
  ASSUME NEW S, NEW s \in Seq(S), NEW e, IsInjective(s)
  PROVE  /\ RemoveFirst(s, e) \in Seq(S)
         /\ \A x : x \in ToSet(RemoveFirst(s, e)) <=> x \in ToSet(s) /\ x # e
         /\ IsInjective(RemoveFirst(s, e))
<1>0. RemoveFirst(s, e) \in Seq(S)
  BY RemoveFirstType
<1>1. CASE \A i \in 1 .. Len(s) : s[i] # e
  <2>1. RemoveFirst(s, e) = s
    BY <1>1, RemoveFirstPlace
  <2>2. \A x : x \in ToSet(s) => x # e
    BY <1>1, InToSet
  <2>3. QED BY <1>0, <2>1, <2>2, Zenon
<1>2. CASE ~ \A i \in 1 .. Len(s) : s[i] # e
  <2>1. PICK k \in 1 .. Len(s) :
          s[k] = e /\ RemoveFirst(s, e) = SubSeq(s, 1, k - 1) \o SubSeq(s, k + 1, Len(s))
    BY <1>2, RemoveFirstPlace
  <2>2. Cut(s, k, RemoveFirst(s, e))
    BY <2>1, CutPlace, Zenon
  <2>3. /\ \A x : x \in ToSet(RemoveFirst(s, e)) <=> x \in ToSet(s) /\ x # s[k]
        /\ IsInjective(RemoveFirst(s, e))
    BY <1>0, <2>2, CutInjective
  <2>4. QED BY <1>0, <2>1, <2>3, Zenon
<1>3. QED BY <1>1, <1>2

\* One place more, which holds a new element.
LEMMA ExtendInjective ==
  ASSUME NEW S, NEW s \in Seq(S), NEW r \in Seq(S), NEW e, e \notin ToSet(s),
         IsInjective(s), NEW n, NEW d \in Int, Extended(s, r, e, n, d)
  PROVE  /\ \A x : x \in ToSet(r) <=> x \in ToSet(s) \/ x = e
         /\ IsInjective(r)
<1>1. /\ Len(s) \in Nat /\ Len(r) \in Nat /\ \A i \in 1 .. Len(s) : s[i] # e
      /\ \A i, j \in 1 .. Len(s) : s[i] = s[j] => i = j
  BY InToSet
<1>2. ASSUME NEW i \in 1 .. Len(r), i # n PROVE i - d \in 1 .. Len(s) /\ r[i] = s[i - d]
  <2>1. i - d \in 1 .. Len(s) /\ (i - d) + d = i
    BY <1>1, <1>2 DEF Extended
  <2>2. QED BY <2>1 DEF Extended
<1>3. ASSUME NEW i \in 1 .. Len(r), NEW j \in 1 .. Len(r), r[i] = r[j] PROVE i = j
  <2>1. CASE i = n \/ j = n
    <3>1. \A m \in 1 .. Len(r) : r[m] = e => m = n
      BY <1>1, <1>2
    <3>2. r[n] = e
      BY DEF Extended
    <3>3. QED BY <1>3, <2>1, <3>1, <3>2
  <2>2. CASE i # n /\ j # n
    <3> DEFINE i1 == i - d
               j1 == j - d
    <3>1. i1 \in 1 .. Len(s) /\ j1 \in 1 .. Len(s) /\ s[i1] = s[j1]
      BY <1>2, <1>3, <2>2
    <3> HIDE DEF i1, j1
    <3>2. i1 = j1
      BY <1>1, <3>1
    <3>3. QED BY <1>1, <3>2 DEF i1, j1
  <2>3. QED BY <2>1, <2>2
<1>4. ASSUME NEW x \in ToSet(r) PROVE x \in ToSet(s) \/ x = e
  <2>1. PICK i \in 1 .. Len(r) : r[i] = x
    BY InToSet
  <2>2. CASE i = n
    BY <2>1, <2>2 DEF Extended
  <2>3. CASE i # n
    <3>1. \E j \in 1 .. Len(s) : s[j] = x
      BY <1>2, <2>1, <2>3
    <3>2. QED BY <3>1, InToSet
  <2>4. QED BY <2>2, <2>3
<1>5. ASSUME NEW x \in ToSet(s) PROVE x \in ToSet(r)
  <2>1. PICK i \in 1 .. Len(s) : s[i] = x
    BY InToSet
  <2>2. \E j \in 1 .. Len(r) : r[j] = x
    BY <2>1 DEF Extended
  <2>3. QED BY <2>2, InToSet
<1>6. e \in ToSet(r)
  <2>1. \E j \in 1 .. Len(r) : r[j] = e
    BY DEF Extended
  <2>2. QED BY <2>1, InToSet
<1>7. IsInjective(r)
  BY <1>3, InToSet
<1>8. QED BY <1>4, <1>5, <1>6, <1>7

\* A new element at the end or at the front.
LEMMA AppendNew ==
  ASSUME NEW S, NEW s \in Seq(S), NEW e \in S, e \notin ToSet(s), IsInjective(s)
  PROVE  /\ Append(s, e) \in Seq(S)
         /\ \A x : x \in ToSet(Append(s, e)) <=> x \in ToSet(s) \/ x = e
         /\ IsInjective(Append(s, e))
<1> DEFINE r == Append(s, e)
           n == Len(s) + 1
<1>1. /\ r \in Seq(S) /\ Len(r) = Len(s) + 1 /\ Len(s) \in Nat
      /\ \A i \in 1 .. Len(s) : r[i] = s[i]
      /\ r[Len(s) + 1] = e
  BY AppendProperties
<1> HIDE DEF r
<1>2. Extended(s, r, e, n, 0) /\ 0 \in Int
  BY <1>1 DEF Extended
<1> HIDE DEF n
<1>3. /\ \A x : x \in ToSet(r) <=> x \in ToSet(s) \/ x = e
      /\ IsInjective(r)
  BY <1>1, <1>2, ExtendInjective
<1>4. QED BY <1>1, <1>3 DEF r

LEMMA PrependNew ==
  ASSUME NEW S, NEW s \in Seq(S), NEW e \in S, e \notin ToSet(s), IsInjective(s)
  PROVE  /\ <<e>> \o s \in Seq(S)
         /\ \A x : x \in ToSet(<<e>> \o s) <=> x \in ToSet(s) \/ x = e
         /\ IsInjective(<<e>> \o s)
<1> DEFINE r == <<e>> \o s
<1>1. /\ r \in Seq(S) /\ Len(r) = Len(s) + 1 /\ Len(s) \in Nat
      /\ \A i \in 1 .. Len(s) : r[i + 1] = s[i]
      /\ r[1] = e
  OBVIOUS
<1> HIDE DEF r
<1>2. Extended(s, r, e, 1, 1) /\ 1 \in Int
  BY <1>1 DEF Extended
<1>3. /\ \A x : x \in ToSet(r) <=> x \in ToSet(s) \/ x = e
      /\ IsInjective(r)
  BY <1>1, <1>2, ExtendInjective
<1>4. QED BY <1>1, <1>3 DEF r

--------------------------------------------------------------------------------
(* Recursive functions on numbers. *)

\* A set of numbers that holds 0, and with each number below n the next, holds n.
LEMMA UpTo ==
  ASSUME NEW n \in Nat, NEW P, 0 \in P, \A i \in 0 .. n : i < n /\ i \in P => i + 1 \in P
  PROVE  \A i \in 0 .. n : i \in P
<1> DEFINE B == {i \in 0 .. n : i \notin P}
<1>1. SUFFICES ASSUME B # {} PROVE FALSE
  OBVIOUS
<1>2. B \in SUBSET Nat
  OBVIOUS
<1>3. PICK m \in B : \A x \in B : m <= x
  BY <1>1, <1>2, MinIsLeast, Zenon
<1>4. m # 0 /\ m \in 1 .. n
  BY <1>3
<1>5. m - 1 \in 0 .. n /\ m - 1 < n /\ m - 1 \notin B /\ (m - 1) + 1 = m
  BY <1>3, <1>4
<1>6. QED BY <1>3, <1>5

\* A function may be defined by its first value and, from each value, the next.
Iterates(n, x0, F, f) == \A i \in 0 .. n : f[i] = IF i = 0 THEN x0 ELSE F[i][f[i - 1]]

LEMMA Iterate ==
  ASSUME NEW n \in Nat, NEW X, NEW x0 \in X, NEW F \in [1 .. n -> [X -> X]]
  PROVE  \E f \in [0 .. n -> X] : Iterates(n, x0, F, f)
<1> DEFINE G(m, f) == Iterates(m, x0, F, f)
           P == {m \in Nat : \E f \in [0 .. m -> X] : G(m, f)}
<1>1. 0 \in P
  <2>1. [i \in 0 .. 0 |-> x0] \in [0 .. 0 -> X] /\ G(0, [i \in 0 .. 0 |-> x0])
    BY DEF Iterates
  <2>2. QED BY <2>1
<1>2. ASSUME NEW m \in 0 .. n, m < n, m \in P PROVE m + 1 \in P
  <2>1. PICK f \in [0 .. m -> X] : G(m, f)
    BY <1>2
  <2>2. m \in 0 .. m /\ m + 1 \in 1 .. n /\ m + 1 \in Nat
    BY <1>2
  <2>3. f[m] \in X /\ F[m + 1][f[m]] \in X
    BY <2>2
  <2> DEFINE g == [i \in 0 .. m + 1 |-> IF i = m + 1 THEN F[m + 1][f[m]] ELSE f[i]]
  <2>4. g \in [0 .. m + 1 -> X]
    <3>1. \A i \in 0 .. m + 1 : i # m + 1 => i \in 0 .. m
      BY <2>2
    <3>2. QED BY <2>3, <3>1
  <2>5. ASSUME NEW i \in 0 .. m + 1 PROVE g[i] = IF i = 0 THEN x0 ELSE F[i][g[i - 1]]
    <3>1. CASE i = m + 1
      <4>1. g[m + 1] = F[m + 1][f[m]] /\ g[m] = f[m] /\ i - 1 = m /\ i # 0
        BY <2>2, <3>1
      <4>2. QED BY ONLY <3>1, <4>1
    <3>2. CASE i # m + 1
      <4>1. i \in 0 .. m /\ g[i] = f[i] /\ (i # 0 => g[i - 1] = f[i - 1])
        BY <2>2, <3>2
      <4>2. f[i] = IF i = 0 THEN x0 ELSE F[i][f[i - 1]]
        BY <2>1, <4>1 DEF Iterates
      <4>3. QED BY ONLY <4>1, <4>2
    <3>3. QED BY <3>1, <3>2
  <2>6. G(m + 1, g)
    BY <2>5 DEF Iterates
  <2> HIDE DEF g
  <2>7. QED BY <2>2, <2>4, <2>6
<1> HIDE DEF P
<1>3. \A i \in 0 .. n : i \in P
  BY <1>1, <1>2, UpTo
<1>4. n \in P
  BY <1>3
<1>5. QED BY <1>4 DEF P
================================================================================
