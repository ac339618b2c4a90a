--------------------------- MODULE HandleTableProofs ---------------------------
(******************************************************************************)
(* Theorems about HandleTable for every number of slots and generations.      *)
(*                                                                            *)
(* FreeListComplete is inductive together with TypeOK: TypeOK alone cannot    *)
(* rule out a free list that runs into a live slot, and it is the exact       *)
(* correspondence between the list and the empty slots that makes Create take *)
(* an empty slot and Close put back a slot that is not yet listed.            *)
(* StaleHandlesInvalid needs the generations of the remembered handles: they  *)
(* are the values next_generation had last, no two of them equal.             *)
(******************************************************************************)
EXTENDS HandleTable, FiniteSetTheorems, TLAPS

Inv == TypeOK /\ FreeListComplete

\* The generation handed out k creations before the one that gets generation g:
\* the counter wraps past 1 to GEN_LIMIT - 1.
Earlier(g, k) == IF g - k >= 1 THEN g - k ELSE g - k + (GEN_LIMIT - 1)

\* The remembered handles carry consecutive generations that lead up to
\* next_generation; there are too few of them for a generation to repeat.
RecentOK ==
  /\ recent \in Seq([slot : Slot, generation : 1 .. GEN_LIMIT - 1])
  /\ Len(recent) <= GEN_LIMIT - 1
  /\ \A i \in 1 .. Len(recent) :
       recent[i].generation = Earlier(next_generation, Len(recent) + 1 - i)
  /\ \A h \in stale : \E i \in 1 .. Len(recent) : h = recent[i]

StaleInv == Inv /\ RecentOK /\ StaleHandlesInvalid

\* What HandleTable::Clear leaves behind.
Cleared ==
  /\ generations = [s \in Slot |-> s + 1]
  /\ objects = [s \in Slot |-> NoObject]
  /\ next_free_slot = 0
  /\ next_generation \in 1 .. GEN_LIMIT - 1

\* The list that HandleTable::Clear (and the constructor) builds links the slots
\* in increasing order and holds all of them.
LEMMA ClearedList == Cleared => Inv
<1> SUFFICES ASSUME Cleared PROVE Inv
  OBVIOUS
<1> USE DEF Cleared
<1>1. TypeOK
  BY CountAssumption DEF TypeOK, Slot
<1> DEFINE c == [i \in 1 .. MAX_COUNT |-> i - 1]
<1>2. c \in [1 .. MAX_COUNT -> Slot]
  BY CountAssumption DEF Slot
<1>3. {c[i] : i \in 1 .. MAX_COUNT} = FreeSlots
  <2>1. FreeSlots = Slot
    BY DEF FreeSlots
  <2>2. ASSUME NEW s \in Slot PROVE \E i \in 1 .. MAX_COUNT : s = c[i]
    <3>1. s + 1 \in 1 .. MAX_COUNT /\ c[s + 1] = s
      BY CountAssumption DEF Slot
    <3>2. QED BY <3>1
  <2>3. QED BY <1>2, <2>1, <2>2
<1>4. IsFreeList(MAX_COUNT, c)
  <2>1. \A i, j \in 1 .. MAX_COUNT : c[i] = c[j] => i = j
    BY CountAssumption
  <2>2. next_free_slot = IF MAX_COUNT = 0 THEN MAX_COUNT ELSE c[1]
    BY CountAssumption
  <2>3. \A i \in 1 .. MAX_COUNT :
          generations[c[i]] = IF i = MAX_COUNT THEN MAX_COUNT ELSE c[i + 1]
    BY CountAssumption, <1>2 DEF Slot
  <2>4. QED BY <1>3, <2>1, <2>2, <2>3 DEF IsFreeList
<1>5. FreeListComplete
  BY <1>2, <1>4, CountAssumption DEF FreeListComplete
<1>6. QED BY <1>1, <1>5 DEF Inv

\* HandleTable::Create pops the head of the free list.
LEMMA CreateInv ==
  ASSUME Inv, NEW obj \in Object, Create(obj)
  PROVE  Inv'
<1>1. CASE next_free_slot >= MAX_COUNT
  <2>1. UNCHANGED vars
    BY <1>1, CountAssumption DEF Create, Inv, TypeOK
  <2>2. QED
    BY <2>1 DEF Inv, TypeOK, FreeListComplete, IsFreeList, FreeSlots, vars
<1>2. CASE next_free_slot < MAX_COUNT
  <2> DEFINE h == next_free_slot
  <2>1. /\ next_free_slot' = generations[h]
        /\ next_generation' = NextGeneration(next_generation)
        /\ generations' = [generations EXCEPT ![h] = next_generation]
        /\ objects' = [objects EXCEPT ![h] = obj]
    BY <1>2, CountAssumption DEF Create, Inv, TypeOK
  <2>2. PICK n \in 0 .. MAX_COUNT : \E c \in [1 .. n -> Slot] : IsFreeList(n, c)
    BY DEF Inv, FreeListComplete
  <2>3. PICK c \in [1 .. n -> Slot] : IsFreeList(n, c)
    BY <2>2
  <2>4. n > 0 /\ h = c[1] /\ h \in Slot
    BY <1>2, <2>3, CountAssumption DEF IsFreeList, Slot
  <2>5. objects[h] = NoObject
    BY <2>3, <2>4 DEF IsFreeList, FreeSlots
  <2>6. next_generation' \in 1 .. GEN_LIMIT - 1
    BY <2>1, CountAssumption DEF Inv, TypeOK, NextGeneration
  <2>7. TypeOK'
    BY <2>1, <2>4, <2>5, <2>6, CountAssumption, ObjectAssumption DEF Inv, TypeOK
  <2> DEFINE d == [i \in 1 .. n - 1 |-> c[i + 1]]
  <2>8. d \in [1 .. n - 1 -> Slot] /\ n - 1 \in 0 .. MAX_COUNT
    BY <2>3, <2>4, CountAssumption
  <2>9. FreeSlots' = FreeSlots \ {h}
    BY <2>1, <2>4, ObjectAssumption DEF Inv, TypeOK, FreeSlots
  <2>10. {d[i] : i \in 1 .. n - 1} = FreeSlots \ {h}
    <3>1. ASSUME NEW i \in 1 .. n - 1 PROVE d[i] \in FreeSlots \ {h}
      BY <2>3, <2>4 DEF IsFreeList
    <3>2. ASSUME NEW s \in FreeSlots \ {h} PROVE \E i \in 1 .. n - 1 : s = d[i]
      <4>1. PICK j \in 1 .. n : s = c[j]
        BY <2>3 DEF IsFreeList
      <4>2. j # 1
        BY <4>1, <2>4
      <4>3. j - 1 \in 1 .. n - 1 /\ d[j - 1] = s
        BY <4>1, <4>2
      <4>4. QED BY <4>3
    <3>3. QED BY <3>1, <3>2
  <2>11. \A i, j \in 1 .. n - 1 : d[i] = d[j] => i = j
    BY <2>3 DEF IsFreeList
  <2>12. next_free_slot' = IF n - 1 = 0 THEN MAX_COUNT ELSE d[1]
    BY <2>1, <2>3, <2>4 DEF IsFreeList
  <2>13. \A i \in 1 .. n - 1 :
            generations'[d[i]] = IF i = n - 1 THEN MAX_COUNT ELSE d[i + 1]
    BY <2>1, <2>3, <2>4, <2>8 DEF IsFreeList, Inv, TypeOK
  <2>14. IsFreeList(n - 1, d)'
    BY <2>9, <2>10, <2>11, <2>12, <2>13 DEF IsFreeList
  <2>15. FreeListComplete'
    BY <2>8, <2>14 DEF FreeListComplete
  <2>16. QED BY <2>7, <2>15 DEF Inv
<1>3. QED BY <1>1, <1>2, CountAssumption DEF Inv, TypeOK

\* A list of distinct slots that misses one slot is shorter than the table: there
\* is room for the slot that HandleTable::Close pushes.
LEMMA FullList ==
  ASSUME NEW n \in 0 .. MAX_COUNT, NEW c \in [1 .. n -> Slot], NEW s \in Slot,
         \A i, j \in 1 .. n : c[i] = c[j] => i = j,
         \A i \in 1 .. n : c[i] # s
  PROVE  n + 1 \in 0 .. MAX_COUNT
<1>1. IsFiniteSet(1 .. n) /\ Cardinality(1 .. n) = n
  BY FS_Interval, CountAssumption
<1>2. IsFiniteSet(Slot) /\ Cardinality(Slot) = MAX_COUNT
  BY FS_Interval, CountAssumption DEF Slot
<1>3. IsFiniteSet(Slot \ {s}) /\ Cardinality(Slot \ {s}) = MAX_COUNT - 1
  BY <1>2, FS_RemoveElement
<1>4. c \in [1 .. n -> Slot \ {s}]
  OBVIOUS
<1>5. ~(MAX_COUNT - 1 < n)
  BY <1>1, <1>3, <1>4, FS_PigeonHole
<1>6. QED BY <1>5, CountAssumption

\* HandleTable::Close pushes the slot of a valid handle, which is not on the list.
LEMMA CloseInv ==
  ASSUME Inv, NEW handle \in Handle, Close(handle)
  PROVE  Inv'
<1>1. CASE ~IsValid(handle)
  <2>1. UNCHANGED vars
    BY <1>1 DEF Close
  <2>2. QED
    BY <2>1 DEF Inv, TypeOK, FreeListComplete, IsFreeList, FreeSlots, vars
<1>2. CASE IsValid(handle)
  <2> DEFINE s == GetSlot(handle)
  <2>1. /\ objects' = [objects EXCEPT ![s] = NoObject]
        /\ generations' = [generations EXCEPT ![s] = next_free_slot]
        /\ next_free_slot' = s
        /\ next_generation' = next_generation
    BY <1>2 DEF Close
  <2>2. s \in Slot /\ objects[s] # NoObject
    <3>1. handle.slot \in Nat
      BY CountAssumption DEF Handle
    <3>2. s \in Nat
      BY <3>1, CountAssumption DEF GetSlot
    <3>3. s < MAX_COUNT /\ objects[s] # NoObject
      BY <1>2 DEF IsValid
    <3>4. QED BY <3>2, <3>3, CountAssumption DEF Slot
  <2> HIDE DEF s
  <2>3. TypeOK'
    BY <2>1, <2>2, CountAssumption, ObjectAssumption DEF Inv, TypeOK, Slot
  <2>4. PICK n \in 0 .. MAX_COUNT : \E c \in [1 .. n -> Slot] : IsFreeList(n, c)
    BY DEF Inv, FreeListComplete
  <2>5. PICK c \in [1 .. n -> Slot] : IsFreeList(n, c)
    BY <2>4
  <2>6. \A i \in 1 .. n : c[i] # s
    BY <2>2, <2>5 DEF IsFreeList, FreeSlots
  <2>7. n + 1 \in 0 .. MAX_COUNT
    BY <2>2, <2>5, <2>6, FullList DEF IsFreeList
  <2> DEFINE d == [i \in 1 .. n + 1 |-> IF i = 1 THEN s ELSE c[i - 1]]
  <2>8. d \in [1 .. n + 1 -> Slot]
    BY <2>2, <2>5
  <2>9. FreeSlots' = FreeSlots \cup {s}
    BY <2>1, <2>2 DEF Inv, TypeOK, FreeSlots
  <2>10. {d[i] : i \in 1 .. n + 1} = FreeSlots \cup {s}
    <3>1. ASSUME NEW i \in 1 .. n + 1 PROVE d[i] \in FreeSlots \cup {s}
      <4>1. CASE i = 1
        BY <4>1
      <4>2. CASE i # 1
        <5>1. i - 1 \in 1 .. n /\ d[i] = c[i - 1]
          BY <4>2
        <5>2. QED BY <5>1, <2>5 DEF IsFreeList
      <4>3. QED BY <4>1, <4>2
    <3>2. ASSUME NEW t \in FreeSlots \cup {s} PROVE \E i \in 1 .. n + 1 : t = d[i]
      <4>1. CASE t = s
        <5>1. 1 \in 1 .. n + 1 /\ d[1] = s
          OBVIOUS
        <5>2. QED BY <4>1, <5>1
      <4>2. CASE t \in FreeSlots
        <5>1. PICK j \in 1 .. n : t = c[j]
          BY <4>2, <2>5 DEF IsFreeList
        <5>2. j + 1 \in 1 .. n + 1 /\ d[j + 1] = t
          BY <5>1
        <5>3. QED BY <5>2
      <4>3. QED BY <4>1, <4>2
    <3> HIDE DEF d
    <3>3. QED BY <3>1, <3>2
  <2>11. \A i, j \in 1 .. n + 1 : d[i] = d[j] => i = j
    BY <2>5, <2>6 DEF IsFreeList
  <2>12. next_free_slot' = IF n + 1 = 0 THEN MAX_COUNT ELSE d[1]
    BY <2>1
  <2>13. \A i \in 1 .. n + 1 :
            generations'[d[i]] = IF i = n + 1 THEN MAX_COUNT ELSE d[i + 1]
    BY <2>1, <2>2, <2>5, <2>6, <2>8 DEF IsFreeList, Inv, TypeOK
  <2>14. IsFreeList(n + 1, d)'
    BY <2>9, <2>10, <2>11, <2>12, <2>13 DEF IsFreeList
  <2>15. FreeListComplete'
    BY <2>7, <2>8, <2>14 DEF FreeListComplete
  <2>16. QED BY <2>3, <2>15 DEF Inv
<1>3. QED BY <1>1, <1>2

\* What a lookup finds is a kernel object.
LEMMA LookedUp ==
  ASSUME Inv, NEW handle \in Handle, GetGeneric(handle) # NoObject
  PROVE  GetGeneric(handle) \in Object
<1>1. ASSUME IsValid(handle) PROVE GetSlot(handle) \in Slot
  <2>1. handle.slot \in Nat
    BY CountAssumption DEF Handle
  <2>2. QED BY <1>1, <2>1, CountAssumption DEF IsValid, GetSlot, Slot
<1>2. QED
  BY <1>1, ObjectAssumption DEF GetGeneric, Inv, TypeOK

\* HandleTable::Duplicate is a lookup followed by Create.
LEMMA DuplicateInv ==
  ASSUME Inv, NEW handle \in Handle, Duplicate(handle)
  PROVE  Inv'
<1>1. CASE GetGeneric(handle) = NoObject
  <2>1. UNCHANGED vars
    BY <1>1 DEF Duplicate
  <2>2. QED
    BY <2>1 DEF Inv, TypeOK, FreeListComplete, IsFreeList, FreeSlots, vars
<1>2. CASE GetGeneric(handle) # NoObject
  BY <1>2, LookedUp, CreateInv DEF Duplicate
<1>3. QED BY <1>1, <1>2

LEMMA InitInv == Init => Inv
BY ClearedList, CountAssumption DEF Init, Cleared

LEMMA NextInv == Inv /\ [Next]_vars => Inv'
<1> SUFFICES ASSUME Inv, [Next]_vars PROVE Inv'
  OBVIOUS
<1>1. ASSUME NEW obj \in Object, Create(obj) PROVE Inv'
  BY <1>1, CreateInv
<1>2. ASSUME NEW handle \in Handle, Duplicate(handle) PROVE Inv'
  BY <1>2, DuplicateInv
<1>3. ASSUME NEW handle \in Handle, Close(handle) PROVE Inv'
  BY <1>3, CloseInv
<1>4. CASE Clear
  <2>1. Cleared'
    BY <1>4 DEF Clear, Cleared, Inv, TypeOK, Slot
  <2>2. Cleared' => Inv'
    BY ClearedList, PTL
  <2>3. QED BY <2>1, <2>2
<1>5. CASE UNCHANGED vars
  BY <1>5, Zenon DEF Inv, TypeOK, FreeListComplete, IsFreeList, FreeSlots, vars
<1>6. QED BY <1>1, <1>2, <1>3, <1>4, <1>5 DEF Next

\* The members of the table keep their types, whatever the guest passes as a
\* handle.
THEOREM TypeCorrect == Spec => []TypeOK
<1>1. Inv => TypeOK
  BY DEF Inv
<1>2. QED BY InitInv, NextInv, <1>1, PTL DEF Spec

\* No sequence of Create, Duplicate, Close and Clear loses a slot or lists one
\* twice, for any number of slots: Create fails only on a full table.
THEOREM FreeListCorrect == Spec => []FreeListComplete
<1>1. Inv => FreeListComplete
  BY DEF Inv
<1>2. QED BY InitInv, NextInv, <1>1, PTL DEF Spec

\* Create takes a slot from the free list, hence an empty one: the object behind
\* a live handle is never replaced, for any number of slots.
THEOREM NeverOverwrites == Spec => NoOverwrite
<1> DEFINE Keep == \A s \in Slot : objects[s] # NoObject =>
                                    objects'[s] \in {objects[s], NoObject}
<1>1. ASSUME Inv, [Next]_vars PROVE [Keep]_vars
  <2>1. ASSUME NEW obj, Create(obj) PROVE [Keep]_vars
    <3>1. CASE UNCHANGED vars
      BY <3>1
    <3>2. CASE next_free_slot < MAX_COUNT /\ objects' = [objects EXCEPT ![next_free_slot] = obj]
      <4>1. PICK n \in 0 .. MAX_COUNT : \E c \in [1 .. n -> Slot] : IsFreeList(n, c)
        BY <1>1 DEF Inv, FreeListComplete
      <4>2. PICK c \in [1 .. n -> Slot] : IsFreeList(n, c)
        BY <4>1
      <4>3. next_free_slot \in FreeSlots
        BY <3>2, <4>2, CountAssumption DEF IsFreeList
      <4>4. QED
        BY <1>1, <3>2, <4>3 DEF Inv, TypeOK, FreeSlots
    <3>3. QED BY <2>1, <3>1, <3>2 DEF Create
  <2>2. ASSUME NEW handle \in Handle, Duplicate(handle) PROVE [Keep]_vars
    BY <2>1, <2>2 DEF Duplicate
  <2>3. ASSUME NEW handle \in Handle, Close(handle) PROVE [Keep]_vars
    <3>1. CASE UNCHANGED vars
      BY <3>1
    <3>2. CASE objects' = [objects EXCEPT ![GetSlot(handle)] = NoObject]
      BY <1>1, <3>2 DEF Inv, TypeOK
    <3>3. QED BY <2>3, <3>1, <3>2 DEF Close
  <2>4. CASE Clear
    BY <2>4 DEF Clear
  <2>5. QED BY <1>1, <2>1, <2>2, <2>3, <2>4 DEF Next
<1>2. QED BY InitInv, NextInv, <1>1, PTL DEF Spec, NoOverwrite

\* A remembered handle names its slot in the low bits of its slot field.
LEMMA RecentSlot ==
  ASSUME RecentOK, NEW i \in 1 .. Len(recent)
  PROVE  /\ recent[i].slot \in Slot
         /\ recent[i].generation \in 1 .. GEN_LIMIT - 1
         /\ GetSlot(recent[i]) = recent[i].slot
<1>1. recent[i] \in [slot : Slot, generation : 1 .. GEN_LIMIT - 1]
  <2> DEFINE Pair == [slot : Slot, generation : 1 .. GEN_LIMIT - 1]
  <2>1. recent \in Seq(Pair)
    BY DEF RecentOK
  <2> HIDE DEF Pair
  <2>2. recent[i] \in Pair
    BY <2>1
  <2>3. QED BY <2>2 DEF Pair
<1>2. recent[i].slot \in Slot /\ recent[i].generation \in 1 .. GEN_LIMIT - 1
  BY <1>1
<1>3. recent[i].slot \in Nat /\ recent[i].slot < U16
  BY <1>2, CountAssumption DEF Slot
<1>4. QED BY <1>2, <1>3, CountAssumption DEF GetSlot

\* HandleTable::Create uses a generation that none of the other remembered handles
\* has, so the slot it fills does not revive a closed one.
LEMMA CreateStale ==
  ASSUME StaleInv, NEW obj \in Object, Create(obj)
  PROVE  RecentOK' /\ StaleHandlesInvalid'
<1>1. CASE next_free_slot >= MAX_COUNT
  <2>1. UNCHANGED vars
    BY <1>1, CountAssumption DEF Create, StaleInv, Inv, TypeOK
  <2>2. QED
    BY <2>1 DEF StaleInv, RecentOK, StaleHandlesInvalid, IsValid, vars
<1>2. CASE next_free_slot < MAX_COUNT
  <2> DEFINE new    == [slot |-> next_free_slot, generation |-> next_generation]
             longer == Append(recent, new)
             kept   == IF Len(longer) < GEN_LIMIT THEN longer ELSE Tail(longer)
             shift  == IF Len(longer) < GEN_LIMIT THEN 0 ELSE 1
             Pair   == [slot : Slot, generation : 1 .. GEN_LIMIT - 1]
  <2>1. /\ next_generation' = NextGeneration(next_generation)
        /\ generations' = [generations EXCEPT ![next_free_slot] = next_generation]
        /\ objects' = [objects EXCEPT ![next_free_slot] = obj]
        /\ recent' = kept
        /\ stale' = {h \in stale : \E i \in 1 .. Len(kept) - 1 : kept[i] = h}
    <3>1. ~(next_free_slot >= MAX_COUNT)
      BY <1>2, CountAssumption DEF StaleInv, Inv, TypeOK
    <3>2. Remember(new)
      BY <3>1 DEF Create
    <3>3. recent' = kept /\ stale' = {h \in stale : \E i \in 1 .. Len(kept) - 1 : kept[i] = h}
      BY <3>2, Zenon DEF Remember
    <3>4. QED BY <3>1, <3>3 DEF Create
  <2>2. /\ next_free_slot \in Slot
        /\ next_generation \in 1 .. GEN_LIMIT - 1
        /\ GEN_LIMIT \in Nat /\ GEN_LIMIT > 2
        /\ generations \in [Slot -> Nat]
    BY <1>2, CountAssumption DEF StaleInv, Inv, TypeOK, Slot
  <2>3. new \in Pair /\ new.generation = next_generation
    BY <2>2
  <2>4. /\ recent \in Seq(Pair) /\ Len(recent) \in Nat /\ Len(recent) <= GEN_LIMIT - 1
        /\ \A i \in 1 .. Len(recent) :
             recent[i].generation = Earlier(next_generation, Len(recent) + 1 - i)
    BY DEF StaleInv, RecentOK
  <2>5. /\ longer \in Seq(Pair) /\ Len(longer) = Len(recent) + 1
        /\ longer[Len(recent) + 1] = new
        /\ \A i \in 1 .. Len(recent) : longer[i] = recent[i]
    <3> HIDE DEF new, Pair
    <3>1. QED BY <2>3, <2>4
  <2>6. /\ kept \in Seq(Pair)
        /\ Len(kept) = Len(longer) - shift
        /\ \A i \in 1 .. Len(kept) : kept[i] = longer[i + shift]
    <3> HIDE DEF new, Pair, longer
    <3>1. CASE Len(longer) < GEN_LIMIT
      BY <3>1, <2>5, <2>4
    <3>2. CASE ~(Len(longer) < GEN_LIMIT)
      <4>1. longer # <<>>
        BY <2>5, <2>4
      <4>2. /\ Tail(longer) \in Seq(Pair) /\ Len(Tail(longer)) = Len(longer) - 1
            /\ \A i \in 1 .. Len(Tail(longer)) : Tail(longer)[i] = longer[i + 1]
        BY <4>1, <2>5, <2>4
      <4>3. QED BY <3>2, <4>2
    <3>3. QED BY <3>1, <3>2
  <2>7. Len(kept) <= GEN_LIMIT - 1 /\ Len(kept) \in Nat /\ Len(kept) >= 1
    <3> HIDE DEF new, Pair, longer, kept
    <3>1. QED BY <2>2, <2>4, <2>5, <2>6
  <2> HIDE DEF new, Pair, longer, kept
  <2>8. ASSUME NEW i \in 1 .. Len(kept) - 1
        PROVE  /\ kept[i].generation # next_generation
               /\ kept[i].generation = Earlier(next_generation, Len(kept) - i)
    <3>1. i + shift \in 1 .. Len(recent) /\ Len(recent) + 1 - (i + shift) = Len(kept) - i
      BY <2>4, <2>5, <2>6, <2>7
    <3>2. kept[i] = recent[i + shift]
      BY <3>1, <2>5, <2>6
    <3>3. kept[i].generation = Earlier(next_generation, Len(kept) - i)
      BY <3>1, <3>2, <2>4
    <3>4. Len(kept) - i \in 1 .. GEN_LIMIT - 2
      BY <2>7, <2>2
    <3>5. QED BY <3>3, <3>4, <2>2 DEF Earlier
  <2>9. kept[Len(kept)] = new
    BY <2>4, <2>5, <2>6, <2>7
  <2>10. ASSUME NEW i \in 1 .. Len(kept)
         PROVE  kept[i].generation = Earlier(next_generation', Len(kept) + 1 - i)
    <3>1. CASE i = Len(kept)
      <4>1. kept[i].generation = next_generation
        BY <3>1, <2>9, <2>3
      <4>2. Len(kept) + 1 - i = 1
        BY <3>1, <2>7
      <4>3. Earlier(next_generation', 1) = next_generation
        BY <2>1, <2>2 DEF Earlier, NextGeneration
      <4>4. QED BY <4>1, <4>2, <4>3
    <3>2. CASE i # Len(kept)
      <4>1. i \in 1 .. Len(kept) - 1
        BY <3>2, <2>7
      <4>2. kept[i].generation = Earlier(next_generation, Len(kept) - i)
        BY <4>1, <2>8
      <4>3. Len(kept) - i \in 1 .. GEN_LIMIT - 2 /\ Len(kept) + 1 - i = (Len(kept) - i) + 1
        BY <4>1, <2>7, <2>2
      <4>4. ASSUME NEW k \in 1 .. GEN_LIMIT - 2
            PROVE  Earlier(next_generation', k + 1) = Earlier(next_generation, k)
        BY <2>1, <2>2 DEF Earlier, NextGeneration
      <4>5. QED BY <4>2, <4>3, <4>4
    <3>3. QED BY <3>1, <3>2
  <2>11. \A h \in stale' : \E i \in 1 .. Len(kept) : h = kept[i]
    BY <2>1, <2>7
  <2>12. RecentOK'
    BY <2>1, <2>6, <2>7, <2>10, <2>11 DEF RecentOK, Pair
  <2>13. ASSUME NEW h \in stale' PROVE ~IsValid(h)'
    <3>1. h \in stale
      BY <2>1
    <3>2. PICK i \in 1 .. Len(kept) - 1 : kept[i] = h
      BY <2>1
    <3>3. ~IsValid(h)
      BY <3>1 DEF StaleInv, StaleHandlesInvalid
    <3>4. h.generation # next_generation
      BY <3>2, <2>8
    <3>5. PICK j \in 1 .. Len(recent) : h = recent[j]
      BY <3>1 DEF StaleInv, RecentOK
    <3>6. GetSlot(h) \in Slot
      BY <3>5, RecentSlot DEF StaleInv
    <3>7. CASE GetSlot(h) = next_free_slot
      <4>1. generations'[GetSlot(h)] = next_generation
        BY <3>7, <2>1, <2>2
      <4>2. QED BY <4>1, <3>4 DEF IsValid
    <3>8. CASE GetSlot(h) # next_free_slot
      <4>1. /\ generations'[GetSlot(h)] = generations[GetSlot(h)]
            /\ objects'[GetSlot(h)] = objects[GetSlot(h)]
        BY <3>6, <3>8, <2>1, <2>2 DEF StaleInv, Inv, TypeOK
      <4>2. QED BY <4>1, <3>3 DEF IsValid
    <3>9. QED BY <3>7, <3>8
  <2>14. QED BY <2>12, <2>13 DEF StaleHandlesInvalid
<1>3. QED BY <1>1, <1>2, CountAssumption DEF StaleInv, Inv, TypeOK

\* HandleTable::Close empties the slot of every handle it makes stale.
LEMMA CloseStale ==
  ASSUME StaleInv, NEW handle \in Handle, Close(handle)
  PROVE  RecentOK' /\ StaleHandlesInvalid'
<1>1. CASE ~IsValid(handle)
  <2>1. UNCHANGED vars
    BY <1>1 DEF Close
  <2>2. QED
    BY <2>1 DEF StaleInv, RecentOK, StaleHandlesInvalid, IsValid, vars
<1>2. CASE IsValid(handle)
  <2> DEFINE s == GetSlot(handle)
  <2>1. /\ objects' = [objects EXCEPT ![s] = NoObject]
        /\ generations' = [generations EXCEPT ![s] = next_free_slot]
        /\ next_generation' = next_generation /\ recent' = recent
        /\ stale' = stale \cup {h \in {recent[i] : i \in 1 .. Len(recent)} :
                                  GetSlot(h) = s /\ h.generation = handle.generation}
    BY <1>2 DEF Close
  <2> HIDE DEF s
  <2>2. RecentOK'
    BY <2>1 DEF StaleInv, RecentOK
  <2>3. ASSUME NEW h \in stale' PROVE ~IsValid(h)'
    <3>1. PICK i \in 1 .. Len(recent) : h = recent[i]
      BY <2>1, <2>2 DEF RecentOK
    <3>2. GetSlot(h) \in Slot
      BY <3>1, RecentSlot DEF StaleInv
    <3>3. CASE GetSlot(h) = s
      <4>1. objects'[GetSlot(h)] = NoObject
        BY <3>2, <3>3, <2>1 DEF StaleInv, Inv, TypeOK
      <4>2. QED BY <4>1 DEF IsValid
    <3>4. CASE GetSlot(h) # s
      <4>1. h \in stale
        BY <3>4, <2>1
      <4>2. ~IsValid(h)
        BY <4>1 DEF StaleInv, StaleHandlesInvalid
      <4>3. /\ generations'[GetSlot(h)] = generations[GetSlot(h)]
            /\ objects'[GetSlot(h)] = objects[GetSlot(h)]
        BY <3>2, <3>4, <2>1 DEF StaleInv, Inv, TypeOK
      <4>4. QED BY <4>2, <4>3 DEF IsValid
    <3>5. QED BY <3>3, <3>4
  <2>4. QED BY <2>2, <2>3 DEF StaleHandlesInvalid
<1>3. QED BY <1>1, <1>2

LEMMA InitStale == Init => StaleInv
<1> SUFFICES ASSUME Init PROVE StaleInv
  OBVIOUS
<1>1. RecentOK
  BY CountAssumption DEF Init, RecentOK
<1>2. QED BY <1>1, InitInv DEF StaleInv, StaleHandlesInvalid, Init

LEMMA NextStale == StaleInv /\ [Next]_vars => StaleInv'
<1> SUFFICES ASSUME StaleInv, [Next]_vars PROVE RecentOK' /\ StaleHandlesInvalid'
  BY NextInv DEF StaleInv
<1>1. ASSUME NEW obj \in Object, Create(obj) PROVE RecentOK' /\ StaleHandlesInvalid'
  BY <1>1, CreateStale
<1>2. ASSUME NEW handle \in Handle, Duplicate(handle)
      PROVE  RecentOK' /\ StaleHandlesInvalid'
  <2>1. CASE UNCHANGED vars
    BY <2>1 DEF StaleInv, RecentOK, StaleHandlesInvalid, IsValid, vars
  <2>2. CASE GetGeneric(handle) # NoObject /\ Create(GetGeneric(handle))
    BY <2>2, LookedUp, CreateStale DEF StaleInv
  <2>3. QED BY <1>2, <2>1, <2>2 DEF Duplicate
<1>3. ASSUME NEW handle \in Handle, Close(handle) PROVE RecentOK' /\ StaleHandlesInvalid'
  BY <1>3, CloseStale
<1>4. CASE Clear
  <2>1. objects' = [s \in Slot |-> NoObject] /\ recent' = recent
        /\ next_generation' = next_generation
        /\ stale' = {recent[i] : i \in 1 .. Len(recent)}
    BY <1>4 DEF Clear
  <2>2. RecentOK'
    BY <2>1 DEF StaleInv, RecentOK
  <2>3. ASSUME NEW h \in stale' PROVE ~IsValid(h)'
    <3>1. PICK i \in 1 .. Len(recent) : h = recent[i]
      BY <2>1
    <3>2. GetSlot(h) \in Slot
      BY <3>1, RecentSlot DEF StaleInv
    <3>3. QED BY <3>2, <2>1 DEF IsValid
  <2>4. QED BY <2>2, <2>3 DEF StaleHandlesInvalid
<1>5. CASE UNCHANGED vars
  BY <1>5 DEF StaleInv, RecentOK, StaleHandlesInvalid, IsValid, vars
<1>6. QED BY <1>1, <1>2, <1>3, <1>4, <1>5 DEF Next

\* A closed handle stays invalid until GEN_LIMIT - 1 further handles have been
\* created, for any number of slots and generations and whatever slots are reused:
\* a freed handle cannot reach the object that took its slot.
THEOREM StaleHandlesStayInvalid == Spec => []StaleHandlesInvalid
<1>1. StaleInv => StaleHandlesInvalid
  BY DEF StaleInv
<1>2. QED BY InitStale, NextStale, <1>1, PTL DEF Spec

================================================================================
