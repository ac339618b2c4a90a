----------------------------- MODULE CommonProofs ------------------------------
(******************************************************************************)
(* Theorems about two containers of src/common: the list of queues by         *)
(* priority, for every number of priorities and every set of threads, and the *)
(* pool of workers, for every finite set of workers and any work.             *)
(*                                                                            *)
(* The order of the levels of the list is inductive together with their types.*)
(* That a lookup answers rightly needs, in addition, what its walk has already*)
(* seen: every level it has passed is empty, and pop_first_better has not     *)
(* passed the level at which it stops.                                        *)
(*                                                                            *)
(* In the pool, a worker that goes to sleep finds no request, and every later *)
(* request brings a notification: the count of awake workers and of           *)
(* notifications to come covers the requests.  That the count of unfinished   *)
(* work is a number needs that it is what is queued and what runs.            *)
(******************************************************************************)
EXTENDS ThreadQueueList, ThreadWorker, SequenceLemmas, FiniteSetTheorems

\* What holds while a lookup walks the list.
WalkOK ==
  lookup # NoLookup =>
    /\ cur \in Priority => Linked(cur)
    /\ cur = nullptr => \A q \in Priority : data[q] = <<>>
    /\ cur \in Priority => \A q \in Priority : q < cur => data[q] = <<>>
    /\ lookup.bound < NUM_QUEUES => /\ lookup.bound \in Priority /\ Linked(lookup.bound)
                                    /\ cur \in Priority /\ cur <= lookup.bound

Inv == TypeOK /\ LevelsInOrder /\ WalkOK

\* IsNext for a set L of levels, so that the order can be argued about without
\* primes.
Follows(L, p, q) ==
  IF q = nullptr THEN \A r \in L : r <= p
  ELSE q > p /\ q \in L /\ \A r \in L : p < r => q <= r

Levels == {p \in Priority : Linked(p)}

LEMMA IsNextFollows ==
  ASSUME NEW p \in Int, NEW q \in Queue
  PROVE  IsNext(p, q) <=> Follows(Levels, p, q)
<1> USE QueuesAssumption DEF Priority, nullptr, Queue
<1>1. CASE q = nullptr
  BY <1>1 DEF IsNext, Follows, Levels
<1>2. CASE q # nullptr
  <2>1. q \in Priority
    BY <1>2
  <2>2. (\A r \in Priority : p < r /\ r < q => ~Linked(r))
          <=> (\A r \in Levels : p < r => q <= r)
    BY <2>1 DEF Levels
  <2>3. QED BY <1>2, <2>1, <2>2 DEF IsNext, Follows, Levels
<1>3. QED BY <1>1, <1>2

\* A level p inserted between i, the nearest level before it, and what follows i.
LEMMA InsertFollows ==
  ASSUME NEW L \in SUBSET Priority, NEW p \in Priority, p \notin L,
         NEW i \in L \cup {-1}, i < p, \A r \in L : r <= i \/ p < r,
         NEW n \in Queue, Follows(L, i, n)
  PROVE  /\ Follows(L \cup {p}, i, p)
         /\ Follows(L \cup {p}, p, n)
         /\ \A q \in L \cup {-1}, m \in Queue :
              q # i /\ Follows(L, q, m) => Follows(L \cup {p}, q, m)
<1> USE QueuesAssumption DEF Priority, nullptr, Queue
<1>1. Follows(L \cup {p}, i, p)
  BY DEF Follows
<1>2. Follows(L \cup {p}, p, n)
  BY DEF Follows
<1>3. ASSUME NEW q \in L \cup {-1}, NEW m \in Queue, q # i, Follows(L, q, m)
      PROVE  Follows(L \cup {p}, q, m)
  <2>1. CASE q < i
    <3>1. i \in L
      BY <2>1
    <3>2. QED BY <1>3, <2>1, <3>1 DEF Follows
  <2>2. CASE q > p
    BY <1>3, <2>2 DEF Follows
  <2>3. QED BY <1>3, <2>1, <2>2
<1>4. QED BY <1>1, <1>2, <1>3

\* The types of the links, and the order of the levels in terms of IsNext and of
\* Follows.
LinkTypes == next_nonempty \in [Priority -> Queue \cup {UnlinkedTag}] /\ first \in Queue
InOrder ==
  /\ IsNext(-1, first)
  /\ \A p \in Priority : Linked(p) => IsNext(p, next_nonempty[p])
Ordered ==
  /\ Follows(Levels, -1, first)
  /\ \A p \in Levels : Follows(Levels, p, next_nonempty[p])

LEMMA OrderFollows == LinkTypes => (InOrder <=> Ordered)
<1> HAVE LinkTypes
<1>1. \A p \in Levels : p \in Int /\ p \in Priority /\ next_nonempty[p] \in Queue
  BY DEF LinkTypes, Levels, Linked, Priority
<1>2. \A p \in Levels : IsNext(p, next_nonempty[p]) <=> Follows(Levels, p, next_nonempty[p])
  BY <1>1, IsNextFollows
<1>3. \A p \in Priority : Linked(p) <=> p \in Levels
  BY DEF Levels
<1>4. IsNext(-1, first) <=> Follows(Levels, -1, first)
  BY IsNextFollows DEF LinkTypes
<1>5. (\A p \in Priority : Linked(p) => IsNext(p, next_nonempty[p]))
        <=> \A p \in Levels : Follows(Levels, p, next_nonempty[p])
  BY <1>1, <1>2, <1>3
<1>6. QED BY <1>4, <1>5 DEF InOrder, Ordered

\* ThreadQueueList::prepare keeps the order and unlinks nothing.
LEMMA PrepareOrder ==
  ASSUME TypeOK, LevelsInOrder, NEW p \in Priority, prepare(p)
  PROVE  /\ LinkTypes' /\ InOrder'
         /\ \A q \in Priority : Linked(q)' <=> Linked(q) \/ q = p
<1> DEFINE Inserted(i) ==
      /\ i \in Levels \cup {-1} /\ i < p
      /\ \A r \in Levels : r <= i \/ p < r
      /\ i = -1 => next_nonempty' = [next_nonempty EXCEPT ![p] = first] /\ first' = p
      /\ i # -1 => /\ next_nonempty' = [next_nonempty EXCEPT ![i] = p, ![p] = next_nonempty[i]]
                   /\ first' = first
<1>0. /\ Follows(Levels, -1, first) /\ \A q \in Levels : Follows(Levels, q, next_nonempty[q])
      /\ Levels \in SUBSET Priority /\ Levels \in SUBSET Nat
      /\ \A q \in Levels : next_nonempty[q] \in Queue
  <2>1. Levels \in SUBSET Priority /\ Levels \in SUBSET Nat
    BY DEF Levels, Priority
  <2>2. \A q \in Levels : next_nonempty[q] \in Queue
    BY DEF TypeOK, Levels, Linked
  <2>3. QED BY <2>1, <2>2, OrderFollows DEF TypeOK, LevelsInOrder, LinkTypes, InOrder, Ordered
<1>1. CASE Linked(p)
  <2>1. UNCHANGED <<next_nonempty, first>>
    BY <1>1 DEF prepare
  <2>2. QED BY <1>1, <2>1 DEF TypeOK, LevelsInOrder, LinkTypes, InOrder, Linked, IsNext
<1>2. CASE ~Linked(p)
  <2>1. \E i : Inserted(i)
    <3>1. CASE \A i \in 0 .. p - 1 : ~Linked(i)
      <4>1. next_nonempty' = [next_nonempty EXCEPT ![p] = first] /\ first' = p
        BY <1>2, <3>1 DEF prepare, link, Linked
      <4>2. \A r \in Levels : p < r
        BY <1>2, <3>1 DEF Levels, Priority
      <4>3. Inserted(-1)
        BY <4>1, <4>2 DEF Priority
      <4> HIDE DEF Inserted
      <4>4. QED BY <4>3
    <3>2. CASE \E i \in 0 .. p - 1 : Linked(i)
      <4>1. PICK i \in 0 .. p - 1 :
              /\ Linked(i) /\ \A j \in i + 1 .. p - 1 : ~Linked(j)
              /\ next_nonempty' = [next_nonempty EXCEPT ![i] = p, ![p] = next_nonempty[i]]
              /\ UNCHANGED first
        BY <1>2, <3>2 DEF prepare, link
      <4>2. i \in Levels /\ i < p /\ i # -1 /\ \A r \in Levels : r <= i \/ p < r
        BY <1>2, <4>1, QueuesAssumption DEF Levels, Priority
      <4>3. Inserted(i)
        BY <4>1, <4>2
      <4> HIDE DEF Inserted
      <4>4. QED BY <4>3
    <3>3. QED BY <3>1, <3>2
  <2>2. PICK i : Inserted(i)
    BY <2>1
  <2> DEFINE n == IF i = -1 THEN first ELSE next_nonempty[i]
  <2>3. n \in Queue /\ Follows(Levels, i, n) /\ p \notin Levels
    BY <1>0, <1>2, <2>2 DEF TypeOK, Levels
  <2>4. /\ next_nonempty'[p] = n
        /\ \A q \in Priority : q # i /\ q # p => next_nonempty'[q] = next_nonempty[q]
        /\ i # -1 => next_nonempty'[i] = p /\ first' = first
        /\ i = -1 => first' = p
    <3>1. CASE i = -1
      BY <2>2, <3>1 DEF TypeOK
    <3>2. CASE i # -1
      <4>1. i \in Priority /\ i # p
        BY <1>0, <2>2, <2>3, <3>2
      <4>2. QED BY <2>2, <3>2, <4>1 DEF TypeOK
    <3>3. QED BY <3>1, <3>2
  <2>5. next_nonempty' \in [Priority -> Queue \cup {UnlinkedTag}] /\ first' \in Queue
    <3>1. p \in Queue /\ first \in Queue /\ n \in Queue
      BY <2>3 DEF Queue, TypeOK
    <3>2. CASE i = -1
      BY <2>2, <3>1, <3>2 DEF TypeOK
    <3>3. CASE i # -1
      BY <2>2, <3>1, <3>3 DEF TypeOK
    <3>4. QED BY <3>2, <3>3
  <2>6. i # -1 => i \in Levels /\ i \in Priority
    BY <1>0, <2>2
  <2> HIDE DEF n
  <2>7. \A q \in Priority : Linked(q)' <=> Linked(q) \/ q = p
    <3>1. n # UnlinkedTag /\ p # UnlinkedTag
      BY <2>3 DEF Queue, Priority, UnlinkedTag, nullptr
    <3>2. Linked(p)'
      BY <2>4, <3>1 DEF Linked
    <3>3. i # -1 => Linked(i) /\ Linked(i)'
      BY <2>4, <2>6, <3>1 DEF Linked, Levels
    <3>4. ASSUME NEW q \in Priority, q # i, q # p PROVE Linked(q)' <=> Linked(q)
      BY <2>4, <3>4 DEF Linked
    <3>5. \A q \in Priority : q # -1
      BY DEF Priority
    <3> HIDE DEF Inserted
    <3>6. QED BY <3>2, <3>3, <3>4, <3>5, Zenon
  <2>8. Levels' = Levels \cup {p}
    BY <2>7 DEF Levels
  <2>9. /\ Follows(Levels \cup {p}, i, p) /\ Follows(Levels \cup {p}, p, n)
        /\ \A q \in Levels \cup {-1}, m \in Queue :
             q # i /\ Follows(Levels, q, m) => Follows(Levels \cup {p}, q, m)
    <3>1. i \in Levels \cup {-1} /\ i < p /\ \A r \in Levels : r <= i \/ p < r
      BY <2>2
    <3>2. QED BY <1>0, <2>3, <3>1, InsertFollows
  <2>10. Follows(Levels', -1, first')
    BY <1>0, <2>4, <2>8, <2>9 DEF TypeOK
  <2>11. ASSUME NEW q \in Levels' PROVE Follows(Levels', q, next_nonempty'[q])
    <3>1. CASE q = p
      BY <2>4, <2>8, <2>9, <3>1
    <3>2. CASE q = i /\ q # p
      <4>1. i # -1
        BY <1>0, <2>8, <2>11, <3>2
      <4>2. QED BY <2>4, <2>8, <2>9, <3>2, <4>1
    <3>3. CASE q # p /\ q # i
      <4>1. q \in Levels /\ next_nonempty'[q] = next_nonempty[q] /\ next_nonempty[q] \in Queue
        BY <1>0, <2>4, <2>8, <2>11, <3>3
      <4>2. QED BY <1>0, <2>8, <2>9, <3>3, <4>1
    <3>4. QED BY <3>1, <3>2, <3>3
  <2>12. Ordered'
    BY <2>10, <2>11 DEF Ordered, Follows
  <2>13. LinkTypes'
    BY <2>5 DEF LinkTypes
  <2>14. InOrder'
    BY <2>12, <2>13, OrderFollows, PTL
  <2>15. QED BY <2>7, <2>13, <2>14
<1>3. QED BY <1>1, <1>2

\* The levels hold sequences of threads, and only linked levels are not empty.
DataOK ==
  /\ data \in [Priority -> Seq(Thread)]
  /\ \A p \in Priority : data[p] # <<>> => Linked(p)

\* A lookup starts at the first level, which has nothing before it.
LEMMA StartWalk ==
  ASSUME Inv, NEW pop \in BOOLEAN, NEW bound \in 0 .. NUM_QUEUES,
         bound < NUM_QUEUES => bound \in Priority /\ Linked(bound),
         StartLookup(pop, bound)
  PROVE  Inv'
<1> USE QueuesAssumption
<1>1. TypeOK'
  BY DEF Inv, TypeOK, StartLookup, Lookup
<1>2. LevelsInOrder'
  BY DEF Inv, StartLookup, LevelsInOrder, IsNext, Linked
<1>3. WalkOK'
  <2>1. /\ cur' = first /\ data' = data /\ next_nonempty' = next_nonempty
        /\ lookup' = [pop |-> pop, bound |-> bound]
    BY DEF StartLookup
  <2>2. first \in Queue /\ IsNext(-1, first) /\ \A q \in Priority : ~Linked(q) => data[q] = <<>>
    BY DEF Inv, TypeOK, LevelsInOrder
  <2>3. first \in Priority =>
          Linked(first) /\ \A q \in Priority : q < first => data[q] = <<>> /\ ~Linked(q)
    BY <2>2 DEF IsNext, Priority, nullptr
  <2>4. first = nullptr => \A q \in Priority : data[q] = <<>> /\ ~Linked(q)
    BY <2>2 DEF IsNext, Priority, nullptr
  <2>5. bound < NUM_QUEUES => first \in Priority /\ first <= bound
    BY <2>2, <2>3, <2>4 DEF Queue, Priority, nullptr
  <2>6. QED BY <2>1, <2>3, <2>4, <2>5 DEF WalkOK, Linked
<1>4. QED BY <1>1, <1>2, <1>3 DEF Inv

\* The loop of a lookup is never at a null level.
LEMMA WalkInPriority ==
  ASSUME Inv, lookup # NoLookup, Continue
  PROVE  cur \in Priority
BY QueuesAssumption DEF Inv, TypeOK, WalkOK, Continue, Queue

\* One step of the walk leaves an empty level behind and stops at the bound.
LEMMA WalkOnStep ==
  ASSUME Inv, WalkOn
  PROVE  Inv'
<1> USE QueuesAssumption
<1>1. cur \in Priority /\ lookup # NoLookup /\ Continue /\ data[cur] = <<>>
  BY WalkInPriority DEF WalkOn
<1>2. Linked(cur) /\ \A q \in Priority : q <= cur => data[q] = <<>>
  BY <1>1 DEF Inv, WalkOK, Priority
<1>3. IsNext(cur, next_nonempty[cur]) /\ next_nonempty[cur] \in Queue
  BY <1>1, <1>2 DEF Inv, LevelsInOrder, TypeOK, Linked
<1>4. TypeOK'
  BY <1>3 DEF Inv, TypeOK, WalkOn
<1>5. LevelsInOrder'
  BY DEF Inv, WalkOn, LevelsInOrder, IsNext, Linked
<1>6. WalkOK'
  <2> DEFINE n == next_nonempty[cur]
  <2>1. /\ cur' = n /\ data' = data /\ next_nonempty' = next_nonempty /\ lookup' = lookup
    BY DEF WalkOn
  <2>2. \A q \in Priority : ~Linked(q) => data[q] = <<>>
    BY DEF Inv, LevelsInOrder
  <2>3. n \in Priority => Linked(n) /\ \A q \in Priority : q < n => data[q] = <<>>
    BY <1>1, <1>2, <1>3, <2>2 DEF IsNext, Priority, nullptr
  <2>4. n = nullptr => \A q \in Priority : data[q] = <<>> /\ (q > cur => ~Linked(q))
    BY <1>1, <1>2, <1>3, <2>2 DEF IsNext, Priority, nullptr
  <2>5. lookup.bound < NUM_QUEUES =>
          /\ lookup.bound \in Priority /\ Linked(lookup.bound)
          /\ n \in Priority /\ n <= lookup.bound
    <3>1. HAVE lookup.bound < NUM_QUEUES
    <3>2. lookup.bound \in Priority /\ Linked(lookup.bound) /\ cur < lookup.bound
      BY <1>1, <3>1 DEF Inv, WalkOK, Continue
    <3>3. n # nullptr
      BY <2>4, <3>2
    <3>4. n \in Priority /\ n <= lookup.bound
      BY <1>1, <1>3, <3>2, <3>3 DEF IsNext, Queue, Priority
    <3>5. QED BY <3>2, <3>4
  <2>6. QED BY <2>1, <2>3, <2>4, <2>5 DEF WalkOK, Linked
<1>7. QED BY <1>4, <1>5, <1>6 DEF Inv

\* Between lookups only the levels have to stay as they should be.
LEMMA QuietStep ==
  ASSUME Inv, lookup = NoLookup, UNCHANGED walk_vars, LinkTypes', InOrder', DataOK'
  PROVE  Inv'
<1>1. TypeOK'
  BY DEF Inv, TypeOK, LinkTypes, DataOK, walk_vars
<1>2. LevelsInOrder'
  BY DEF InOrder, DataOK, LevelsInOrder
<1>3. WalkOK'
  BY DEF WalkOK, walk_vars
<1>4. QED BY <1>1, <1>2, <1>3 DEF Inv

\* A level whose deque changes is linked, or its new deque is empty.
LEMMA DataStep ==
  ASSUME Inv, lookup = NoLookup, UNCHANGED <<next_nonempty, first, walk_vars>>,
         NEW p \in Priority, NEW s \in Seq(Thread), s # <<>> => Linked(p),
         data' = [data EXCEPT ![p] = s]
  PROVE  Inv'
<1>1. LinkTypes' /\ InOrder'
  BY DEF Inv, TypeOK, LevelsInOrder, LinkTypes, InOrder, IsNext, Linked
<1>2. DataOK'
  <2>1. data' \in [Priority -> Seq(Thread)]
    BY DEF Inv, TypeOK
  <2>2. \A q \in Priority : data'[q] # <<>> => Linked(q)
    BY DEF Inv, TypeOK, LevelsInOrder
  <2>3. QED BY <2>1, <2>2 DEF DataOK, Linked
<1>3. QED BY <1>1, <1>2, QuietStep

\* ThreadQueueList::move links the new level before it appends the thread to it.
LEMMA MoveStep ==
  ASSUME Inv, NEW t \in Thread, NEW old \in Priority, NEW new \in Priority, move(t, old, new)
  PROVE  Inv'
<1> DEFINE without == [data EXCEPT ![old] = RemoveFirst(@, t)]
<1>1. LinkTypes' /\ InOrder' /\ \A q \in Priority : Linked(q)' <=> Linked(q) \/ q = new
  BY PrepareOrder DEF Inv, move
<1>2. /\ without \in [Priority -> Seq(Thread)]
      /\ \A q \in Priority : without[q] # <<>> => Linked(q)
  <2>1. data[old] \in Seq(Thread) /\ data \in [Priority -> Seq(Thread)]
    BY DEF Inv, TypeOK
  <2>2. RemoveFirst(data[old], t) \in Seq(Thread)
        /\ (data[old] = <<>> => RemoveFirst(data[old], t) = <<>>)
    BY <2>1, RemoveFirstType
  <2>3. QED BY <2>1, <2>2 DEF Inv, LevelsInOrder
<1>3. data' = [without EXCEPT ![new] = Append(@, t)]
  BY DEF move
<1> HIDE DEF without
<1>4. DataOK'
  <2>1. data' \in [Priority -> Seq(Thread)]
    BY <1>2, <1>3, AppendProperties
  <2>2. \A q \in Priority : data'[q] # <<>> => Linked(q) \/ q = new
    BY <1>2, <1>3
  <2>3. QED BY <1>1, <2>1, <2>2 DEF DataOK
<1>5. QED BY <1>1, <1>4, QuietStep DEF move

\* ThreadQueueList::clear forgets the levels and the threads in them.
LEMMA ClearStep ==
  ASSUME Inv, clear
  PROVE  Inv'
<1> USE QueuesAssumption DEF Priority, Queue, nullptr, UnlinkedTag
<1>1. \A q \in Priority : next_nonempty'[q] = UnlinkedTag /\ data'[q] = <<>>
  BY DEF clear
<1>2. LinkTypes' /\ InOrder'
  BY <1>1 DEF clear, LinkTypes, InOrder, IsNext, Linked
<1>3. DataOK'
  BY <1>1 DEF clear, DataOK
<1>4. QED BY <1>2, <1>3, QuietStep DEF clear

\* The end of a lookup, with or without a thread.
LEMMA EndStep ==
  ASSUME Inv, Found \/ NotFound
  PROVE  Inv'
<1>1. LinkTypes' /\ InOrder'
  BY DEF Inv, TypeOK, LevelsInOrder, LinkTypes, InOrder, IsNext, Linked, Found, NotFound
<1>2. DataOK' /\ result' \in Thread \cup {NoThread}
  <2>1. CASE NotFound
    BY <2>1 DEF NotFound, Inv, TypeOK, LevelsInOrder, DataOK, Linked
  <2>2. CASE Found
    <3>1. cur \in Priority /\ data[cur] # <<>> /\ data[cur] \in Seq(Thread)
      BY <2>2, WalkInPriority DEF Found, Inv, TypeOK
    <3>2. Head(data[cur]) \in Thread /\ Tail(data[cur]) \in Seq(Thread)
      BY <3>1, HeadTailProperties
    <3>3. data' \in [Priority -> Seq(Thread)]
      BY <2>2, <3>1, <3>2 DEF Found, Inv, TypeOK
    <3>4. \A q \in Priority : data'[q] # <<>> => Linked(q)
      BY <2>2, <3>1 DEF Found, Inv, TypeOK, LevelsInOrder
    <3>5. QED BY <2>2, <3>2, <3>3, <3>4 DEF Found, DataOK, Linked
  <2>3. QED BY <2>1, <2>2
<1>3. TypeOK'
  BY <1>1, <1>2 DEF Inv, TypeOK, LinkTypes, DataOK, Found, NotFound
<1>4. LevelsInOrder' /\ WalkOK'
  BY <1>1, <1>2 DEF InOrder, DataOK, LevelsInOrder, WalkOK, Found, NotFound
<1>5. QED BY <1>3, <1>4 DEF Inv

LEMMA InitInv == Init => Inv
<1> HAVE Init
<1> USE QueuesAssumption DEF Init, Priority, Queue, nullptr, UnlinkedTag
<1>1. TypeOK
  BY DEF TypeOK
<1>2. LevelsInOrder
  BY DEF LevelsInOrder, IsNext, Linked
<1>3. WalkOK
  BY DEF WalkOK
<1>4. QED BY <1>1, <1>2, <1>3 DEF Inv

LEMMA NextInv == Inv /\ [Next]_vars => Inv'
<1> SUFFICES ASSUME Inv, [Next]_vars PROVE Inv'
  OBVIOUS
<1>0. data \in [Priority -> Seq(Thread)] /\ \A p \in Priority : data[p] # <<>> => Linked(p)
  BY DEF Inv, TypeOK, LevelsInOrder
<1>1. ASSUME NEW p \in Priority, Prepare(p) PROVE Inv'
  <2>1. LinkTypes' /\ InOrder' /\ \A q \in Priority : Linked(q)' <=> Linked(q) \/ q = p
    BY <1>1, PrepareOrder DEF Inv, Prepare
  <2>2. DataOK'
    BY <1>0, <1>1, <2>1 DEF Prepare, DataOK
  <2>3. QED BY <1>1, <2>1, <2>2, QuietStep DEF Prepare
<1>2. ASSUME NEW p \in Priority, rotate(p) PROVE Inv'
  <2>1. data[p] \in Seq(Thread) /\ data[p] # <<>>
    BY <1>0, <1>2 DEF rotate
  <2>2. Append(Tail(data[p]), Head(data[p])) \in Seq(Thread)
    BY <2>1, HeadTailProperties, AppendProperties
  <2>3. QED BY <1>0, <1>2, <2>1, <2>2, DataStep DEF rotate
<1>3. ASSUME NEW p \in Priority, pop_first_better(p) PROVE Inv'
  <2>1. p \in 0 .. NUM_QUEUES
    BY QueuesAssumption DEF Priority
  <2>2. Linked(p) /\ StartLookup(TRUE, p)
    BY <1>3 DEF pop_first_better
  <2>3. QED BY <2>1, <2>2, StartWalk, Zenon
<1>4. ASSUME NEW p \in Priority, NEW t \in Thread, push_front(p, t) PROVE Inv'
  <2>1. <<t>> \o data[p] \in Seq(Thread)
    BY <1>0
  <2>2. QED BY <1>4, <2>1, DataStep DEF push_front
<1>5. ASSUME NEW p \in Priority, NEW t \in Thread, push_back(p, t) PROVE Inv'
  <2>1. Append(data[p], t) \in Seq(Thread)
    BY <1>0
  <2>2. QED BY <1>5, <2>1, DataStep DEF push_back
<1>6. ASSUME NEW p \in Priority, NEW t \in Thread, remove(p, t) PROVE Inv'
  <2>1. RemoveFirst(data[p], t) \in Seq(Thread)
        /\ (data[p] = <<>> => RemoveFirst(data[p], t) = <<>>)
    BY <1>0, RemoveFirstType
  <2>2. QED BY <1>0, <1>6, <2>1, DataStep DEF remove
<1>7. ASSUME NEW t \in Thread, NEW old \in Priority, NEW new \in Priority, move(t, old, new)
      PROVE  Inv'
  BY <1>7, MoveStep
<1>8. CASE get_first \/ pop_first
  <2>1. NUM_QUEUES \in 0 .. NUM_QUEUES /\ ~(NUM_QUEUES < NUM_QUEUES)
    BY QueuesAssumption
  <2>2. StartLookup(FALSE, NUM_QUEUES) \/ StartLookup(TRUE, NUM_QUEUES)
    BY <1>8 DEF get_first, pop_first
  <2>3. QED BY <2>1, <2>2, StartWalk, Zenon
<1>9. CASE UNCHANGED vars
  BY <1>9 DEF vars, walk_vars, Inv, TypeOK, LevelsInOrder, IsNext, Linked, WalkOK
<1>10. QED
  BY <1>1, <1>2, <1>3, <1>4, <1>5, <1>6, <1>7, <1>8, <1>9, ClearStep, WalkOnStep, EndStep
     DEF Next

--------------------------------------------------------------------------------
\* The members of ThreadQueueList keep their types, whatever sequence of calls is made.
THEOREM TypeCorrect == Spec => []TypeOK
<1>1. Inv => TypeOK
  BY DEF Inv
<1>2. QED BY <1>1, InitInv, NextInv, PTL DEF Spec

\* The list built by ThreadQueueList::link holds exactly the prepared levels in the
\* order of their priorities, for every number of levels and every order in which
\* they are prepared, and every queued thread is in a linked level.
THEOREM LevelsOrdered == Spec => []LevelsInOrder
<1>1. Inv => LevelsInOrder
  BY DEF Inv
<1>2. QED BY <1>1, InitInv, NextInv, PTL DEF Spec

\* No lookup dereferences a null level: pop_first_better, which does not test for
\* null, always meets the level at which it stops.
THEOREM NullNeverRead == Spec => []NoNullLevel
<1>1. Inv => NoNullLevel
  BY WalkInPriority DEF NoNullLevel
<1>2. QED BY <1>1, InitInv, NextInv, PTL DEF Spec

\* A lookup ends at the head of the best level that is not empty.
LEMMA FoundBest ==
  ASSUME Inv, Found
  PROVE  FIFO!Found
<1> USE QueuesAssumption
<1>1. cur \in Priority /\ data[cur] # <<>> /\ lookup # NoLookup /\ Continue
  BY WalkInPriority DEF Found
<1>2. FIFO!IsBest(cur)
  BY <1>1 DEF Inv, WalkOK, FIFO!IsBest
<1>3. cur < lookup.bound
  BY <1>1 DEF Continue, Inv, TypeOK, Lookup, Priority
<1>4. QED BY <1>1, <1>2, <1>3 DEF Found, FIFO!Found

\* It ends with nothing only when the levels better than its bound are empty.
LEMMA NotFoundEmpty ==
  ASSUME Inv, NotFound
  PROVE  FIFO!NotFound
<1> USE QueuesAssumption
<1>1. lookup # NoLookup /\ ~Continue /\ lookup \in Lookup /\ cur \in Queue
  BY DEF NotFound, Inv, TypeOK
<1>2. ASSUME NEW q \in Priority, q < lookup.bound PROVE data[q] = <<>>
  <2>1. CASE lookup.bound < NUM_QUEUES
    <3>1. cur \in Priority /\ lookup.bound \in Priority /\ ~(cur < lookup.bound)
      BY <1>1, <2>1 DEF Inv, WalkOK, Continue
    <3>2. q < cur
      BY <1>2, <3>1 DEF Priority
    <3>3. QED BY <1>1, <3>1, <3>2 DEF Inv, WalkOK
  <2>2. CASE ~(lookup.bound < NUM_QUEUES)
    BY <1>1, <2>2 DEF Inv, WalkOK, Continue
  <2>3. QED BY <2>1, <2>2
<1>3. QED BY <1>1, <1>2 DEF NotFound, FIFO!NotFound

\* Every step of the linked levels is a step of the FIFOs or leaves them alone.
LEMMA StepImplements == Inv /\ [Next]_vars => [FIFO!Next]_FIFO!vars
<1> SUFFICES ASSUME Inv, [Next]_vars PROVE [FIFO!Next]_FIFO!vars
  OBVIOUS
\* The helpers on sequences are those of one module, reached in two ways.
<1>0. \A s, e : FIFO!ToSet(s) = ToSet(s) /\ FIFO!RemoveFirst(s, e) = RemoveFirst(s, e)
  BY DEF ToSet, FIFO!ToSet, RemoveFirst, FIFO!RemoveFirst, RemoveAt, FIFO!RemoveAt,
         SelectInSeq, FIFO!SelectInSeq, Min, FIFO!Min
<1>1. ASSUME NEW p \in Priority, Prepare(p) PROVE UNCHANGED FIFO!vars
  BY <1>1 DEF Prepare, walk_vars, FIFO!vars
<1>2. ASSUME NEW p \in Priority, rotate(p) PROVE FIFO!Change
  BY <1>2 DEF rotate, walk_vars, FIFO!Change, FIFO!Rotate
<1>3. ASSUME NEW p \in Priority, NEW t \in Thread, push_front(p, t) PROVE FIFO!Change
  <2>1. FIFO!PushFront(p, t)
    BY <1>0, <1>3 DEF push_front, Queued, FIFO!PushFront, FIFO!Queued
  <2>2. lookup = NoLookup /\ UNCHANGED <<lookup, result>>
    BY <1>3 DEF push_front, walk_vars
  <2>3. QED BY <2>1, <2>2, Zenon DEF FIFO!Change
<1>4. ASSUME NEW p \in Priority, NEW t \in Thread, push_back(p, t) PROVE FIFO!Change
  <2>1. FIFO!PushBack(p, t)
    BY <1>0, <1>4 DEF push_back, Queued, FIFO!PushBack, FIFO!Queued
  <2>2. lookup = NoLookup /\ UNCHANGED <<lookup, result>>
    BY <1>4 DEF push_back, walk_vars
  <2>3. QED BY <2>1, <2>2, Zenon DEF FIFO!Change
<1>5. ASSUME NEW p \in Priority, NEW t \in Thread, remove(p, t) PROVE FIFO!Change
  <2>1. FIFO!Take(p, t)
    BY <1>0, <1>5 DEF remove, FIFO!Take
  <2>2. lookup = NoLookup /\ UNCHANGED <<lookup, result>>
    BY <1>5 DEF remove, walk_vars
  <2>3. QED BY <2>1, <2>2, Zenon DEF FIFO!Change
<1>6. ASSUME NEW t \in Thread, NEW old \in Priority, NEW new \in Priority, move(t, old, new)
      PROVE  FIFO!Change
  <2>1. FIFO!Move(t, old, new)
    BY <1>0, <1>6 DEF move, FIFO!Move
  <2>2. lookup = NoLookup /\ UNCHANGED <<lookup, result>>
    BY <1>6 DEF move, walk_vars
  <2>3. QED BY <2>1, <2>2, Zenon DEF FIFO!Change
<1>7. ASSUME clear PROVE FIFO!Change
  BY <1>7 DEF clear, walk_vars, FIFO!Change, FIFO!Clear
<1>8. ASSUME NEW pop \in BOOLEAN, NEW bound \in 0 .. NUM_QUEUES, StartLookup(pop, bound)
      PROVE  FIFO!Ask
  BY <1>8 DEF StartLookup, Lookup, FIFO!Ask
<1>9. ASSUME NEW p \in Priority, pop_first_better(p) PROVE FIFO!Ask
  <2>1. p \in 0 .. NUM_QUEUES
    BY QueuesAssumption DEF Priority
  <2>2. QED BY <1>8, <1>9, <2>1, Zenon DEF pop_first_better
<1>10. ASSUME get_first \/ pop_first PROVE FIFO!Ask
  <2>1. NUM_QUEUES \in 0 .. NUM_QUEUES
    BY QueuesAssumption
  <2>2. QED BY <1>8, <1>10, <2>1, Zenon DEF get_first, pop_first
<1>11. ASSUME WalkOn PROVE UNCHANGED FIFO!vars
  BY <1>11 DEF WalkOn, FIFO!vars
<1>12. ASSUME UNCHANGED vars PROVE UNCHANGED FIFO!vars
  BY <1>12 DEF vars, walk_vars, FIFO!vars
<1>13. QED
  BY <1>1, <1>2, <1>3, <1>4, <1>5, <1>6, <1>7, <1>9, <1>10, <1>11, <1>12, FoundBest,
     NotFoundEmpty DEF Next, FIFO!Next

\* ThreadQueueList implements one FIFO per priority: get_first, pop_first and
\* pop_first_better answer with the head of the best level that is not empty.
THEOREM ListImplementsFIFO == Spec => ImplementsFIFO
<1>1. Init => FIFO!Init
  BY DEF Init, FIFO!Init
<1>2. QED BY <1>1, InitInv, NextInv, StepImplements, PTL DEF Spec, ImplementsFIFO, FIFO!Spec

--------------------------------------------------------------------------------
(* The pool of workers. *)

PoolConstants ==
  /\ IsFiniteSet(Worker) /\ lifo_threshold \in Nat /\ starvation_guard_interval \in Nat
  /\ MaxNotifies \in Nat

LEMMA PoolConstantsAre == PoolConstants
BY WorkerAssumption DEF PoolConstants

\* In, of any function from workers to states, so that two states can be compared.
Those(f, S)   == {w \in Worker : f[w] \in S}
HowMany(f, S) == Cardinality(Those(f, S))

\* The workers that run, that are awake and that sleep.
Busy(f)   == HowMany(f, {"running"})
Awake(f)  == HowMany(f, {"top", "woken"})
Asleep(f) == Those(f, {"asleep"}) # {}

\* The work that is not finished is queued or runs, so that its count stays a number.
PoolCounted == unfinished = Len(requests) + Busy(state)

\* EnoughAwake, as the lemmas count.
PoolAwake ==
  stop = {} /\ Asleep(state) => Len(requests) <= notifies + Awake(state)

\* Between its predicate and its sleep a worker holds the mutex, so that nothing is queued.
Between(f) == Those(f, {"false"}) # {}
PoolHeld   == Between(state) => requests = << >>

PoolInv == PoolTypeOK /\ PoolCounted /\ PoolAwake /\ PoolHeld

LEMMA PoolAwakeIs == EnoughAwake <=> PoolAwake
<1>1. \A S : In(S) = Those(state, S) BY DEF In, Those
<1>. QED BY <1>1 DEF EnoughAwake, PoolAwake, HowMany, Awake, Asleep

LEMMA HowManyIs ==
  ASSUME PoolConstants, NEW f, NEW S
  PROVE  IsFiniteSet(Those(f, S)) /\ HowMany(f, S) \in Nat
<1>1. Those(f, S) \in SUBSET Worker /\ IsFiniteSet(Worker) BY DEF Those, PoolConstants
<1>2. IsFiniteSet(Those(f, S)) BY <1>1, FS_Subset
<1>. QED BY <1>2, FS_CardinalityType DEF HowMany

\* Only one worker goes from one state to another.
Moves(f, g, w) == \A v \in Worker \ {w} : g[v] = f[v]

LEMMA OneMoves ==
  ASSUME PoolConstants, NEW f, NEW g, NEW S, NEW w \in Worker, Moves(f, g, w)
  PROVE  /\ f[w] \in S /\ g[w] \notin S => HowMany(g, S) = HowMany(f, S) - 1
         /\ f[w] \notin S /\ g[w] \in S => HowMany(g, S) = HowMany(f, S) + 1
         /\ (f[w] \in S <=> g[w] \in S) => HowMany(g, S) = HowMany(f, S)
<1>1. \A v \in Worker \ {w} : g[v] = f[v] BY DEF Moves
<1>2. IsFiniteSet(Those(f, S)) BY HowManyIs
<1>3. CASE f[w] \in S /\ g[w] \notin S
  <2>1. Those(g, S) = Those(f, S) \ {w} /\ w \in Those(f, S) BY <1>1, <1>3 DEF Those
  <2>2. Cardinality(Those(f, S) \ {w}) = Cardinality(Those(f, S)) - 1 BY <1>2, <2>1, FS_RemoveElement
  <2>. QED BY <2>1, <2>2, <1>3 DEF HowMany
<1>4. CASE f[w] \notin S /\ g[w] \in S
  <2>1. Those(g, S) = Those(f, S) \cup {w} /\ w \notin Those(f, S) BY <1>1, <1>4 DEF Those
  <2>2. Cardinality(Those(f, S) \cup {w}) = Cardinality(Those(f, S)) + 1 BY <1>2, <2>1, FS_AddElement
  <2>. QED BY <2>1, <2>2, <1>4 DEF HowMany
<1>5. CASE f[w] \in S <=> g[w] \in S
  <2>1. Those(g, S) = Those(f, S) BY <1>1, <1>5 DEF Those
  <2>. QED BY <2>1, <1>5 DEF HowMany
<1>. QED BY <1>3, <1>4, <1>5

LEMMA CountsMove ==
  ASSUME PoolConstants, NEW f, NEW g, NEW w \in Worker, Moves(f, g, w)
  PROVE  /\ f[w] = "running" /\ g[w] # "running" => Busy(g) = Busy(f) - 1
         /\ f[w] # "running" /\ g[w] = "running" => Busy(g) = Busy(f) + 1
         /\ f[w] # "running" /\ g[w] # "running" => Busy(g) = Busy(f)
         /\ f[w] \in {"top", "woken"} /\ g[w] \notin {"top", "woken"} => Awake(g) = Awake(f) - 1
         /\ f[w] \notin {"top", "woken"} /\ g[w] \in {"top", "woken"} => Awake(g) = Awake(f) + 1
         /\ f[w] # "asleep" /\ g[w] # "asleep" => (Asleep(g) <=> Asleep(f))
         /\ g[w] # "false" /\ Between(g) => Between(f)
<1>1. \A S : /\ f[w] \in S /\ g[w] \notin S => HowMany(g, S) = HowMany(f, S) - 1
             /\ f[w] \notin S /\ g[w] \in S => HowMany(g, S) = HowMany(f, S) + 1
             /\ (f[w] \in S <=> g[w] \in S) => HowMany(g, S) = HowMany(f, S)
  BY OneMoves
<1>2. PICK R, A : R = {"running"} /\ A = {"top", "woken"} OBVIOUS
<1>3. /\ \A x : x \in R <=> x = "running"
      /\ \A x : x \in A <=> x \in {"top", "woken"}
      /\ \A h : Busy(h) = HowMany(h, R) /\ Awake(h) = HowMany(h, A)
  BY <1>2 DEF Busy, Awake
<1>4. /\ f[w] = "running" /\ g[w] # "running" => Busy(g) = Busy(f) - 1
      /\ f[w] # "running" /\ g[w] = "running" => Busy(g) = Busy(f) + 1
      /\ f[w] # "running" /\ g[w] # "running" => Busy(g) = Busy(f)
  BY <1>1, <1>3
<1>5. /\ f[w] \in A /\ g[w] \notin A => Awake(g) = Awake(f) - 1
      /\ f[w] \notin A /\ g[w] \in A => Awake(g) = Awake(f) + 1
  BY <1>1, <1>3
<1>6. f[w] # "asleep" /\ g[w] # "asleep" => (Asleep(g) <=> Asleep(f))
  BY DEF Moves, Asleep, Those
<1>7. g[w] # "false" /\ Between(g) => Between(f) BY DEF Moves, Between, Those
<1>. QED BY <1>2, <1>4, <1>5, <1>6, <1>7

LEMMA CountsAre ==
  ASSUME PoolConstants, NEW f
  PROVE  /\ Busy(f) \in Nat /\ Awake(f) \in Nat
         /\ \A w \in Worker : /\ f[w] = "running" => Busy(f) # 0
                              /\ f[w] \in {"top", "woken"} => Awake(f) # 0
<1>1. \A S : IsFiniteSet(Those(f, S)) /\ HowMany(f, S) \in Nat BY HowManyIs
<1>2. \A S : HowMany(f, S) = 0 => Those(f, S) = {} BY <1>1, FS_EmptySet DEF HowMany
<1>3. Busy(f) \in Nat /\ Awake(f) \in Nat BY <1>1 DEF Busy, Awake
<1>4. \A w \in Worker : f[w] = "running" => Busy(f) # 0 BY <1>2 DEF Busy, Those
<1>5. \A w \in Worker : f[w] \in {"top", "woken"} => Awake(f) # 0 BY <1>2 DEF Awake, Those
<1>. QED BY <1>3, <1>4, <1>5

LEMMA StartPool == ASSUME PoolConstants, PoolInit PROVE PoolInv
<1>1. PoolTypeOK
  <2>1. requests \in Seq(Task) /\ IsInjective(requests) BY DEF IsInjective, PoolInit
  <2>2. /\ lifo_pulls_since_oldest \in Nat /\ unfinished \in Nat /\ notifies \in 0..MaxNotifies
    BY DEF PoolInit, PoolConstants
  <2>3. state \in [Worker -> States] /\ task \in [Worker -> SUBSET Task]
    BY DEF PoolInit, States
  <2>4. waiter \in Waits /\ stop \subseteq Worker BY DEF PoolInit, Waits
  <2>. QED BY <2>1, <2>2, <2>3, <2>4 DEF PoolTypeOK
<1>2. Those(state, {"running"}) = {} /\ Those(state, {"asleep"}) = {}
      /\ Those(state, {"false"}) = {}
  BY DEF PoolInit, Those
<1>3. Busy(state) = 0 /\ ~Asleep(state) BY <1>2, FS_EmptySet DEF Busy, Asleep, HowMany
<1>4. Len(requests) = 0 /\ unfinished = 0 BY DEF PoolInit
<1>. QED BY <1>1, <1>2, <1>3, <1>4 DEF PoolInv, PoolCounted, PoolAwake, PoolHeld, Between

LEMMA QueueWorkPool ==
  ASSUME PoolConstants, PoolInv, NEW t \in Task, QueueWork(t) PROVE PoolInv'
<1>1. /\ notifies < MaxNotifies /\ t \notin Range(requests) /\ requests' = Append(requests, t)
      /\ unfinished' = unfinished + 1 /\ notifies' = notifies + 1
      /\ lifo_pulls_since_oldest' = lifo_pulls_since_oldest /\ state' = state /\ task' = task
      /\ waiter' = waiter /\ stop' = stop
  BY DEF QueueWork
<1>2. requests \in Seq(Task) /\ IsInjective(requests) /\ Len(requests) \in Nat
      /\ unfinished \in Nat /\ notifies \in 0..MaxNotifies /\ MaxNotifies \in Nat
  BY DEF PoolInv, PoolTypeOK, PoolConstants
<1>3. t \notin ToSet(requests)
  <2>1. ToSet(requests) = Range(requests) BY DEF ToSet, Range
  <2>. QED BY <1>1, <2>1
<1>4. /\ requests' \in Seq(Task) /\ IsInjective(requests') BY <1>1, <1>2, <1>3, AppendNew
<1>5. Len(requests') = Len(requests) + 1 BY <1>1, <1>2
<1>6. PoolTypeOK' BY <1>1, <1>2, <1>4 DEF PoolInv, PoolTypeOK
<1>7. Busy(state) \in Nat /\ Awake(state) \in Nat BY CountsAre
<1>8. PoolCounted' BY <1>1, <1>2, <1>5, <1>7 DEF PoolInv, PoolCounted
<1>9. PoolAwake' BY <1>1, <1>2, <1>5, <1>7 DEF PoolInv, PoolAwake
<1>10. PoolHeld' BY <1>1 DEF QueueWork, MutexFree, In, PoolHeld, Between, Those
<1>. QED BY <1>6, <1>8, <1>9, <1>10 DEF PoolInv

LEMMA NotifyOnePool == ASSUME PoolConstants, PoolInv, NotifyOne PROVE PoolInv'
<1>1. /\ notifies > 0 /\ notifies' = notifies - 1 /\ requests' = requests
      /\ lifo_pulls_since_oldest' = lifo_pulls_since_oldest /\ unfinished' = unfinished
      /\ task' = task /\ waiter' = waiter /\ stop' = stop
  BY DEF NotifyOne
<1>2. requests \in Seq(Task) /\ Len(requests) \in Nat /\ notifies \in 0..MaxNotifies
      /\ MaxNotifies \in Nat
  BY DEF PoolInv, PoolTypeOK, PoolConstants
<1>3. PoolTypeOK BY DEF PoolInv
<1>4. CASE Those(state, {"asleep"}) = {}
  <2>1. state' = state BY <1>4 DEF NotifyOne, In, Those
  <2>2. PoolTypeOK' BY <2>1, <1>1, <1>2 DEF PoolInv, PoolTypeOK
  <2>3. PoolCounted' BY <2>1, <1>1 DEF PoolInv, PoolCounted
  <2>4. PoolAwake' BY <2>1, <1>4 DEF PoolAwake, Asleep
  <2>5. PoolHeld' BY <2>1, <1>1 DEF PoolInv, PoolHeld
  <2>. QED BY <2>2, <2>3, <2>4, <2>5 DEF PoolInv
<1>5. CASE Those(state, {"asleep"}) # {}
  <2>1. PICK w \in Those(state, {"asleep"}) : state' = [state EXCEPT ![w] = "woken"]
    BY <1>5 DEF NotifyOne, In, Those
  <2>2. w \in Worker /\ state[w] = "asleep" BY DEF Those
  <2>3. Moves(state, state', w) /\ state'[w] = "woken" BY <1>3, <2>1, <2>2 DEF PoolTypeOK, Moves
  <2>4. Busy(state') = Busy(state) /\ Awake(state') = Awake(state) + 1 BY <2>2, <2>3, CountsMove
  <2>5. Awake(state) \in Nat BY CountsAre
  <2>6. PoolTypeOK' BY <2>1, <2>2, <1>1, <1>2 DEF PoolInv, PoolTypeOK, States
  <2>7. PoolCounted' BY <2>4, <1>1 DEF PoolInv, PoolCounted
  <2>8. PoolAwake' BY <1>1, <1>2, <1>5, <2>4, <2>5 DEF PoolInv, PoolAwake, Asleep
  <2>9. PoolHeld' BY <1>1, <2>2, <2>3, CountsMove DEF PoolInv, PoolHeld
  <2>. QED BY <2>6, <2>7, <2>8, <2>9 DEF PoolInv
<1>. QED BY <1>4, <1>5

LEMMA CheckPool == ASSUME PoolConstants, PoolInv, NEW w \in Worker, Check(w) PROVE PoolInv'
<1>1. /\ state[w] \in {"top", "woken"} /\ requests = << >> /\ requests' = requests
      /\ state' = [state EXCEPT ![w] = "false"] /\ waiter' = Notified(w)
      /\ lifo_pulls_since_oldest' = lifo_pulls_since_oldest /\ unfinished' = unfinished
      /\ notifies' = notifies /\ task' = task /\ stop' = stop
  BY DEF Check
<1>2. PoolTypeOK BY DEF PoolInv
<1>3. Moves(state, state', w) /\ state'[w] = "false" BY <1>1, <1>2 DEF PoolTypeOK, Moves
<1>4. PoolTypeOK' BY <1>1, <1>2 DEF PoolTypeOK, States, Waits, Notified
<1>5. Busy(state') = Busy(state) BY <1>1, <1>3, CountsMove
<1>6. PoolCounted' BY <1>1, <1>5 DEF PoolInv, PoolCounted
<1>7. PoolAwake'
  <2>1. Len(requests) = 0 /\ notifies \in Nat BY <1>1, <1>2 DEF PoolTypeOK
  <2>2. Awake(state') \in Nat BY CountsAre
  <2>. QED BY <2>1, <2>2, <1>1 DEF PoolAwake
<1>8. PoolHeld' BY <1>1 DEF PoolHeld
<1>. QED BY <1>4, <1>6, <1>7, <1>8 DEF PoolInv

LEMMA SleepPool == ASSUME PoolConstants, PoolInv, NEW w \in Worker, Sleep(w) PROVE PoolInv'
<1>1. /\ state[w] = "false" /\ requests' = requests /\ waiter' = waiter
      /\ lifo_pulls_since_oldest' = lifo_pulls_since_oldest /\ unfinished' = unfinished
      /\ notifies' = notifies /\ task' = task /\ stop' = stop
  BY DEF Sleep
<1>2. PICK to \in {"asleep", "woken"} : state' = [state EXCEPT ![w] = to] BY DEF Sleep
<1>3. PoolTypeOK BY DEF PoolInv
<1>4. requests = << >> BY <1>1 DEF PoolInv, PoolHeld, Between, Those
<1>5. Moves(state, state', w) /\ state'[w] = to BY <1>2, <1>3 DEF PoolTypeOK, Moves
<1>6. PoolTypeOK' BY <1>1, <1>2, <1>3 DEF PoolTypeOK, States
<1>7. Busy(state') = Busy(state) BY <1>1, <1>5, CountsMove
<1>8. PoolCounted' BY <1>1, <1>7 DEF PoolInv, PoolCounted
<1>9. PoolAwake'
  <2>1. Len(requests) = 0 /\ notifies \in Nat BY <1>4, <1>3 DEF PoolTypeOK
  <2>2. Awake(state') \in Nat BY CountsAre
  <2>. QED BY <2>1, <2>2, <1>1 DEF PoolAwake
<1>10. PoolHeld' BY <1>1, <1>4 DEF PoolHeld
<1>. QED BY <1>6, <1>8, <1>9, <1>10 DEF PoolInv

\* Taking the oldest or the newest of the requests leaves the others as they are.
LEMMA TakenFrom ==
  ASSUME NEW s \in Seq(Task), s # << >>, IsInjective(s), NEW r \in {Tail(s), Front(s)}
  PROVE  r \in Seq(Task) /\ IsInjective(r) /\ Len(r) = Len(s) - 1
<1>1. Len(s) \in Nat /\ Len(s) >= 1 /\ \A i \in 1..Len(s) : s[i] \in Task BY EmptySeq, LenProperties
<1>2. \A i, j \in 1..Len(s) : s[i] = s[j] => i = j BY InToSet
<1>3. CASE r = Tail(s)
  <2>1. /\ Tail(s) \in Seq(Task) /\ Len(Tail(s)) = Len(s) - 1
        /\ \A i \in 1..(Len(s) - 1) : Tail(s)[i] = s[i + 1]
    BY <1>1
  <2>2. \A i, j \in 1..Len(Tail(s)) : Tail(s)[i] = Tail(s)[j] => i = j BY <2>1, <1>1, <1>2
  <2>3. IsInjective(Tail(s)) BY <2>1, <2>2, InToSet
  <2>. QED BY <1>3, <2>1, <2>3
<1>4. CASE r = Front(s)
  <2>1. /\ Front(s) \in Seq(Task) /\ Len(Front(s)) = Len(s) - 1
        /\ \A i \in 1..(Len(s) - 1) : Front(s)[i] = s[i]
    <3>1. PICK k \in 1..Len(s) : k = Len(s) BY <1>1
    <3>2. LET a == SubSeq(s, 1, k - 1)
          IN a \in Seq(Task) /\ Len(a) = k - 1 /\ \A i \in 1..(k - 1) : a[i] = s[i]
      BY <1>1, SubSeqProperties
    <3>. QED BY <3>1, <3>2, Zenon DEF Front
  <2>2. \A i, j \in 1..Len(Front(s)) : Front(s)[i] = Front(s)[j] => i = j BY <2>1, <1>1, <1>2
  <2>3. IsInjective(Front(s)) BY <2>1, <2>2, InToSet
  <2>. QED BY <1>4, <2>1, <2>3
<1>. QED BY <1>3, <1>4

LEMMA TakePool == ASSUME PoolConstants, PoolInv, NEW w \in Worker, Take(w) PROVE PoolInv'
<1>1. /\ state[w] \in {"top", "woken"} /\ requests # << >>
      /\ state' = [state EXCEPT ![w] = "running"]
      /\ unfinished' = unfinished /\ notifies' = notifies /\ waiter' = waiter /\ stop' = stop
  BY DEF Take
<1>2. PoolTypeOK /\ requests \in Seq(Task) /\ IsInjective(requests)
      /\ lifo_pulls_since_oldest \in Nat
  BY DEF PoolInv, PoolTypeOK
<1>3. /\ requests' \in {Tail(requests), Front(requests)}
      /\ lifo_pulls_since_oldest' \in Nat
      /\ \E t \in {Head(requests), Last(requests)} : task' = [task EXCEPT ![w] = {t}]
  BY <1>2 DEF Take, LifoPulls
<1>4. requests' \in Seq(Task) /\ IsInjective(requests') /\ Len(requests') = Len(requests) - 1
      /\ Len(requests) \in Nat
  <2>1. ASSUME NEW r, r \in {Tail(requests), Front(requests)}
        PROVE  r \in Seq(Task) /\ IsInjective(r) /\ Len(r) = Len(requests) - 1
    BY <1>1, <1>2, <2>1, TakenFrom
  <2>2. Len(requests) \in Nat BY <1>2
  <2>. QED BY <1>3, <2>1, <2>2
<1>5. Head(requests) \in Task /\ Last(requests) \in Task
  <2>1. Len(requests) >= 1 /\ Len(requests) \in Nat BY <1>1, <1>2, EmptySeq, LenProperties
  <2>. QED BY <2>1, <1>2 DEF Last
<1>6. task' \in [Worker -> SUBSET Task] BY <1>2, <1>3, <1>5 DEF PoolTypeOK
<1>7. PoolTypeOK' BY <1>1, <1>2, <1>3, <1>4, <1>6 DEF PoolTypeOK, States
<1>8. /\ Busy(state') = Busy(state) + 1 /\ Awake(state') = Awake(state) - 1
      /\ Asleep(state') <=> Asleep(state)
  <2>1. Moves(state, state', w) /\ state'[w] = "running" BY <1>1, <1>2 DEF PoolTypeOK, Moves
  <2>. QED BY <2>1, <1>1, CountsMove
<1>9. Busy(state) \in Nat /\ Awake(state) \in Nat BY CountsAre
<1>10. PoolCounted' BY <1>1, <1>4, <1>8, <1>9 DEF PoolInv, PoolCounted
<1>11. PoolAwake'
  <2>1. notifies \in Nat BY <1>2 DEF PoolTypeOK
  <2>. QED BY <2>1, <1>1, <1>4, <1>8, <1>9 DEF PoolInv, PoolAwake
<1>12. PoolHeld'
  <2>1. MutexFree BY DEF Take
  <2>2. ~Between(state) BY <2>1 DEF MutexFree, In, Between, Those
  <2>3. Moves(state, state', w) /\ state'[w] = "running" BY <1>1, <1>2 DEF PoolTypeOK, Moves
  <2>. QED BY <2>2, <2>3, CountsMove DEF PoolHeld
<1>. QED BY <1>7, <1>10, <1>11, <1>12 DEF PoolInv

LEMMA FinishPool == ASSUME PoolConstants, PoolInv, NEW w \in Worker, Finish(w) PROVE PoolInv'
<1>1. /\ state[w] = "running" /\ state' = [state EXCEPT ![w] = "top"]
      /\ unfinished' = unfinished - 1 /\ task' = [task EXCEPT ![w] = {}]
      /\ requests' = requests /\ lifo_pulls_since_oldest' = lifo_pulls_since_oldest
      /\ notifies' = notifies /\ waiter' = waiter /\ stop' = stop
  BY DEF Finish
<1>2. PoolTypeOK /\ Len(requests) \in Nat /\ unfinished \in Nat /\ notifies \in Nat
  BY DEF PoolInv, PoolTypeOK
<1>3. /\ Busy(state') = Busy(state) - 1 /\ Awake(state') = Awake(state) + 1
      /\ Asleep(state') <=> Asleep(state)
  <2>1. Moves(state, state', w) /\ state'[w] = "top" BY <1>1, <1>2 DEF PoolTypeOK, Moves
  <2>. QED BY <2>1, <1>1, CountsMove
<1>4. Busy(state) \in Nat /\ Awake(state) \in Nat /\ Busy(state) # 0 BY <1>1, CountsAre
<1>5. unfinished' \in Nat BY <1>1, <1>2, <1>4 DEF PoolInv, PoolCounted
<1>6. PoolTypeOK' BY <1>1, <1>2, <1>5 DEF PoolTypeOK, States
<1>7. PoolCounted' BY <1>1, <1>2, <1>3, <1>4 DEF PoolInv, PoolCounted
<1>8. PoolAwake' BY <1>1, <1>2, <1>3, <1>4 DEF PoolInv, PoolAwake
<1>9. PoolHeld'
  <2>1. Moves(state, state', w) /\ state'[w] = "top" BY <1>1, <1>2 DEF PoolTypeOK, Moves
  <2>. QED BY <2>1, <1>1, CountsMove DEF PoolInv, PoolHeld
<1>. QED BY <1>6, <1>7, <1>8, <1>9 DEF PoolInv

LEMMA ExitPool == ASSUME PoolConstants, PoolInv, NEW w \in Worker, Exit(w) PROVE PoolInv'
<1>1. /\ stop # {} /\ state[w] \in {"top", "woken"} /\ state' = [state EXCEPT ![w] = "stopped"]
      /\ requests' = requests /\ lifo_pulls_since_oldest' = lifo_pulls_since_oldest
      /\ unfinished' = unfinished /\ notifies' = notifies /\ task' = task /\ waiter' = waiter
      /\ stop' = stop
  BY DEF Exit
<1>2. PoolTypeOK BY DEF PoolInv
<1>3. Busy(state') = Busy(state) /\ (Between(state') => Between(state))
  <2>1. Moves(state, state', w) /\ state'[w] = "stopped" BY <1>1, <1>2 DEF PoolTypeOK, Moves
  <2>. QED BY <2>1, <1>1, CountsMove
<1>4. PoolTypeOK' BY <1>1, <1>2 DEF PoolTypeOK, States
<1>. QED BY <1>1, <1>3, <1>4 DEF PoolInv, PoolCounted, PoolAwake, PoolHeld

\* The owner waits.
LEMMA WaiterPool ==
  ASSUME PoolConstants, PoolInv, Look \/ Block \/ Return \/ UNCHANGED pool_vars
  PROVE  PoolInv'
<1>1. /\ requests' = requests /\ lifo_pulls_since_oldest' = lifo_pulls_since_oldest
      /\ unfinished' = unfinished /\ notifies' = notifies /\ state' = state /\ task' = task
      /\ stop' = stop
  BY DEF Look, Block, Return, pool_vars
<1>2. waiter' \in Waits
  BY DEF Look, Block, Return, pool_vars, Waits, PoolInv, PoolTypeOK
<1>3. PoolTypeOK' BY <1>1, <1>2 DEF PoolInv, PoolTypeOK
<1>4. PoolCounted' /\ PoolAwake' /\ PoolHeld'
  BY <1>1 DEF PoolInv, PoolCounted, PoolAwake, PoolHeld
<1>. QED BY <1>3, <1>4 DEF PoolInv

LEMMA RequestStopPool ==
  ASSUME PoolConstants, PoolInv, NEW w \in Worker, RequestStop(w) PROVE PoolInv'
<1>1. /\ stop' = stop \cup {w}
      /\ state' = [state EXCEPT ![w] = IF @ = "asleep" THEN "woken" ELSE @]
      /\ requests' = requests /\ lifo_pulls_since_oldest' = lifo_pulls_since_oldest
      /\ unfinished' = unfinished /\ notifies' = notifies /\ task' = task /\ waiter' = waiter
  BY DEF RequestStop, WokenByStop
<1>2. PoolTypeOK BY DEF PoolInv
<1>3. PoolTypeOK' BY <1>1, <1>2 DEF PoolTypeOK, States
<1>4. /\ Those(state', {"running"}) = Those(state, {"running"})
      /\ Those(state', {"false"}) = Those(state, {"false"})
  BY <1>1, <1>2 DEF PoolTypeOK, Those
<1>5. PoolCounted' BY <1>1, <1>4 DEF PoolInv, PoolCounted, Busy, HowMany
<1>6. PoolHeld' BY <1>1, <1>4 DEF PoolInv, PoolHeld, Between
<1>. QED BY <1>1, <1>3, <1>5, <1>6 DEF PoolInv, PoolAwake

LEMMA StepPool == PoolConstants /\ PoolInv /\ [PoolNext]_pool_vars => PoolInv'
BY QueueWorkPool, NotifyOnePool, CheckPool, SleepPool, TakePool, FinishPool, ExitPool,
   WaiterPool, RequestStopPool DEF PoolNext, Work

\* The variables of the pool have their types: above all, the number of requests that are
\* not finished never drops below zero.
THEOREM PoolTypeCorrect == PoolSpec => []PoolTypeOK
<1>1. PoolInit => PoolInv BY PoolConstantsAre, StartPool
<1>2. PoolInv /\ [PoolNext]_pool_vars => PoolInv' BY PoolConstantsAre, StepPool
<1>3. PoolInv => PoolTypeOK BY DEF PoolInv
<1>. QED BY <1>1, <1>2, <1>3, PTL DEF PoolSpec

\* No request waits for a busy worker while another one sleeps: for each request, a
\* worker is awake or a notification is still to come.
THEOREM RequestsWakeWorkers == PoolSpec => []EnoughAwake
<1>1. PoolInit => PoolInv BY PoolConstantsAre, StartPool
<1>2. PoolInv /\ [PoolNext]_pool_vars => PoolInv' BY PoolConstantsAre, StepPool
<1>3. PoolInv => EnoughAwake BY PoolAwakeIs DEF PoolInv
<1>. QED BY <1>1, <1>2, <1>3, PTL DEF PoolSpec

================================================================================
