--------------------------- MODULE ThreadQueueList -----------------------------
(******************************************************************************)
(* Common::ThreadQueueList (src/common/thread_queue_list.h), the ready queue  *)
(* of a core.  Every priority has a level with a deque of threads; the levels *)
(* that have ever been prepared are linked in a list, and only those are      *)
(* looked at.  A lookup walks that list, one step for each level.             *)
(*                                                                            *)
(* The callers in kernel/thread.cpp call prepare before a thread gets its     *)
(* priority (CreateThread, SetPriority, BoostPriority), so they push to       *)
(* prepared levels only, push a thread only when it is in no queue, and pass  *)
(* pop_first_better the priority of a thread, which is a prepared level.      *)
(******************************************************************************)
EXTENDS Integers, Sequences, SequencesExt

CONSTANTS
  NUM_QUEUES,   \* number of priorities (64 in the code)
  Thread,
  NoThread      \* nullptr

ASSUME QueuesAssumption == NUM_QUEUES \in Nat \ {0}
ASSUME ThreadAssumption == NoThread \notin Thread

Priority == 0 .. NUM_QUEUES - 1

\* Addresses of levels: the null pointer and the tag of a level that was never
\* prepared compare less than every level, as they do in pop_first_better.
nullptr     == -1
UnlinkedTag == -2
Queue       == Priority \cup {nullptr}

\* get_first and pop_first have no bound, pop_first_better stops at a level.
Lookup   == [pop : BOOLEAN, bound : 0 .. NUM_QUEUES]
NoLookup == [pop |-> FALSE, bound |-> -1]

VARIABLES
  data,           \* data[p]: the threads of level p
  next_nonempty,  \* next_nonempty[p]: the level linked after p
  first,          \* the first linked level
  lookup,         \* the lookup in progress
  cur,            \* the level its walk has come to
  result          \* the thread the last lookup returned

walk_vars == <<lookup, cur, result>>
vars == <<data, next_nonempty, first, walk_vars>>

Linked(p) == next_nonempty[p] # UnlinkedTag

Queued(t) == \E p \in Priority : t \in ToSet(data[p])

--------------------------------------------------------------------------------
\* Mutant of link: the rest of the list is lost.
LinkLast(p) ==
  \/ /\ \A i \in 0 .. p - 1 : ~Linked(i)
     /\ next_nonempty' = [next_nonempty EXCEPT ![p] = first] /\ first' = p
  \/ \E i \in 0 .. p - 1 :
       /\ Linked(i) /\ \A j \in i + 1 .. p - 1 : ~Linked(j)
       /\ next_nonempty' = [next_nonempty EXCEPT ![i] = p, ![p] = nullptr]
       /\ UNCHANGED first

\* The level goes behind the nearest linked one before it.
link(p) ==
  \/ /\ \A i \in 0 .. p - 1 : ~Linked(i)
     /\ next_nonempty' = [next_nonempty EXCEPT ![p] = first] /\ first' = p
  \/ \E i \in 0 .. p - 1 :
       /\ Linked(i) /\ \A j \in i + 1 .. p - 1 : ~Linked(j)
       /\ next_nonempty' = [next_nonempty EXCEPT ![i] = p, ![p] = next_nonempty[i]]
       /\ UNCHANGED first

prepare(p) ==
  \/ ~Linked(p) /\ link(p)
  \/ Linked(p) /\ UNCHANGED <<next_nonempty, first>>

Prepare(p) ==
  /\ lookup = NoLookup
  /\ prepare(p)
  /\ UNCHANGED <<data, walk_vars>>

push_front(p, t) ==
  /\ lookup = NoLookup /\ Linked(p) /\ ~Queued(t)
  /\ data' = [data EXCEPT ![p] = <<t>> \o @]
  /\ UNCHANGED <<next_nonempty, first, walk_vars>>

push_back(p, t) ==
  /\ lookup = NoLookup /\ Linked(p) /\ ~Queued(t)
  /\ data' = [data EXCEPT ![p] = Append(@, t)]
  /\ UNCHANGED <<next_nonempty, first, walk_vars>>

move(t, old_priority, new_priority) ==
  LET without == [data EXCEPT ![old_priority] = RemoveFirst(@, t)]
  IN  /\ lookup = NoLookup /\ t \in ToSet(data[old_priority])
      /\ prepare(new_priority)
      /\ data' = [without EXCEPT ![new_priority] = Append(@, t)]
      /\ UNCHANGED walk_vars

\* A thread is in a level at most once, so removing the first is removing all.
remove(p, t) ==
  /\ lookup = NoLookup
  /\ data' = [data EXCEPT ![p] = RemoveFirst(@, t)]
  /\ UNCHANGED <<next_nonempty, first, walk_vars>>

rotate(p) ==
  /\ lookup = NoLookup /\ Len(data[p]) > 1
  /\ data' = [data EXCEPT ![p] = Append(Tail(@), Head(@))]
  /\ UNCHANGED <<next_nonempty, first, walk_vars>>

clear ==
  /\ lookup = NoLookup
  /\ data' = [p \in Priority |-> <<>>]
  /\ next_nonempty' = [p \in Priority |-> UnlinkedTag]
  /\ first' = nullptr
  /\ UNCHANGED walk_vars

StartLookup(pop, bound) ==
  /\ lookup = NoLookup
  /\ lookup' = [pop |-> pop, bound |-> bound]
  /\ cur' = first
  /\ UNCHANGED <<data, next_nonempty, first, result>>

get_first           == StartLookup(FALSE, NUM_QUEUES)
pop_first           == StartLookup(TRUE, NUM_QUEUES)
pop_first_better(p) == Linked(p) /\ StartLookup(TRUE, p)

\* The condition of the loop: pop_first_better compares addresses, the others look
\* for the null pointer.
Continue == IF lookup.bound < NUM_QUEUES THEN cur < lookup.bound ELSE cur # nullptr

\* Mutant of WalkOn: the first linked level is not looked at.
WalkPast ==
  /\ lookup # NoLookup /\ Continue
  /\ (data[cur] = <<>> \/ cur = first)
  /\ cur' = next_nonempty[cur]
  /\ UNCHANGED <<data, next_nonempty, first, lookup, result>>

WalkOn ==
  /\ lookup # NoLookup /\ Continue
  /\ data[cur] = <<>>
  /\ cur' = next_nonempty[cur]
  /\ UNCHANGED <<data, next_nonempty, first, lookup, result>>

Found ==
  /\ lookup # NoLookup /\ Continue
  /\ data[cur] # <<>>
  /\ result' = Head(data[cur])
  /\ data' = IF lookup.pop THEN [data EXCEPT ![cur] = Tail(@)] ELSE data
  /\ lookup' = NoLookup
  /\ UNCHANGED <<next_nonempty, first, cur>>

NotFound ==
  /\ lookup # NoLookup /\ ~Continue
  /\ result' = NoThread
  /\ lookup' = NoLookup
  /\ UNCHANGED <<data, next_nonempty, first, cur>>

Init ==
  /\ data = [p \in Priority |-> <<>>]
  /\ next_nonempty = [p \in Priority |-> UnlinkedTag]
  /\ first = nullptr
  /\ lookup = NoLookup
  /\ cur = nullptr
  /\ result = NoThread

Next ==
  \/ \E p \in Priority : Prepare(p) \/ rotate(p) \/ pop_first_better(p)
  \/ \E p \in Priority, t \in Thread : push_front(p, t) \/ push_back(p, t) \/ remove(p, t)
  \/ \E t \in Thread, old, new \in Priority : move(t, old, new)
  \/ clear
  \/ get_first \/ pop_first
  \/ WalkOn \/ Found \/ NotFound

Spec == Init /\ [][Next]_vars

--------------------------------------------------------------------------------
\* The variables have the types of the C++ members.
TypeOK ==
  /\ data \in [Priority -> Seq(Thread)]
  /\ next_nonempty \in [Priority -> Queue \cup {UnlinkedTag}]
  /\ first \in Queue
  /\ lookup \in Lookup \cup {NoLookup}
  /\ cur \in Queue
  /\ result \in Thread \cup {NoThread}

\* q is the nearest linked level after p, or null when there is none.
IsNext(p, q) ==
  IF q = nullptr THEN \A r \in Priority : r > p => ~Linked(r)
  ELSE q > p /\ Linked(q) /\ \A r \in Priority : p < r /\ r < q => ~Linked(r)

\* The list links exactly the prepared levels in the order of their priorities,
\* whatever the order in which they were prepared, and every thread is in a linked
\* level: link inserts each level at its place and loses none behind it.
LevelsInOrder ==
  /\ IsNext(-1, first)
  /\ \A p \in Priority : Linked(p) => IsNext(p, next_nonempty[p])
  /\ \A p \in Priority : data[p] # <<>> => Linked(p)

\* The walk of a lookup never reaches a null level that it would dereference: the
\* loop of pop_first_better compares addresses and has no other test for null.
NoNullLevel == lookup # NoLookup /\ Continue => cur \in Priority

\* The linked levels behave as one FIFO per priority: every lookup answers with the
\* head of the best level that is not empty, and null only when there is none.
FIFO == INSTANCE PriorityFIFO WITH queues <- data
ImplementsFIFO == FIFO!Spec

================================================================================
