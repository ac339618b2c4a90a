----------------------------- MODULE PriorityFIFO ------------------------------
(******************************************************************************)
(* What the scheduler expects of its ready queue: one FIFO of threads for each*)
(* priority, and lookups that answer with the head of the best FIFO that is   *)
(* not empty, among the priorities better than a bound.                       *)
(******************************************************************************)
EXTENDS Integers, Sequences, SequencesExt

CONSTANTS Thread, NoThread, Priority,
          Lookup,     \* the lookups: records with fields pop and bound
          NoLookup

VARIABLES queues,     \* queues[p]: the threads ready at priority p
          lookup,     \* the lookup in progress, or NoLookup
          result      \* the answer of the last lookup

vars == <<queues, lookup, result>>

Queued(t) == \E p \in Priority : t \in ToSet(queues[p])

PushFront(p, t) == ~Queued(t) /\ queues' = [queues EXCEPT ![p] = <<t>> \o @]
PushBack(p, t)  == ~Queued(t) /\ queues' = [queues EXCEPT ![p] = Append(@, t)]
Take(p, t)      == queues' = [queues EXCEPT ![p] = RemoveFirst(@, t)]
Move(t, old, new) ==
  LET without == [queues EXCEPT ![old] = RemoveFirst(@, t)]
  IN  /\ t \in ToSet(queues[old])
      /\ queues' = [without EXCEPT ![new] = Append(@, t)]
Rotate(p) ==
  /\ Len(queues[p]) > 1
  /\ queues' = [queues EXCEPT ![p] = Append(Tail(@), Head(@))]
Clear == queues' = [p \in Priority |-> <<>>]

Change ==
  /\ lookup = NoLookup
  /\ \/ \E p \in Priority, t \in Thread : PushFront(p, t) \/ PushBack(p, t) \/ Take(p, t)
     \/ \E t \in Thread, old, new \in Priority : Move(t, old, new)
     \/ \E p \in Priority : Rotate(p)
     \/ Clear
  /\ UNCHANGED <<lookup, result>>

Ask ==
  /\ lookup = NoLookup
  /\ lookup' \in Lookup
  /\ UNCHANGED <<queues, result>>

\* p is the best priority that has a thread.
IsBest(p) == queues[p] # <<>> /\ \A q \in Priority : q < p => queues[q] = <<>>

Found ==
  /\ lookup # NoLookup
  /\ \E p \in Priority :
       /\ IsBest(p) /\ p < lookup.bound
       /\ result' = Head(queues[p])
       /\ queues' = IF lookup.pop THEN [queues EXCEPT ![p] = Tail(@)] ELSE queues
  /\ lookup' = NoLookup

NotFound ==
  /\ lookup # NoLookup
  /\ \A p \in Priority : p < lookup.bound => queues[p] = <<>>
  /\ result' = NoThread
  /\ lookup' = NoLookup
  /\ UNCHANGED queues

Init ==
  /\ queues = [p \in Priority |-> <<>>]
  /\ lookup = NoLookup
  /\ result = NoThread

Next == Change \/ Ask \/ Found \/ NotFound

Spec == Init /\ [][Next]_vars
================================================================================
