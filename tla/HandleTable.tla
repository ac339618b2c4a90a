------------------------------ MODULE HandleTable ------------------------------
(******************************************************************************)
(* Kernel::HandleTable (src/core/hle/kernel/handle_table.cpp): the table that *)
(* turns the 32-bit handles of an emulated process into kernel objects.       *)
(*                                                                            *)
(* A handle is a slot index (17 bits) and a generation (15 bits).  The        *)
(* generation of an empty slot doubles as the link of a free list whose head  *)
(* is next_free_slot and whose end is the value MAX_COUNT.                    *)
(******************************************************************************)
EXTENDS Integers, Sequences

CONSTANTS
  MAX_COUNT,   \* number of slots (4096 in the code)
  U16,         \* number of values of a u16 (2^16)
  GEN_LIMIT,   \* first value the 15-bit generation cannot hold (2^15)
  Object,      \* kernel objects
  NoObject,    \* nullptr
  Thread,      \* the object the pseudo handle CurrentThread stands for
  Process      \* the object the pseudo handle CurrentProcess stands for

ASSUME CountAssumption ==
  /\ MAX_COUNT \in Nat \ {0}
  /\ U16 \in Nat /\ MAX_COUNT < U16
  /\ GEN_LIMIT \in Nat /\ GEN_LIMIT > 2 /\ GEN_LIMIT <= U16
ASSUME ObjectAssumption ==
  /\ NoObject \notin Object
  /\ Thread \in Object /\ Process \in Object

VARIABLES
  objects,          \* objects[s]: the object of slot s, or NoObject
  generations,      \* generations[s]: generation of a live slot, link of an empty one
  next_generation,
  next_free_slot,
  recent,           \* history: the handles of the last GEN_LIMIT - 1 creations
  stale             \* history: those of them that have been closed since

vars == <<objects, generations, next_generation, next_free_slot, recent, stale>>

Slot == 0 .. MAX_COUNT - 1

\* Every value the guest can pass: the slot field is 17 bits wide.
Handle == [slot : 0 .. 2 * U16 - 1, generation : 0 .. GEN_LIMIT - 1]

\* KernelHandle pseudo handles 0xFFFF8000 and 0xFFFF8001.
CurrentThread  == [slot |-> 2 * U16 - 1, generation |-> 0]
CurrentProcess == [slot |-> 2 * U16 - 1, generation |-> 1]

\* handle >> 15, returned as a u16: the top bit of the slot field is lost.
GetSlot(handle) == handle.slot % U16

IsValid(handle) ==
  LET slot == GetSlot(handle)
  IN  /\ slot < MAX_COUNT
      /\ objects[slot] # NoObject
      /\ generations[slot] = handle.generation

GetGeneric(handle) ==
  IF handle = CurrentThread THEN Thread
  ELSE IF handle = CurrentProcess THEN Process
  ELSE IF IsValid(handle) THEN objects[GetSlot(handle)]
  ELSE NoObject

--------------------------------------------------------------------------------
\* History: one more creation; only the last GEN_LIMIT - 1 are remembered.
Remember(handle) ==
  LET longer == Append(recent, handle)
      kept   == IF Len(longer) < GEN_LIMIT THEN longer ELSE Tail(longer)
  IN  /\ recent' = kept
      /\ stale'  = {h \in stale : \E i \in 1 .. Len(kept) - 1 : kept[i] = h}

\* Mutant of NextGeneration: a generation that never advances.
SameGeneration(generation) == generation

\* next_generation++, wrapping to 1: generation 0 is never used.
NextGeneration(generation) ==
  IF generation + 1 >= GEN_LIMIT THEN 1 ELSE generation + 1

\* HandleTable::Create; the table is left alone when no slot is free
\* (ResultOutOfHandles).
Create(obj) ==
  \/ /\ next_free_slot >= MAX_COUNT
     /\ UNCHANGED vars
  \/ /\ next_free_slot < MAX_COUNT
     /\ next_free_slot'  = generations[next_free_slot]
     /\ next_generation' = NextGeneration(next_generation)
     /\ generations'     = [generations EXCEPT ![next_free_slot] = next_generation]
     /\ objects'         = [objects EXCEPT ![next_free_slot] = obj]
     /\ Remember([slot |-> next_free_slot, generation |-> next_generation])

Duplicate(handle) ==
  \/ GetGeneric(handle) = NoObject /\ UNCHANGED vars
  \/ GetGeneric(handle) # NoObject /\ Create(GetGeneric(handle))

\* Mutant of Close: without the IsValid check a handle may be closed twice.
CloseUnchecked(handle) ==
  LET slot == GetSlot(handle)
  IN  /\ slot < MAX_COUNT
      /\ objects'        = [objects EXCEPT ![slot] = NoObject]
      /\ generations'    = [generations EXCEPT ![slot] = next_free_slot]
      /\ next_free_slot' = slot
      /\ UNCHANGED <<next_generation, recent, stale>>

\* HandleTable::Close; the object is released and its slot put back at the head of
\* the free list (ResultInvalidHandle otherwise).
Close(handle) ==
  LET slot == GetSlot(handle)
  IN  \/ ~IsValid(handle) /\ UNCHANGED vars
      \/ /\ IsValid(handle)
         /\ objects'        = [objects EXCEPT ![slot] = NoObject]
         /\ generations'    = [generations EXCEPT ![slot] = next_free_slot]
         /\ next_free_slot' = slot
         /\ stale' = stale \cup {h \in {recent[i] : i \in 1 .. Len(recent)} :
                                   GetSlot(h) = slot /\ h.generation = handle.generation}
         /\ UNCHANGED <<next_generation, recent>>

\* HandleTable::Clear: every handle is closed; next_generation is kept.
Clear ==
  /\ generations'    = [s \in Slot |-> s + 1]
  /\ objects'        = [s \in Slot |-> NoObject]
  /\ next_free_slot' = 0
  /\ stale'          = {recent[i] : i \in 1 .. Len(recent)}
  /\ UNCHANGED <<next_generation, recent>>

Init ==
  /\ generations     = [s \in Slot |-> s + 1]
  /\ objects         = [s \in Slot |-> NoObject]
  /\ next_free_slot  = 0
  /\ next_generation = 1
  /\ recent          = <<>>
  /\ stale           = {}

Next ==
  \/ \E obj \in Object : Create(obj)
  \/ \E handle \in Handle : Duplicate(handle) \/ Close(handle)
  \/ Clear

Spec == Init /\ [][Next]_vars

--------------------------------------------------------------------------------
FreeSlots == {s \in Slot : objects[s] = NoObject}

\* The table's variables have the types of the C++ members: a live slot holds a
\* generation in 1..GEN_LIMIT-1 (generation 0 is never handed out), an empty one
\* a link.
TypeOK ==
  /\ objects \in [Slot -> Object \cup {NoObject}]
  /\ generations \in [Slot -> Nat]
  /\ next_free_slot \in 0 .. MAX_COUNT
  /\ next_generation \in 1 .. GEN_LIMIT - 1
  /\ \A s \in Slot : IF objects[s] = NoObject
                     THEN generations[s] \in 0 .. MAX_COUNT
                     ELSE generations[s] \in 1 .. GEN_LIMIT - 1

\* c lists the slots of the free list from its head to its end.
IsFreeList(n, c) ==
  /\ {c[i] : i \in 1 .. n} = FreeSlots
  /\ \A i, j \in 1 .. n : c[i] = c[j] => i = j
  /\ next_free_slot = IF n = 0 THEN MAX_COUNT ELSE c[1]
  /\ \A i \in 1 .. n : generations[c[i]] = IF i = n THEN MAX_COUNT ELSE c[i + 1]

\* The list threaded through the generations of empty slots visits every empty
\* slot exactly once and no live one: HandleTable::Create fails only when all
\* MAX_COUNT slots are live, and no slot is lost or handed out twice.
FreeListComplete ==
  \E n \in 0 .. MAX_COUNT : \E c \in [1 .. n -> Slot] : IsFreeList(n, c)

\* HandleTable::Create never overwrites a live slot: the object a slot names only
\* ever changes through an empty slot.
NoOverwrite ==
  [][\A s \in Slot : objects[s] # NoObject => objects'[s] \in {objects[s], NoObject}]_vars

\* A closed handle stays invalid while fewer than GEN_LIMIT - 1 handles have been
\* created since it was: reusing its slot does not bring it back
\* (handle_table.h: "To prevent accidental use of a freed Handle whose slot has
\* already been reused").
StaleHandlesInvalid == \A h \in stale : ~IsValid(h)

================================================================================
