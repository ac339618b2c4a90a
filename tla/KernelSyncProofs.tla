--------------------------- MODULE KernelSyncProofs ----------------------------
(******************************************************************************)
(* Theorems about KernelSync for every set of threads and objects, every      *)
(* number of cores and of priorities, and every list of objects to wait for.  *)
(* The first part is about the scheduler's queues and the threads that        *)
(* execute, the second about waits and their ends.                            *)
(******************************************************************************)
EXTENDS KernelSync, SequenceLemmas, FiniteSetTheorems

ReadyQueues == [Core -> [Priority -> Seq(Thread)]]

--------------------------------------------------------------------------------
\* The call stack.

LEMMA CallFields ==
  ASSUME NEW c \in Call
  PROVE  /\ c.op = "WakeupAllWaitingThreads" => c.obj \in WaitObject
         /\ c.op = "AddWaitingThread" => c.thread \in Thread /\ c.objs \in Seq(WaitObject)
                                          /\ c.objs # <<>>
         /\ c.op \in {"RemoveWaitingThread", "ResumeFromWait", "ReleaseThreadMutexes"}
              => c.thread \in Thread
         /\ c.op = "RearmTimer" => c.obj \in Timer
         /\ c.op = "UpdatePending" => c.mutexes \in SUBSET Mutex
         /\ c.op = "TerminateProcessThreads" => c.process \in Process /\ c.core \in Core
BY DEF Call

LEMMA MadeCalls ==
  /\ \A o \in WaitObject : Wakeup(o) \in Call
  /\ \A t \in Thread : Leave(t) \in Call /\ Resume(t) \in Call /\ ReleaseMutexes(t) \in Call
  /\ \A t \in Thread, objs \in Seq(WaitObject) : objs # <<>> => Enter(t, objs) \in Call
  /\ \A o \in Timer : Rearm(o) \in Call
  /\ \A ms \in SUBSET Mutex : UpdatePending(ms) \in Call
  /\ \A p \in Process, c \in Core : Terminate(p, c) \in Call
BY DEF Call, Wakeup, Leave, Resume, ReleaseMutexes, Enter, Rearm, UpdatePending, Terminate

LEMMA MadeSequences ==
  ASSUME NEW t \in Thread
  PROVE  WakingCalls(t) \in Seq(Call) /\ StoppingCalls(t) \in Seq(Call)
<1>1. Leave(t) \in Call /\ Resume(t) \in Call /\ ReleaseMutexes(t) \in Call /\ Wakeup(t) \in Call
  BY MadeCalls DEF WaitObject
<1>2. QED BY <1>1 DEF WakingCalls, StoppingCalls

LEMMA TopCall ==
  ASSUME calls \in Seq(Call), NEW op, Calling(op)
  PROVE  Top \in Call /\ Top.op = op /\ Tail(calls) \in Seq(Call)
<1>1. calls # <<>> /\ Head(calls).op = op
  BY DEF Calling
<1>2. QED BY <1>1, HeadTailProperties DEF Top

--------------------------------------------------------------------------------
\* The ready queues.

LEMMA QueueTypes ==
  ASSUME NEW q \in ReadyQueues, NEW t \in Thread, NEW p \in Priority, NEW r \in Priority
  PROVE  /\ QueueRemove(q, t, p) \in ReadyQueues
         /\ QueuePushBack(q, t, p) \in ReadyQueues
         /\ QueuePushFront(q, t, p) \in ReadyQueues
         /\ QueueMove(q, t, p, r) \in ReadyQueues
<1>0. CoreOf[t] \in Core
  BY ConstantAssumption
<1>1. \A s \in Seq(Thread) : /\ RemoveFirst(s, t) \in Seq(Thread)
                             /\ Append(s, t) \in Seq(Thread) /\ <<t>> \o s \in Seq(Thread)
  BY RemoveFirstType
<1>2. ASSUME NEW x \in ReadyQueues, NEW y \in Priority
      PROVE  QueueRemove(x, t, y) \in ReadyQueues /\ QueuePushBack(x, t, y) \in ReadyQueues
  BY <1>0, <1>1 DEF ReadyQueues, QueueRemove, QueuePushBack
<1>3. QueuePushFront(q, t, p) \in ReadyQueues
  BY <1>0, <1>1 DEF ReadyQueues, QueuePushFront
<1>4. QueueMove(q, t, p, r) \in ReadyQueues
  BY <1>2 DEF QueueMove
<1>5. QED BY <1>2, <1>3, <1>4

\* A least priority is a priority.
LEMMA MinPriority ==
  ASSUME NEW S \in SUBSET Priority, S # {}
  PROVE  Min(S) \in S /\ \A p \in S : Min(S) <= p
BY MinIsLeast DEF Priority

LEMMA BestPriorityType ==
  ASSUME TypeOK, NEW t \in Thread, NEW held \in SUBSET Mutex,
         NEW priorities \in [Mutex -> Priority]
  PROVE  BestPriority(t, held, priorities) \in Priority
<1> DEFINE S == {nominal_priority[t]} \cup {priorities[m] : m \in held}
<1>1. S \in SUBSET Priority /\ S # {}
  BY DEF TypeOK
<1>2. QED BY <1>1, MinPriority DEF BestPriority

LEMMA BoostType ==
  ASSUME TypeOK, NEW t \in Thread, NEW p \in Priority, BoostPriority(t, p)
  PROVE  current_priority' \in [Thread -> Priority] /\ ready_queue' \in ReadyQueues
<1>1. ready_queue \in ReadyQueues /\ current_priority[t] \in Priority
  BY DEF TypeOK, ReadyQueues
<1>2. QueueMove(ready_queue, t, current_priority[t], p) \in ReadyQueues
  BY <1>1, QueueTypes
<1>3. QED BY <1>1, <1>2 DEF TypeOK, BoostPriority

LEMMA FirstReadyType ==
  ASSUME TypeOK, NEW c \in Core, NEW bound
  PROVE  \/ FirstReady(c, bound) = NoThread /\ ReadyLevels(c, bound) = {}
         \/ \E p \in ReadyLevels(c, bound) :
              /\ \A r \in ReadyLevels(c, bound) : p <= r
              /\ FirstReady(c, bound) = Head(ready_queue[c][p])
              /\ FirstReady(c, bound) \in Thread
<1>1. CASE ReadyLevels(c, bound) = {}
  BY <1>1 DEF FirstReady
<1>2. CASE ReadyLevels(c, bound) # {}
  <2> DEFINE p == Min(ReadyLevels(c, bound))
  <2>1. p \in ReadyLevels(c, bound) /\ \A r \in ReadyLevels(c, bound) : p <= r
    BY <1>2, MinPriority DEF ReadyLevels
  <2>2. ready_queue[c][p] \in Seq(Thread) /\ ready_queue[c][p] # <<>>
    BY <2>1 DEF ReadyLevels, TypeOK
  <2>3. Head(ready_queue[c][p]) \in Thread
    BY <2>2, HeadTailProperties
  <2>4. FirstReady(c, bound) = Head(ready_queue[c][p])
    BY <1>2 DEF FirstReady
  <2> HIDE DEF p
  <2>5. QED BY <2>1, <2>3, <2>4
<1>3. QED BY <1>1, <1>2

--------------------------------------------------------------------------------
\* The objects.

LEMMA OccurrencesType ==
  ASSUME NEW o, NEW S, NEW objs \in Seq(S)
  PROVE  /\ Occurrences(o, objs) \in Nat
         /\ o \in ToSet(objs) <=> Occurrences(o, objs) > 0
<1> DEFINE I == {i \in DOMAIN objs : objs[i] = o}
<1>1. IsFiniteSet(I)
  <2>1. DOMAIN objs = 1 .. Len(objs)
    OBVIOUS
  <2>2. IsFiniteSet(1 .. Len(objs))
    BY FS_Interval
  <2>3. QED BY <2>1, <2>2, FS_Subset
<1>2. Cardinality(I) \in Nat /\ (Cardinality(I) = 0 <=> I = {})
  BY <1>1, FS_CardinalityType, FS_EmptySet
<1>3. o \in ToSet(objs) <=> I # {}
  BY DEF ToSet
<1>4. QED BY <1>2, <1>3 DEF Occurrences

\* An s32 addition gives an s32.
LEMMA Add32Type ==
  ASSUME NEW x \in Int32, NEW y \in Int32
  PROVE  Add32(x, y) \in Int32
<1>1. IntMax \in Nat /\ x \in Int /\ y \in Int
  BY ConstantAssumption DEF Int32
<1> DEFINE n == 2 * (IntMax + 1)
           z == x + y + IntMax + 1
<1>2. n \in Nat /\ n > 0 /\ z \in Int
  BY <1>1
<1> HIDE DEF z
<1>3. z % n \in 0 .. n - 1
  <2> HIDE DEF n
  <2>1. QED BY <1>2
<1>4. Add32(x, y) = (z % n) - (IntMax + 1)
  BY DEF Add32, z
<1> DEFINE r == z % n
<1>5. r \in 0 .. 2 * (IntMax + 1) - 1 /\ Add32(x, y) = r - (IntMax + 1)
  BY <1>3, <1>4
<1> HIDE DEF r
<1>6. QED BY <1>1, <1>5 DEF Int32

\* Semaphore::Acquire leaves a count alone that is not positive, and lowers one that
\* is to zero at most.
LEMMA AcquiredCount ==
  ASSUME TypeOK, NEW objs \in Seq(WaitObject), NEW s \in Semaphore
  PROVE  /\ available_count[s] \in Int
         /\ available_count[s] <= 0 => AcquireCounts(objs)[s] = available_count[s]
         /\ available_count[s] > 0 => AcquireCounts(objs)[s] \in 0 .. available_count[s]
<1>1. Occurrences(s, objs) \in Nat
  BY OccurrencesType
<1>2. available_count[s] \in Int
  BY ConstantAssumption DEF TypeOK, Int32
<1> DEFINE a == available_count[s]
           n == Occurrences(s, objs)
<1>3. AcquireCounts(objs)[s] = CASE a <= 0 -> a [] n < a -> a - n [] OTHER -> 0
  BY DEF AcquireCounts
<1> HIDE DEF a, n
<1>4. a \in Int /\ n \in Nat
  BY <1>1, <1>2 DEF a, n
<1>5. /\ a <= 0 => AcquireCounts(objs)[s] = a
      /\ a > 0 => AcquireCounts(objs)[s] \in 0 .. a
  BY ONLY <1>3, <1>4
<1>6. QED BY <1>4, <1>5 DEF a

\* What a thread acquires keeps the types of the objects.
LEMMA AcquireType ==
  ASSUME TypeOK, NEW t \in Thread, NEW objs \in Seq(WaitObject), Acquire(objs, t)
  PROVE  /\ signaled' \in [Signalable -> BOOLEAN]
         /\ available_count' \in [Semaphore -> Int32]
         /\ \A s \in Semaphore : available_count'[s] <= MaxCount[s]
         /\ lock_count' \in [Mutex -> Nat]
         /\ holding_thread' \in [Mutex -> Thread \cup {NoThread}]
         /\ mutex_priority' \in [Mutex -> Priority]
         /\ current_priority' \in [Thread -> Priority]
         /\ ready_queue' \in ReadyQueues
         /\ halted' \in BOOLEAN /\ reschedule_pending' \in BOOLEAN
<1>0. \A o : Occurrences(o, objs) \in Nat
  BY OccurrencesType
<1>1. signaled' \in [Signalable -> BOOLEAN]
  <2>1. signaled' = [o \in Signalable |->
                       signaled[o] /\ ~(o \in ToSet(objs) /\ ResetType[o] = "OneShot")]
    BY DEF Acquire, AcquireSignals
  <2>2. QED BY <2>1
<1>2. /\ available_count' \in [Semaphore -> Int32]
      /\ \A s \in Semaphore : available_count'[s] <= MaxCount[s]
  <2>1. available_count' = AcquireCounts(objs)
    BY DEF Acquire
  <2>2. ASSUME NEW s \in Semaphore
        PROVE  available_count'[s] \in Int32 /\ available_count'[s] <= MaxCount[s]
    <3>1. /\ available_count[s] \in Int32 /\ MaxCount[s] \in Int32
          /\ available_count[s] <= MaxCount[s] /\ IntMax \in Nat
      BY ConstantAssumption DEF TypeOK
    <3>2. CASE available_count[s] <= 0
      BY <2>1, <3>1, <3>2, AcquiredCount
    <3>3. CASE available_count[s] > 0
      <4>1. available_count'[s] \in 0 .. available_count[s]
        BY <2>1, <3>1, <3>3, AcquiredCount
      <4>2. QED BY ONLY <3>1, <3>3, <4>1 DEF Int32
    <3>4. QED BY <3>1, <3>2, <3>3 DEF Int32
  <2>3. available_count' = [s \in Semaphore |-> available_count'[s]]
    BY <2>1 DEF AcquireCounts
  <2>4. QED BY <2>2, <2>3
<1>3. lock_count' \in [Mutex -> Nat]
  <2>1. lock_count' = [m \in Mutex |-> lock_count[m] + Occurrences(m, objs)]
    BY DEF Acquire
  <2>2. lock_count \in [Mutex -> Nat]
    BY DEF TypeOK
  <2>3. QED BY ONLY <1>0, <2>1, <2>2
<1>4. /\ holding_thread' \in [Mutex -> Thread \cup {NoThread}]
      /\ mutex_priority' \in [Mutex -> Priority]
  BY DEF TypeOK, Acquire
<1> DEFINE best == BestPriority(t, {m \in Mutex : holding_thread'[m] = t}, mutex_priority')
<1>5. best \in Priority
  BY <1>4, BestPriorityType
<1> HIDE DEF best
<1>6. \/ BoostPriority(t, best) /\ PrepareReschedule
      \/ UNCHANGED <<current_priority, ready_queue, halt_vars>>
  BY DEF Acquire, best
<1>7. current_priority' \in [Thread -> Priority] /\ ready_queue' \in ReadyQueues
  <2>1. CASE BoostPriority(t, best)
    BY <1>5, <2>1, BoostType
  <2>2. CASE UNCHANGED <<current_priority, ready_queue>>
    BY <2>2 DEF TypeOK, ReadyQueues
  <2>3. QED BY <1>6, <2>1, <2>2
<1>8. halted' \in BOOLEAN /\ reschedule_pending' \in BOOLEAN
  BY <1>6, Zenon DEF PrepareReschedule, TypeOK, halt_vars
<1>9. QED BY <1>1, <1>2, <1>3, <1>4, <1>7, <1>8

LEMMA UpdateMutexPriorityType ==
  ASSUME TypeOK, NEW m \in Mutex, NEW ws \in Seq(Thread), UpdateMutexPriority(m, ws)
  PROVE  /\ mutex_priority' \in [Mutex -> Priority]
         /\ current_priority' \in [Thread -> Priority]
         /\ ready_queue' \in ReadyQueues
<1> DEFINE S == {ThreadPrioLowest} \cup {current_priority[w] : w \in ToSet(ws)}
           holder == holding_thread[m]
           best == BestPriority(holder, HeldMutexes(holder), mutex_priority')
<1>1. CASE UNCHANGED <<mutex_priority, current_priority, ready_queue>>
  BY <1>1 DEF TypeOK, ReadyQueues
<1>2. CASE holder # NoThread /\ mutex_priority' = [mutex_priority EXCEPT ![m] = Min(S)]
           /\ BoostPriority(holder, best)
  <2>1. S \in SUBSET Priority /\ S # {}
    <3>1. \A w \in ToSet(ws) : w \in Thread
      BY DEF ToSet
    <3>2. ThreadPrioLowest \in Priority
      BY ConstantAssumption DEF Priority
    <3>3. QED BY <3>1, <3>2 DEF TypeOK
  <2>2. Min(S) \in Priority
    BY <2>1, MinPriority
  <2> HIDE DEF S
  <2>3. mutex_priority' \in [Mutex -> Priority]
    BY <1>2, <2>2 DEF TypeOK
  <2>4. holder \in Thread /\ HeldMutexes(holder) \in SUBSET Mutex
    BY <1>2 DEF TypeOK, HeldMutexes
  <2> HIDE DEF holder
  <2>5. best \in Priority
    BY <2>3, <2>4, BestPriorityType
  <2> HIDE DEF best
  <2>6. QED BY <1>2, <2>3, <2>4, <2>5, BoostType
<1>3. QED BY <1>1, <1>2 DEF UpdateMutexPriority

--------------------------------------------------------------------------------
\* Kernel calls keep the types.

\* A call returns to the rest of the stack.
LEMMA ReturnType ==
  ASSUME TypeOK, NEW op, Calling(op), NEW more \in Seq(Call), Return(more)
  PROVE  calls' \in Seq(Call)
<1>1. Tail(calls) \in Seq(Call)
  BY TopCall DEF TypeOK
<1>2. QED BY <1>1 DEF Return

LEMMA ReturnOnlyType ==
  ASSUME TypeOK, NEW op, Calling(op), Return(<<>>)
  PROVE  calls' \in Seq(Call)
<1>1. <<>> \in Seq(Call)
  OBVIOUS
<1>2. QED BY <1>1, ReturnType, Zenon

LEMMA WakeupOneType ==
  ASSUME TypeOK, WakeupOne
  PROVE  TypeOK'
<1>1. Top.obj \in WaitObject /\ calls \in Seq(Call)
  <2>1. Calling("WakeupAllWaitingThreads") /\ calls \in Seq(Call)
    BY DEF WakeupOne, TypeOK
  <2>2. QED BY <2>1, TopCall, CallFields
<1>2. PICK i \in DOMAIN waiting_threads[Top.obj] :
        LET t == waiting_threads[Top.obj][i]
        IN  /\ Acquire(IF status[t] = "WaitSynchAll" THEN wait_objects[t] ELSE <<Top.obj>>, t)
            /\ result' = [result EXCEPT ![t] = "Success"]
            /\ calls' = WakingCalls(t) \o calls
  BY Zenon DEF WakeupOne
<1> DEFINE t == waiting_threads[Top.obj][i]
           objs == IF status[t] = "WaitSynchAll" THEN wait_objects[t] ELSE <<Top.obj>>
<1>3. t \in Thread
  BY <1>1 DEF TypeOK
<1>4. objs \in Seq(WaitObject)
  BY <1>1, <1>3 DEF TypeOK
<1>5. Acquire(objs, t) /\ result' = [result EXCEPT ![t] = "Success"]
      /\ calls' = WakingCalls(t) \o calls
  BY <1>2
<1> HIDE DEF t, objs
<1>6. calls' \in Seq(Call) /\ result' \in [Thread -> {"Success", "Timeout"}]
  BY <1>1, <1>3, <1>5, MadeSequences DEF TypeOK
<1>7. QED BY <1>3, <1>4, <1>5, <1>6, AcquireType DEF WakeupOne, TypeOK, ReadyQueues, loop_vars

LEMMA WakeupDoneType ==
  ASSUME TypeOK, WakeupDone
  PROVE  TypeOK'
<1>1. calls' \in Seq(Call)
  BY ReturnOnlyType, Zenon DEF WakeupDone
<1>2. signaled' \in [Signalable -> BOOLEAN]
  <2>1. signaled' = [o \in Signalable |->
                       signaled[o] /\ ~(o = Top.obj /\ ResetType[o] = "Pulse")]
    BY DEF WakeupDone
  <2>2. QED BY <2>1
<1>3. QED
  BY <1>1, <1>2 DEF WakeupDone, TypeOK, priority_vars, wait_vars, mutex_vars, loop_vars, halt_vars

\* The priorities after an object of a list was added or removed.
LEMMA ListPriorityType ==
  ASSUME TypeOK, NEW o, NEW ws \in Seq(Thread),
         IF o \in Mutex THEN UpdateMutexPriority(o, ws)
         ELSE UNCHANGED <<mutex_priority, current_priority, ready_queue>>
  PROVE  /\ mutex_priority' \in [Mutex -> Priority]
         /\ current_priority' \in [Thread -> Priority]
         /\ ready_queue' \in ReadyQueues
<1>1. CASE o \in Mutex
  BY <1>1, UpdateMutexPriorityType
<1>2. CASE o \notin Mutex
  BY <1>2 DEF TypeOK, ReadyQueues
<1>3. QED BY <1>1, <1>2

LEMMA AddWaitingThreadType ==
  ASSUME TypeOK, AddWaitingThread
  PROVE  TypeOK'
<1> DEFINE t == Top.thread
           o == Head(Top.objs)
           ws == IF t \in ToSet(waiting_threads[o]) THEN waiting_threads[o]
                 ELSE Append(waiting_threads[o], t)
           more == IF Len(Top.objs) = 1 THEN <<>> ELSE <<Enter(t, Tail(Top.objs))>>
<1>1. Calling("AddWaitingThread")
  BY DEF AddWaitingThread
<1>2. t \in Thread /\ Top.objs \in Seq(WaitObject) /\ Top.objs # <<>>
  BY <1>1, TopCall, CallFields DEF TypeOK
<1>3. o \in WaitObject /\ ws \in Seq(Thread)
  BY <1>2 DEF TypeOK
<1>4. more \in Seq(Call)
  <2>1. CASE Len(Top.objs) = 1
    BY <2>1
  <2>2. CASE Len(Top.objs) # 1
    <3>1. Tail(Top.objs) \in Seq(WaitObject) /\ Tail(Top.objs) # <<>>
      <4> HIDE DEF t, o, ws, more
      <4>1. /\ Tail(Top.objs) \in Seq(WaitObject)
            /\ Len(Tail(Top.objs)) = Len(Top.objs) - 1 /\ Len(Top.objs) \in Nat \ {0}
        BY <1>2, HeadTailProperties, EmptySeq
      <4>2. Len(Tail(Top.objs)) # 0
        BY <2>2, <4>1
      <4>3. QED BY <4>1, <4>2, EmptySeq, Zenon
    <3>2. Enter(t, Tail(Top.objs)) \in Call
      BY <1>2, <3>1, MadeCalls
    <3>3. QED BY <2>2, <3>2
  <2>3. QED BY <2>1, <2>2
<1>5. /\ waiting_threads' = [waiting_threads EXCEPT ![o] = ws]
      /\ wait_objects' = [wait_objects EXCEPT ![t] = Append(@, o)]
      /\ IF o \in Mutex THEN UpdateMutexPriority(o, ws)
         ELSE UNCHANGED <<mutex_priority, current_priority, ready_queue>>
      /\ Return(more)
  BY Zenon DEF AddWaitingThread
<1> HIDE DEF t, o, ws, more
<1>6. calls' \in Seq(Call)
  BY <1>1, <1>4, <1>5, ReturnType
<1>7. /\ waiting_threads' \in [WaitObject -> Seq(Thread)]
      /\ wait_objects' \in [Thread -> Seq(WaitObject)]
  <2>1. /\ waiting_threads \in [WaitObject -> Seq(Thread)]
        /\ wait_objects \in [Thread -> Seq(WaitObject)]
    BY DEF TypeOK
  <2>2. waiting_threads' \in [WaitObject -> Seq(Thread)]
    BY ONLY <2>1, <1>3, <1>5
  <2>3. Append(wait_objects[t], o) \in Seq(WaitObject)
    BY ONLY <2>1, <1>2, <1>3
  <2>4. wait_objects' \in [Thread -> Seq(WaitObject)]
    BY ONLY <2>1, <2>3, <1>5
  <2>5. QED BY <2>2, <2>4
<1>8. /\ mutex_priority' \in [Mutex -> Priority]
      /\ current_priority' \in [Thread -> Priority]
      /\ ready_queue' \in ReadyQueues
  BY <1>3, <1>5, ListPriorityType
<1>9. QED
  BY <1>6, <1>7, <1>8 DEF AddWaitingThread, TypeOK, ReadyQueues, timer_vars, loop_vars, halt_vars

LEMMA RemoveWaitingThreadType ==
  ASSUME TypeOK, RemoveWaitingThread
  PROVE  TypeOK'
<1> DEFINE t == Top.thread
           o == Head(wait_objects[t])
           ws == RemoveFirst(waiting_threads[o], t)
<1>1. Calling("RemoveWaitingThread")
  BY DEF RemoveWaitingThread
<1>2. t \in Thread
  BY <1>1, TopCall, CallFields DEF TypeOK
<1>3. CASE wait_objects[t] = <<>>
  <2>1. Return(<<>>) /\ UNCHANGED <<wait_objects, waiting_threads, mutex_priority,
                                    current_priority, ready_queue>>
    BY <1>3 DEF RemoveWaitingThread
  <2>2. calls' \in Seq(Call)
    BY <1>1, <2>1, ReturnOnlyType, Zenon
  <2>3. QED
    BY <2>1, <2>2 DEF RemoveWaitingThread, TypeOK, timer_vars, loop_vars, halt_vars
<1>4. CASE wait_objects[t] # <<>>
  <2>1. /\ waiting_threads' = [waiting_threads EXCEPT ![o] = ws]
        /\ wait_objects' = [wait_objects EXCEPT ![t] = Tail(@)]
        /\ IF o \in Mutex THEN UpdateMutexPriority(o, ws)
           ELSE UNCHANGED <<mutex_priority, current_priority, ready_queue>>
        /\ UNCHANGED calls
    BY <1>4 DEF RemoveWaitingThread
  <2>2. o \in WaitObject /\ Tail(wait_objects[t]) \in Seq(WaitObject)
    BY <1>2, <1>4 DEF TypeOK
  <2>3. ws \in Seq(Thread)
    BY <2>2, RemoveFirstType DEF TypeOK
  <2> HIDE DEF t, o, ws
  <2>4. /\ waiting_threads' \in [WaitObject -> Seq(Thread)]
        /\ wait_objects' \in [Thread -> Seq(WaitObject)]
    BY <1>2, <2>1, <2>2, <2>3 DEF TypeOK
  <2>5. /\ mutex_priority' \in [Mutex -> Priority]
        /\ current_priority' \in [Thread -> Priority]
        /\ ready_queue' \in ReadyQueues
    BY <2>1, <2>3, ListPriorityType
  <2>6. QED
    BY <2>1, <2>4, <2>5
       DEF RemoveWaitingThread, TypeOK, ReadyQueues, timer_vars, loop_vars, halt_vars
<1>5. QED BY <1>3, <1>4

LEMMA PrepareType ==
  ASSUME TypeOK, PrepareReschedule
  PROVE  halted' \in BOOLEAN /\ reschedule_pending' \in BOOLEAN
BY Zenon DEF PrepareReschedule

LEMMA ResumeFromWaitType ==
  ASSUME TypeOK, ResumeFromWait
  PROVE  TypeOK'
<1> DEFINE t == Top.thread
<1>1. Calling("ResumeFromWait") /\ Return(<<>>)
  BY DEF ResumeFromWait
<1>2. t \in Thread /\ calls' \in Seq(Call)
  <2>1. t \in Thread
    BY <1>1, TopCall, CallFields DEF TypeOK
  <2>2. QED BY <1>1, <2>1, ReturnOnlyType, Zenon
<1>3. \/ /\ ready_queue' = QueuePushBack(ready_queue, t, current_priority[t])
         /\ status' = [status EXCEPT ![t] = "Ready"]
         /\ PrepareReschedule
      \/ UNCHANGED <<ready_queue, status, halt_vars>>
  BY DEF ResumeFromWait
<1> HIDE DEF t
<1>4. QueuePushBack(ready_queue, t, current_priority[t]) \in ReadyQueues
  BY <1>2, QueueTypes DEF TypeOK, ReadyQueues
<1>5. ready_queue' \in ReadyQueues /\ status' \in [Thread -> Status]
  BY <1>2, <1>3, <1>4 DEF TypeOK, ReadyQueues, Status
<1>6. halted' \in BOOLEAN /\ reschedule_pending' \in BOOLEAN
  BY <1>3, PrepareType DEF TypeOK, halt_vars
<1>7. QED
  BY <1>2, <1>5, <1>6 DEF ResumeFromWait, TypeOK, ReadyQueues, wait_vars, timer_vars, mutex_vars,
                          loop_vars

LEMMA StopType ==
  ASSUME TypeOK, NEW t \in Thread, NEW more \in Seq(Call), Stop(t, more),
         halted' \in BOOLEAN, reschedule_pending' \in BOOLEAN, UNCHANGED process_status
  PROVE  TypeOK'
<1>1. calls' \in Seq(Call)
  BY MadeSequences DEF Stop
<1>2. QueueRemove(ready_queue, t, current_priority[t]) \in ReadyQueues
  BY QueueTypes DEF TypeOK, ReadyQueues
<1>3. ready_queue' \in ReadyQueues
  BY <1>2 DEF Stop, Unready, TypeOK, ReadyQueues
<1>4. status' \in [Thread -> Status] /\ wakeups' \in [Thread -> Nat]
  BY DEF Stop, CancelWakeup, TypeOK, Status
<1>5. QED
  BY <1>1, <1>3, <1>4 DEF Stop, TypeOK, ReadyQueues, wait_vars, timer_vars, mutex_vars, loop_vars

LEMMA ReleaseThreadMutexesType ==
  ASSUME TypeOK, ReleaseThreadMutexes
  PROVE  TypeOK'
<1>1. Calling("ReleaseThreadMutexes") /\ calls \in Seq(Call)
  BY DEF ReleaseThreadMutexes, TypeOK
<1>2. /\ calls' \in Seq(Call) /\ lock_count' \in [Mutex -> Nat]
      /\ holding_thread' \in [Mutex -> Thread \cup {NoThread}]
  <2>1. CASE Return(<<>>) /\ UNCHANGED <<lock_count, holding_thread>>
    <3>1. calls' \in Seq(Call)
      BY <1>1, <2>1, ReturnOnlyType, Zenon
    <3>2. QED BY <2>1, <3>1 DEF TypeOK
  <2>2. ASSUME NEW m \in HeldMutexes(Top.thread),
               lock_count' = [lock_count EXCEPT ![m] = 0],
               holding_thread' = [holding_thread EXCEPT ![m] = NoThread],
               calls' = <<Wakeup(m)>> \o calls
        PROVE  /\ calls' \in Seq(Call) /\ lock_count' \in [Mutex -> Nat]
               /\ holding_thread' \in [Mutex -> Thread \cup {NoThread}]
    <3>1. m \in Mutex /\ m \in WaitObject
      BY DEF HeldMutexes, WaitObject
    <3>2. Wakeup(m) \in Call
      BY <3>1, MadeCalls
    <3>3. QED BY <1>1, <2>2, <3>1, <3>2 DEF TypeOK
  <2>3. QED BY <2>1, <2>2 DEF ReleaseThreadMutexes
<1>3. QED
  BY <1>2 DEF ReleaseThreadMutexes, TypeOK, priority_vars, wait_vars, timer_vars, loop_vars,
              halt_vars

LEMMA RearmTimerType ==
  ASSUME TypeOK, RearmTimer
  PROVE  TypeOK'
<1>1. Calling("RearmTimer") /\ Return(<<>>)
  BY DEF RearmTimer
<1>2. calls' \in Seq(Call)
  BY <1>1, ReturnOnlyType, Zenon
<1>3. Top.obj \in Timer
  BY <1>1, TopCall, CallFields DEF TypeOK
<1>4. timer_events' \in [Timer -> Nat]
  BY <1>3 DEF RearmTimer, TypeOK
<1>5. QED
  BY <1>2, <1>4 DEF RearmTimer, TypeOK, priority_vars, wait_vars, mutex_vars, loop_vars, halt_vars

LEMMA UpdatePendingMutexesType ==
  ASSUME TypeOK, UpdatePendingMutexes
  PROVE  TypeOK'
<1>1. Calling("UpdatePending")
  BY DEF UpdatePendingMutexes
<1>2. Top.mutexes \in SUBSET Mutex
  BY <1>1, TopCall, CallFields DEF TypeOK
<1>3. /\ calls' \in Seq(Call) /\ mutex_priority' \in [Mutex -> Priority]
      /\ current_priority' \in [Thread -> Priority] /\ ready_queue' \in ReadyQueues
  <2>1. CASE Return(<<>>) /\ UNCHANGED <<mutex_priority, current_priority, ready_queue>>
    <3>1. calls' \in Seq(Call)
      BY <1>1, <2>1, ReturnOnlyType, Zenon
    <3>2. QED BY <2>1, <3>1 DEF TypeOK, ReadyQueues
  <2>2. ASSUME NEW m \in Top.mutexes, UpdateMutexPriority(m, waiting_threads[m]),
               Return(<<UpdatePending(Top.mutexes \ {m})>>)
        PROVE  /\ calls' \in Seq(Call) /\ mutex_priority' \in [Mutex -> Priority]
               /\ current_priority' \in [Thread -> Priority] /\ ready_queue' \in ReadyQueues
    <3>1. m \in Mutex /\ waiting_threads[m] \in Seq(Thread)
      BY <1>2 DEF TypeOK, WaitObject
    <3>2. UpdatePending(Top.mutexes \ {m}) \in Call
      BY <1>2, MadeCalls
    <3>3. <<UpdatePending(Top.mutexes \ {m})>> \in Seq(Call)
      BY <3>2
    <3>4. calls' \in Seq(Call)
      BY <1>1, <2>2, <3>3, ReturnType, Zenon
    <3>5. QED BY <2>2, <3>1, <3>4, UpdateMutexPriorityType
  <2>3. QED BY <2>1, <2>2 DEF UpdatePendingMutexes
<1>4. QED
  BY <1>3 DEF UpdatePendingMutexes, TypeOK, ReadyQueues, wait_vars, timer_vars, loop_vars, halt_vars

LEMMA TerminateProcessThreadsType ==
  ASSUME TypeOK, TerminateProcessThreads
  PROVE  TypeOK'
<1> DEFINE cur == current_thread[Top.core]
<1>1. Calling("TerminateProcessThreads") /\ calls \in Seq(Call)
  BY DEF TerminateProcessThreads, TypeOK
<1>2. Top.core \in Core /\ Tail(calls) \in Seq(Call) /\ cur \in Thread \cup {NoThread}
  BY <1>1, TopCall, CallFields DEF TypeOK
<1>3. ASSUME NEW t \in Thread, Stop(t, calls), UNCHANGED halt_vars PROVE TypeOK'
  BY <1>1, <1>3, StopType DEF TerminateProcessThreads, TypeOK, halt_vars
<1>4. CASE cur # NoThread /\ Stop(cur, Tail(calls)) /\ PrepareReschedule
  BY <1>2, <1>4, StopType, PrepareType DEF TerminateProcessThreads
<1>5. CASE Return(<<>>) /\ UNCHANGED <<status, priority_vars, wait_vars, wakeups,
                             current_thread, timer_vars, available_count, mutex_vars,
                             loop_vars, halt_vars>>
  <2>1. calls' \in Seq(Call)
    BY <1>1, <1>5, ReturnOnlyType, Zenon
  <2>2. QED
    BY <1>5, <2>1 DEF TerminateProcessThreads, TypeOK, priority_vars, wait_vars, timer_vars,
                      mutex_vars, loop_vars, halt_vars
<1>6. QED BY <1>3, <1>4, <1>5 DEF TerminateProcessThreads

LEMMA KernelCallType ==
  ASSUME TypeOK, KernelCall
  PROVE  TypeOK'
BY WakeupOneType, WakeupDoneType, AddWaitingThreadType, RemoveWaitingThreadType,
   ResumeFromWaitType, ReleaseThreadMutexesType, RearmTimerType, UpdatePendingMutexesType,
   TerminateProcessThreadsType DEF KernelCall

--------------------------------------------------------------------------------
\* System calls, timing events and the loop keep the types.

LEMMA WaitSynchronizationType ==
  ASSUME TypeOK, NEW t \in Thread, NEW objs \in Seq(WaitObject), NEW wait_all \in BOOLEAN,
         NEW timeout, WaitSynchronization(t, objs, wait_all, timeout)
  PROVE  TypeOK'
<1>1. CASE Available(objs, t, wait_all)
  <2> DEFINE I == {i \in 1 .. Len(objs) : ~ShouldWait(objs[i], t)}
             first == SelectInSeq(objs, LAMBDA o : ~ShouldWait(o, t))
             got == IF wait_all THEN objs ELSE <<objs[first]>>
  <2>1. /\ Acquire(got, t) /\ result' = [result EXCEPT ![t] = "Success"]
        /\ UNCHANGED <<status, wakeups, calls>>
    BY <1>1 DEF WaitSynchronization
  <2>2. ~wait_all => first \in 1 .. Len(objs)
    <3>1. HAVE ~wait_all
    <3>2. I # {} /\ I \in SUBSET Nat
      BY <1>1, <3>1 DEF Available
    <3>3. Min(I) \in I
      BY <3>2, MinIsLeast
    <3>4. first = Min(I)
      BY <3>2 DEF SelectInSeq
    <3>5. QED BY <3>3, <3>4
  <2> HIDE DEF first
  <2>3. got \in Seq(WaitObject)
    BY <2>2
  <2> HIDE DEF got
  <2>4. QED
    BY <2>1, <2>3, AcquireType DEF WaitSynchronization, TypeOK, ReadyQueues, loop_vars
<1>2. CASE ~Available(objs, t, wait_all)
  <2>1. /\ result' = [result EXCEPT ![t] = "Timeout"]
        /\ UNCHANGED <<current_priority, ready_queue, signaled, available_count, mutex_vars>>
    BY <1>2 DEF WaitSynchronization
  <2>2. CASE timeout = "zero"
    <3>1. UNCHANGED <<status, wakeups, calls, halt_vars>>
      BY <1>2, <2>2 DEF WaitSynchronization
    <3>2. QED
      BY <2>1, <3>1 DEF WaitSynchronization, TypeOK, mutex_vars, loop_vars, halt_vars
  <2>3. CASE timeout # "zero"
    <3>1. /\ status' = [status EXCEPT ![t] = IF wait_all THEN "WaitSynchAll" ELSE "WaitSynchAny"]
          /\ wakeups' = IF timeout = "finite" THEN [wakeups EXCEPT ![t] = @ + 1] ELSE wakeups
          /\ calls' = IF objs = <<>> THEN <<>> ELSE <<Enter(t, objs)>>
          /\ PrepareReschedule
      BY <1>2, <2>3 DEF WaitSynchronization
    <3>2. calls' \in Seq(Call)
      BY <3>1, MadeCalls
    <3>3. status' \in [Thread -> Status] /\ wakeups' \in [Thread -> Nat]
      <4>1. status \in [Thread -> Status] /\ wakeups \in [Thread -> Nat]
        BY DEF TypeOK
      <4>2. {"WaitSynchAll", "WaitSynchAny"} \subseteq Status
        BY DEF Status, Waiting
      <4>3. status' \in [Thread -> Status]
        BY <3>1, <4>1, <4>2
      <4>4. wakeups' \in [Thread -> Nat]
        BY <3>1, <4>1
      <4>. QED BY <4>3, <4>4
    <3>4. QED
      BY <2>1, <3>1, <3>2, <3>3, PrepareType
         DEF WaitSynchronization, TypeOK, mutex_vars, loop_vars
  <2>4. QED BY <2>2, <2>3
<1>3. QED BY <1>1, <1>2

LEMMA SystemCallType ==
  ASSUME TypeOK, NEW t \in Thread, SystemCall(t)
  PROVE  TypeOK'
<1>1. ASSUME NEW objs \in WaitLists[t], NEW wait_all \in BOOLEAN, NEW timeout \in Timeouts,
             WaitSynchronization(t, objs, wait_all, timeout)
      PROVE  TypeOK'
  BY <1>1, WaitSynchronizationType, ConstantAssumption
<1>2. ASSUME NEW timeout, SleepThread(t, timeout) PROVE TypeOK'
  <2>1. status' \in [Thread -> Status] /\ wakeups' \in [Thread -> Nat]
    <3>1. /\ status' = [status EXCEPT ![t] = "WaitSleep"]
          /\ \/ wakeups' = wakeups
             \/ wakeups' = [wakeups EXCEPT ![t] = wakeups[t] + 1]
      BY <1>2 DEF SleepThread
    <3>2. status' \in [Thread -> Status]
      BY <3>1 DEF TypeOK, Status, Waiting
    <3>3. wakeups' \in [Thread -> Nat]
      <4>1. wakeups \in [Thread -> Nat]
        BY DEF TypeOK
      <4>2. QED BY ONLY <3>1, <4>1, t \in Thread
    <3>4. QED BY <3>2, <3>3
  <2>2. QED
    BY <1>2, <2>1, PrepareType DEF SleepThread, TypeOK, priority_vars, wait_vars, timer_vars,
                                   mutex_vars, loop_vars
<1>3. ASSUME NEW o \in Signalable, Clear(t, o) PROVE TypeOK'
  <2>1. signaled' \in [Signalable -> BOOLEAN]
    BY <1>3 DEF Clear, TypeOK
  <2>2. QED
    BY <1>3, <2>1 DEF Clear, TypeOK, priority_vars, wait_vars, mutex_vars, loop_vars, halt_vars
<1>4. ASSUME NEW o \in Timer, NEW delayed \in BOOLEAN, NEW periodic \in BOOLEAN,
             SetTimer(t, o, delayed, periodic)
      PROVE  TypeOK'
  <2>1. interval' \in [Timer -> BOOLEAN] /\ signaled' \in [Signalable -> BOOLEAN]
    <3>1. o \in Signalable
      BY DEF Signalable
    <3>2. interval' = [interval EXCEPT ![o] = periodic]
          /\ signaled' = [signaled EXCEPT ![o] = signaled[o] \/ ~delayed]
      BY <1>4 DEF SetTimer
    <3>3. QED BY <3>1, <3>2, Zenon DEF TypeOK
  <2>2. timer_events' \in [Timer -> Nat]
    BY <1>4 DEF SetTimer, CancelEvent, TypeOK
  <2>3. calls' \in Seq(Call)
    <3>1. Wakeup(o) \in Call /\ Rearm(o) \in Call
      BY MadeCalls DEF WaitObject
    <3>2. QED BY <1>4, <3>1 DEF SetTimer
  <2>4. QED
    BY <1>4, <2>1, <2>2, <2>3 DEF SetTimer, TypeOK, priority_vars, wait_vars, mutex_vars,
                                  loop_vars, halt_vars
<1>5. ASSUME NEW o \in Timer, CancelTimer(t, o) PROVE TypeOK'
  <2>1. timer_events' \in [Timer -> Nat]
    BY <1>5 DEF CancelTimer, CancelEvent, TypeOK
  <2>2. QED
    BY <1>5, <2>1 DEF CancelTimer, TypeOK, priority_vars, wait_vars, mutex_vars, loop_vars,
                      halt_vars
<1>6. ASSUME NEW s \in Semaphore, NEW n \in ReleaseCounts, ReleaseSemaphore(t, s, n)
      PROVE  TypeOK'
  <2>1. calls' \in Seq(Call)
    <3>1. Wakeup(s) \in Call
      BY MadeCalls DEF WaitObject
    <3>2. calls' = <<Wakeup(s)>>
      BY <1>6 DEF ReleaseSemaphore
    <3>3. QED BY <3>1, <3>2
  <2>2. /\ available_count' \in [Semaphore -> Int32]
        /\ \A r \in Semaphore : available_count'[r] <= MaxCount[r]
    <3> DEFINE sum == Add32(n, available_count[s])
    <3>1. /\ available_count' = [available_count EXCEPT ![s] = sum]
          /\ MaxCount[s] >= sum
      BY <1>6 DEF ReleaseSemaphore, MayRelease
    <3>2. /\ available_count \in [Semaphore -> Int32]
          /\ \A r \in Semaphore : available_count[r] <= MaxCount[r]
      BY DEF TypeOK
    <3>3. /\ IntMax \in Nat /\ MaxCount \in [Semaphore -> Int32] /\ n \in Int32
      BY ConstantAssumption
    <3>4. sum \in Int32
      BY <3>2, <3>3, Add32Type
    <3> HIDE DEF sum
    <3>5. MaxCount[s] \in Int /\ sum \in Int
      BY <3>3, <3>4 DEF Int32
    <3>6. QED BY ONLY <3>1, <3>2, <3>4, <3>5
  <2>3. QED
    BY <1>6, <2>1, <2>2 DEF ReleaseSemaphore, TypeOK, priority_vars, wait_vars, timer_vars,
                            mutex_vars, loop_vars, halt_vars
<1>7. ASSUME NEW m \in Mutex, ReleaseMutex(t, m) PROVE TypeOK'
  <2> DEFINE best == BestPriority(t, HeldMutexes(t) \ {m}, mutex_priority)
  <2>1. Wakeup(m) \in Call
    BY MadeCalls DEF WaitObject
  <2>2. best \in Priority
    BY BestPriorityType DEF HeldMutexes, TypeOK
  <2> HIDE DEF best
  <2>3. \/ UNCHANGED <<holding_thread, current_priority, ready_queue, calls, halt_vars>>
        \/ /\ holding_thread' = [holding_thread EXCEPT ![m] = NoThread]
           /\ BoostPriority(t, best) /\ calls' = <<Wakeup(m)>> /\ PrepareReschedule
    BY <1>7 DEF ReleaseMutex, best
  <2>4. lock_count' \in [Mutex -> Nat]
    <3>1. lock_count' = [lock_count EXCEPT ![m] = lock_count[m] - 1] /\ lock_count[m] > 0
      BY <1>7 DEF ReleaseMutex
    <3>2. lock_count \in [Mutex -> Nat]
      BY DEF TypeOK
    <3>3. QED BY ONLY <3>1, <3>2, m \in Mutex
  <2>5. CASE UNCHANGED <<holding_thread, current_priority, ready_queue, calls, halt_vars>>
    BY <1>7, <2>4, <2>5 DEF ReleaseMutex, TypeOK, wait_vars, timer_vars, loop_vars, halt_vars
  <2>6. CASE /\ holding_thread' = [holding_thread EXCEPT ![m] = NoThread]
             /\ BoostPriority(t, best) /\ calls' = <<Wakeup(m)>> /\ PrepareReschedule
    <3>1. current_priority' \in [Thread -> Priority] /\ ready_queue' \in ReadyQueues
      BY <2>2, <2>6, BoostType
    <3>2. halted' \in BOOLEAN /\ reschedule_pending' \in BOOLEAN
      BY <2>6, PrepareType
    <3>3. calls' \in Seq(Call) /\ holding_thread' \in [Mutex -> Thread \cup {NoThread}]
      BY <2>1, <2>6 DEF TypeOK
    <3>4. UNCHANGED <<status, nominal_priority, wait_vars, wakeups, current_thread, timer_vars,
                      available_count, mutex_priority, process_status, loop_vars>>
      BY <1>7 DEF ReleaseMutex
    <3>5. QED
      BY <2>4, <3>1, <3>2, <3>3, <3>4
         DEF TypeOK, ReadyQueues, wait_vars, timer_vars, loop_vars
  <2>7. QED BY <2>3, <2>5, <2>6
<1>8. ASSUME NEW u \in Thread, NEW p \in Priorities, SetThreadPriority(t, u, p) PROVE TypeOK'
  <2> DEFINE S == {p} \cup {mutex_priority[m] : m \in HeldMutexes(u)}
  <2>0. p \in Priority
    BY ConstantAssumption
  <2>1. S \in SUBSET Priority /\ S # {}
    <3>1. HeldMutexes(u) \subseteq Mutex
      BY DEF HeldMutexes
    <3>2. mutex_priority \in [Mutex -> Priority]
      BY DEF TypeOK
    <3>3. QED BY ONLY <2>0, <3>1, <3>2, Zenon
  <2>2. Min(S) \in Priority
    BY <2>1, MinPriority
  <2>3. BoostPriority(u, Min(S))
    BY <1>8 DEF SetThreadPriority
  <2> HIDE DEF S
  <2>4. UpdatePending(Mutex \cap ToSet(wait_objects[u])) \in Call
    BY MadeCalls
  <2>5. nominal_priority' \in [Thread -> Priority]
    BY <1>8, <2>0 DEF SetThreadPriority, TypeOK
  <2>6. current_priority' \in [Thread -> Priority] /\ ready_queue' \in ReadyQueues
    BY <2>2, <2>3, BoostType
  <2>7. halted' \in BOOLEAN /\ reschedule_pending' \in BOOLEAN
    BY <1>8, PrepareType DEF SetThreadPriority
  <2>8. calls' \in Seq(Call)
    BY <1>8, <2>4 DEF SetThreadPriority
  <2>9. QED
    BY <1>8, <2>5, <2>6, <2>7, <2>8
       DEF SetThreadPriority, TypeOK, ReadyQueues, wait_vars, timer_vars, mutex_vars, loop_vars
<1>9. ASSUME NEW u \in Thread, NEW p \in Priorities, CreateThread(t, u, p) PROVE TypeOK'
  <2>0. p \in Priority
    BY ConstantAssumption
  <2>1. QueuePushBack(ready_queue, u, p) \in ReadyQueues
    BY <2>0, QueueTypes DEF TypeOK, ReadyQueues
  <2>2. /\ status' \in [Thread -> Status] /\ nominal_priority' \in [Thread -> Priority]
        /\ current_priority' \in [Thread -> Priority]
    BY <1>9, <2>0 DEF CreateThread, TypeOK, Status
  <2>3. ready_queue' \in ReadyQueues /\ halted' \in BOOLEAN /\ reschedule_pending' \in BOOLEAN
    <3>1. CASE ready_queue' = QueuePushBack(ready_queue, u, p) /\ PrepareReschedule
      BY <2>1, <3>1, PrepareType
    <3>2. CASE UNCHANGED <<ready_queue, halt_vars>>
      BY <3>2 DEF TypeOK, ReadyQueues, halt_vars
    <3>3. QED BY <1>9, <3>1, <3>2 DEF CreateThread
  <2>4. QED
    BY <1>9, <2>2, <2>3
       DEF CreateThread, TypeOK, ReadyQueues, wait_vars, timer_vars, mutex_vars, loop_vars
<1>10. ASSUME ExitThread(t) PROVE TypeOK'
  <2>1. <<>> \in Seq(Call) /\ Stop(t, <<>>) /\ PrepareReschedule /\ UNCHANGED process_status
    BY <1>10 DEF ExitThread
  <2>2. QED BY <2>1, PrepareType, StopType, Zenon
<1>11. ASSUME NEW p \in Kills[OwnerOf[t]], TerminateProcess(t, p) PROVE TypeOK'
  <2>1. p \in Process
    BY ConstantAssumption
  <2>2. \A i \in 1 .. NumCores : Terminate(p, i - 1) \in Call
    BY <2>1, MadeCalls, ConstantAssumption DEF Core
  <2>3. calls' \in Seq(Call)
    <3>1. calls' = [i \in 1 .. NumCores |-> Terminate(p, i - 1)] /\ NumCores \in Nat
      BY <1>11, ConstantAssumption DEF TerminateProcess
    <3>2. calls' \in [1 .. NumCores -> Call]
      BY <2>2, <3>1
    <3>3. QED BY <3>1, <3>2, SeqDef
  <2>4. process_status' \in [Process -> {"Running", "Exited"}]
    BY <1>11 DEF TerminateProcess, TypeOK
  <2>5. QED
    BY <1>11, <2>3, <2>4 DEF TerminateProcess, TypeOK, priority_vars, wait_vars, timer_vars,
                             mutex_vars, loop_vars, halt_vars
<1>12. QED
  BY <1>1, <1>2, <1>3, <1>4, <1>5, <1>6, <1>7, <1>8, <1>9, <1>10, <1>11 DEF SystemCall

LEMMA RunningCoreType ==
  ASSUME TypeOK
  PROVE  RunningCore \in Core
<1>1. to_advance # <<>> => Head(to_advance) \in Core
  BY DEF TypeOK
<1>2. Head(to_run) \in Core
  BY DEF TypeOK
<1>3. QED BY <1>1, <1>2 DEF RunningCore

LEMMA RescheduleType ==
  ASSUME TypeOK, NEW c \in Core, Reschedule(c)
  PROVE  /\ current_thread' \in [Core -> Thread \cup {NoThread}]
         /\ status' \in [Thread -> Status]
         /\ wakeups' \in [Thread -> Nat]
         /\ ready_queue' \in ReadyQueues
<1> DEFINE cur == current_thread[c]
           next == PopNextReadyThread(c)
           yield == cur # NoThread /\ status[cur] = "Running"
           queue == IF yield THEN QueuePushFront(ready_queue, cur, current_priority[cur])
                    ELSE ready_queue
           saved == IF yield THEN [status EXCEPT ![cur] = "Ready"] ELSE status
<1>1. cur \in Thread \cup {NoThread} /\ ready_queue \in ReadyQueues
  BY DEF TypeOK, ReadyQueues
<1>2. next \in Thread \cup {NoThread}
  <2>1. \A bound : FirstReady(c, bound) \in Thread \cup {NoThread}
    BY FirstReadyType
  <2>2. QED BY <1>1, <2>1 DEF PopNextReadyThread
<1>3. queue \in ReadyQueues /\ saved \in [Thread -> Status]
  <2>1. cur # NoThread =>
          QueuePushFront(ready_queue, cur, current_priority[cur]) \in ReadyQueues
    BY <1>1, QueueTypes DEF TypeOK
  <2>2. QED BY <1>1, <2>1 DEF TypeOK, Status
<1>4. /\ current_thread' = [current_thread EXCEPT ![c] = next]
      /\ status' = IF next = NoThread THEN saved ELSE [saved EXCEPT ![next] = "Running"]
      /\ wakeups' = IF next = NoThread THEN wakeups ELSE CancelWakeup(next)
      /\ ready_queue' = IF next = NoThread THEN queue
                        ELSE QueueRemove(queue, next, current_priority[next])
  BY DEF Reschedule
<1> HIDE DEF cur, next, yield, queue, saved
<1>5. next # NoThread => QueueRemove(queue, next, current_priority[next]) \in ReadyQueues
  BY <1>2, <1>3, QueueTypes DEF TypeOK
<1>6. ready_queue' \in ReadyQueues
  BY <1>3, <1>4, <1>5
<1>7. current_thread' \in [Core -> Thread \cup {NoThread}]
  BY <1>2, <1>4 DEF TypeOK
<1>8. status' \in [Thread -> Status] /\ wakeups' \in [Thread -> Nat]
  BY <1>2, <1>3, <1>4 DEF TypeOK, Status, CancelWakeup
<1>9. QED BY <1>6, <1>7, <1>8

LEMMA AllCoresType == AllCores \in Seq(Core) \ {<<>>}
<1>1. NumCores \in Nat \ {0} /\ AllCores \in [1 .. NumCores -> Core]
  BY ConstantAssumption DEF AllCores, Core
<1>2. AllCores \in Seq(Core) /\ Len(AllCores) = NumCores
  BY <1>1, SeqDef DEF AllCores
<1>3. QED BY <1>1, <1>2, EmptySeq

LEMMA StartIterationType ==
  ASSUME StartIteration
  PROVE  to_advance' \in Seq(Core) /\ to_run' \in Seq(Core) \ {<<>>}
<1>1. PICK n \in 0 .. NumCores - 1 : \E lagging \in [1 .. n -> Core] :
        \/ to_advance' = lagging \o AllCores /\ to_run' = AllCores
        \/ \E i \in 1 .. n : to_advance' = lagging /\ to_run' = <<lagging[i]>>
  BY DEF StartIteration
<1>2. PICK lagging \in [1 .. n -> Core] :
        \/ to_advance' = lagging \o AllCores /\ to_run' = AllCores
        \/ \E i \in 1 .. n : to_advance' = lagging /\ to_run' = <<lagging[i]>>
  BY <1>1
<1>3. lagging \in Seq(Core)
  <2>1. n \in Nat
    BY ConstantAssumption
  <2>2. QED BY <2>1, SeqDef
<1>4. lagging \o AllCores \in Seq(Core)
  BY <1>3, AllCoresType, ConcatProperties
<1>5. \A i \in 1 .. n : <<lagging[i]>> \in Seq(Core) /\ <<lagging[i]>> # <<>>
  OBVIOUS
<1>6. QED BY <1>2, <1>3, <1>4, <1>5, AllCoresType

LEMMA TimingType ==
  ASSUME TypeOK,
         \/ \E t \in Thread : ThreadWakeupCallback(t)
         \/ \E e \in Event : SignalEvent(e)
         \/ \E o \in Timer : TimerCallback(o)
  PROVE  TypeOK'
<1>1. ASSUME NEW t \in Thread, ThreadWakeupCallback(t) PROVE TypeOK'
  <2>1. <<Resume(t)>> \in Seq(Call) /\ WakingCalls(t) \in Seq(Call)
    BY MadeCalls, MadeSequences
  <2>2. calls' \in Seq(Call) /\ result' \in [Thread -> {"Success", "Timeout"}]
    BY <1>1, <2>1 DEF ThreadWakeupCallback, TypeOK
  <2>3. wakeups' \in [Thread -> Nat]
    <3>1. wakeups[t] > 0 /\ wakeups' = [wakeups EXCEPT ![t] = wakeups[t] - 1]
      BY <1>1 DEF ThreadWakeupCallback
    <3>2. wakeups \in [Thread -> Nat]
      BY DEF TypeOK
    <3>3. QED BY ONLY <3>1, <3>2, t \in Thread
  <2>4. QED
    BY <1>1, <2>2, <2>3 DEF ThreadWakeupCallback, TypeOK, priority_vars, timer_vars, mutex_vars,
                            loop_vars, halt_vars
<1>2. ASSUME NEW e \in Event, SignalEvent(e) PROVE TypeOK'
  <2>1. <<Wakeup(e)>> \in Seq(Call)
    BY MadeCalls DEF WaitObject
  <2>2. calls' \in Seq(Call) /\ signaled' \in [Signalable -> BOOLEAN]
    BY <1>2, <2>1 DEF SignalEvent, TypeOK
  <2>3. QED
    BY <1>2, <2>2 DEF SignalEvent, TypeOK, priority_vars, wait_vars, mutex_vars, loop_vars,
                      halt_vars
<1>3. ASSUME NEW o \in Timer, TimerCallback(o) PROVE TypeOK'
  <2>1. Wakeup(o) \in Call /\ Rearm(o) \in Call
    BY MadeCalls DEF WaitObject
  <2>2. calls' \in Seq(Call)
    BY <1>3, <2>1 DEF TimerCallback
  <2>3. signaled' \in [Signalable -> BOOLEAN] /\ timer_events' \in [Timer -> Nat]
    <3>1. /\ timer_events[o] > 0
          /\ timer_events' = [timer_events EXCEPT ![o] = timer_events[o] - 1]
          /\ signaled' = [signaled EXCEPT ![o] = TRUE]
      BY <1>3 DEF TimerCallback
    <3>2. timer_events' \in [Timer -> Nat]
      BY <3>1 DEF TypeOK
    <3>3. signaled' \in [Signalable -> BOOLEAN]
      BY <3>1 DEF TypeOK
    <3>4. QED BY <3>2, <3>3
  <2>4. QED
    BY <1>3, <2>2, <2>3 DEF TimerCallback, TypeOK, priority_vars, wait_vars, mutex_vars,
                            loop_vars, halt_vars
<1>4. QED BY <1>1, <1>2, <1>3

LEMMA LoopType ==
  ASSUME TypeOK, EndAdvance \/ EndSlice
  PROVE  TypeOK'
<1>1. CASE EndAdvance
  <2>1. to_advance' \in Seq(Core) /\ Reschedule(RunningCore)
    BY <1>1 DEF EndAdvance, TypeOK
  <2>2. QED
    BY <1>1, <2>1, RunningCoreType, RescheduleType
       DEF EndAdvance, TypeOK, ReadyQueues, wait_vars, timer_vars, mutex_vars, halt_vars
<1>2. CASE EndSlice
  <2>1. /\ current_thread' \in [Core -> Thread \cup {NoThread}]
        /\ status' \in [Thread -> Status]
        /\ wakeups' \in [Thread -> Nat]
        /\ ready_queue' \in ReadyQueues
    <3>1. CASE Reschedule(RunningCore)
      BY <3>1, RunningCoreType, RescheduleType
    <3>2. CASE UNCHANGED <<current_thread, status, wakeups, ready_queue>>
      BY <3>2 DEF TypeOK, ReadyQueues
    <3>3. QED BY <1>2, <3>1, <3>2 DEF EndSlice
  <2>2. to_advance' \in Seq(Core) /\ to_run' \in Seq(Core) \ {<<>>}
    <3>1. CASE Len(to_run) > 1 /\ to_run' = Tail(to_run) /\ UNCHANGED to_advance
      <4>1. Tail(to_run) \in Seq(Core) /\ Len(Tail(to_run)) # 0
        <5>1. to_run \in Seq(Core) /\ to_run # <<>> /\ Len(to_run) \in Nat
          BY DEF TypeOK
        <5>2. Tail(to_run) \in Seq(Core) /\ Len(Tail(to_run)) = Len(to_run) - 1
          BY <5>1, HeadTailProperties
        <5> DEFINE m == Len(to_run)
                   n == Len(Tail(to_run))
        <5>3. m \in Nat /\ m > 1 /\ n = m - 1
          BY <3>1, <5>1, <5>2
        <5>4. n # 0
          <6> HIDE DEF m, n
          <6>1. QED BY ONLY <5>3
        <5>5. QED BY ONLY <5>2, <5>4
      <4>2. Tail(to_run) # <<>>
        BY <4>1, EmptySeq, Zenon
      <4>3. QED BY <3>1, <4>1, <4>2 DEF TypeOK
    <3>2. CASE StartIteration
      BY <3>2, StartIterationType
    <3>3. QED BY <1>2, <3>1, <3>2 DEF EndSlice
  <2>3. halted' \in BOOLEAN /\ reschedule_pending' \in BOOLEAN
    BY <1>2 DEF EndSlice
  <2>4. QED
    BY <1>2, <2>1, <2>2, <2>3
       DEF EndSlice, TypeOK, ReadyQueues, wait_vars, timer_vars, mutex_vars
<1>3. QED BY <1>1, <1>2

LEMMA InitType == Init => TypeOK
<1> HAVE Init
<1>1. ready_queue \in [Core -> [Priority -> Seq(Thread)]]
  <2>1. \A c \in Core, p \in Priority : MainThread(c, p) # {} =>
          (CHOOSE t \in MainThread(c, p) : TRUE) \in Thread
    BY ConstantAssumption DEF MainThread
  <2>2. QED BY <2>1 DEF Init
<1>2. \A s \in Semaphore : available_count[s] \in Int32 /\ available_count[s] <= MaxCount[s]
  BY ConstantAssumption DEF Init
<1>3. 0 \in Priority /\ InitialPriority \in [Thread -> Priority]
  BY ConstantAssumption DEF Priority
<1>4. to_advance \in Seq(Core) /\ to_run \in Seq(Core) \ {<<>>}
  BY AllCoresType DEF Init
<1>5. available_count \in [Semaphore -> Int32]
  BY ConstantAssumption DEF Init
<1>6. /\ status \in [Thread -> Status] /\ result \in [Thread -> {"Success", "Timeout"}]
      /\ process_status \in [Process -> {"Running", "Exited"}]
  BY DEF Init, Status
<1>7. /\ wait_objects \in [Thread -> Seq(WaitObject)]
      /\ waiting_threads \in [WaitObject -> Seq(Thread)] /\ calls \in Seq(Call)
  BY DEF Init
<1>8. /\ wakeups \in [Thread -> Nat] /\ timer_events \in [Timer -> Nat]
      /\ lock_count \in [Mutex -> Nat] /\ mutex_priority \in [Mutex -> Priority]
  BY <1>3 DEF Init
<1>9. /\ current_thread \in [Core -> Thread \cup {NoThread}]
      /\ holding_thread \in [Mutex -> Thread \cup {NoThread}]
      /\ signaled \in [Signalable -> BOOLEAN] /\ interval \in [Timer -> BOOLEAN]
      /\ halted \in BOOLEAN /\ reschedule_pending \in BOOLEAN
      /\ nominal_priority \in [Thread -> Priority] /\ current_priority \in [Thread -> Priority]
  BY <1>3 DEF Init
<1>10. QED BY <1>1, <1>2, <1>4, <1>5, <1>6, <1>7, <1>8, <1>9 DEF TypeOK

LEMMA NextType == TypeOK /\ [Next]_vars => TypeOK'
<1> SUFFICES ASSUME TypeOK, [Next]_vars PROVE TypeOK'
  OBVIOUS
<1>1. CASE UNCHANGED vars
  BY <1>1 DEF vars, TypeOK, priority_vars, wait_vars, timer_vars, mutex_vars, loop_vars, halt_vars
<1>2. QED
  BY <1>1, KernelCallType, SystemCallType, TimingType, LoopType DEF Next

\* The variables keep their types, for every set of threads and objects: in particular
\* an available count of a semaphore never exceeds its max_count (Semaphore::Release
\* refuses the whole release), although it may become negative and its sum may wrap
\* around; and a lock count never falls below zero.
THEOREM TypeCorrect == Spec => []TypeOK
BY InitType, NextType, PTL DEF Spec

--------------------------------------------------------------------------------
\* The ready queues hold exactly the ready threads.

\* ReadyQueueExact for queues q, statuses st and current priorities cp.
Exact(q, st, cp) ==
  /\ \A c \in Core, p \in Priority :
       /\ IsInjective(q[c][p])
       /\ \A t \in ToSet(q[c][p]) : st[t] = "Ready" /\ CoreOf[t] = c /\ cp[t] = p
  /\ \A t \in Thread : st[t] = "Ready" => t \in ToSet(q[CoreOf[t]][cp[t]])

SameExcept(f, g, t) == \A u \in Thread : u # t => f[u] = g[u]

\* A ready thread taken from its level is in no level any more.
LEMMA ExactRemove ==
  ASSUME NEW q \in ReadyQueues, NEW st, NEW cp \in [Thread -> Priority], Exact(q, st, cp),
         NEW t \in Thread, st[t] = "Ready",
         NEW st2, NEW cp2, SameExcept(st2, st, t), SameExcept(cp2, cp, t), st2[t] # "Ready"
  PROVE  Exact(QueueRemove(q, t, cp[t]), st2, cp2)
<1> DEFINE q2 == QueueRemove(q, t, cp[t])
<1>0. CoreOf[t] \in Core /\ cp[t] \in Priority
  BY ConstantAssumption
<1>1. \A c \in Core, p \in Priority : q[c][p] \in Seq(Thread) /\ IsInjective(q[c][p])
  BY DEF ReadyQueues, Exact
<1>2. \A c \in Core, p \in Priority :
        q2[c][p] = IF c = CoreOf[t] /\ p = cp[t] THEN RemoveFirst(q[c][p], t) ELSE q[c][p]
  BY <1>0 DEF QueueRemove, ReadyQueues
<1> HIDE DEF q2
<1>3. ASSUME NEW c \in Core, NEW p \in Priority
      PROVE  IsInjective(q2[c][p]) /\ \A u : u \in ToSet(q2[c][p]) <=> u \in ToSet(q[c][p]) /\ u # t
  <2>1. CASE c = CoreOf[t] /\ p = cp[t]
    <3>1. q2[c][p] = RemoveFirst(q[c][p], t)
      BY <1>2, <2>1
    <3>2. QED BY <1>1, <3>1, RemoveFirstInjective
  <2>2. CASE ~(c = CoreOf[t] /\ p = cp[t])
    <3>1. q2[c][p] = q[c][p]
      BY <1>2, <2>2
    <3>2. t \notin ToSet(q[c][p])
      BY <2>2 DEF Exact
    <3>3. QED BY <1>1, <3>1, <3>2
  <2>3. QED BY <2>1, <2>2
<1>4. ASSUME NEW c \in Core, NEW p \in Priority, NEW u \in ToSet(q2[c][p])
      PROVE  st2[u] = "Ready" /\ CoreOf[u] = c /\ cp2[u] = p
  <2>1. u \in ToSet(q[c][p]) /\ u # t
    BY <1>3
  <2>2. u \in Thread
    BY <1>1, <2>1, InToSet, ElementOfSeq
  <2>3. QED BY <2>1, <2>2 DEF Exact, SameExcept
<1>5. ASSUME NEW u \in Thread, st2[u] = "Ready" PROVE u \in ToSet(q2[CoreOf[u]][cp2[u]])
  <2>1. u # t /\ st[u] = "Ready" /\ cp2[u] = cp[u]
    BY <1>5 DEF SameExcept
  <2>2. u \in ToSet(q[CoreOf[u]][cp[u]]) /\ CoreOf[u] \in Core /\ cp[u] \in Priority
    BY <2>1, ConstantAssumption DEF Exact
  <2>3. QED BY <1>3, <2>1, <2>2
<1>6. Exact(q2, st2, cp2)
  BY <1>3, <1>4, <1>5 DEF Exact
<1>7. QED BY <1>6 DEF q2

\* A thread that becomes ready is put into the level of its priority.
LEMMA ExactPush ==
  ASSUME NEW q \in ReadyQueues, NEW st, NEW cp, Exact(q, st, cp),
         NEW t \in Thread, st[t] # "Ready",
         NEW st2, NEW cp2 \in [Thread -> Priority],
         SameExcept(st2, st, t), SameExcept(cp2, cp, t), st2[t] = "Ready"
  PROVE  /\ Exact(QueuePushBack(q, t, cp2[t]), st2, cp2)
         /\ Exact(QueuePushFront(q, t, cp2[t]), st2, cp2)
<1>0. CoreOf[t] \in Core /\ cp2[t] \in Priority
  BY ConstantAssumption
<1>1. \A c \in Core, p \in Priority :
        q[c][p] \in Seq(Thread) /\ IsInjective(q[c][p]) /\ t \notin ToSet(q[c][p])
  BY DEF ReadyQueues, Exact
<1>2. ASSUME NEW q2,
             \A c \in Core, p \in Priority :
               /\ IsInjective(q2[c][p])
               /\ \A u : u \in ToSet(q2[c][p]) <=>
                    u \in ToSet(q[c][p]) \/ (u = t /\ c = CoreOf[t] /\ p = cp2[t])
      PROVE  Exact(q2, st2, cp2)
  <2>1. ASSUME NEW c \in Core, NEW p \in Priority, NEW u \in ToSet(q2[c][p])
        PROVE  st2[u] = "Ready" /\ CoreOf[u] = c /\ cp2[u] = p
    <3>1. CASE u = t
      BY <1>1, <1>2, <2>1, <3>1
    <3>2. CASE u # t
      <4>1. u \in ToSet(q[c][p])
        BY <1>2, <2>1, <3>2
      <4>2. u \in Thread
        BY <1>1, <4>1, InToSet, ElementOfSeq
      <4>3. QED BY <3>2, <4>1, <4>2 DEF Exact, SameExcept
    <3>3. QED BY <3>1, <3>2
  <2>2. ASSUME NEW u \in Thread, st2[u] = "Ready" PROVE u \in ToSet(q2[CoreOf[u]][cp2[u]])
    <3>0. CoreOf[u] \in Core /\ cp2[u] \in Priority
      BY ConstantAssumption
    <3>1. CASE u = t
      BY <1>2, <3>0, <3>1
    <3>2. CASE u # t
      <4>1. u \in ToSet(q[CoreOf[u]][cp2[u]])
        BY <2>2, <3>2 DEF Exact, SameExcept
      <4>2. QED BY <1>2, <3>0, <4>1
    <3>3. QED BY <3>1, <3>2
  <2>3. QED BY <1>2, <2>1, <2>2 DEF Exact
<1>3. Exact(QueuePushBack(q, t, cp2[t]), st2, cp2)
  <2> DEFINE q2 == QueuePushBack(q, t, cp2[t])
  <2>1. \A c \in Core, p \in Priority :
          q2[c][p] = IF c = CoreOf[t] /\ p = cp2[t] THEN Append(q[c][p], t) ELSE q[c][p]
    BY <1>0 DEF QueuePushBack, ReadyQueues
  <2> HIDE DEF q2
  <2>2. ASSUME NEW c \in Core, NEW p \in Priority
        PROVE  /\ IsInjective(q2[c][p])
               /\ \A u : u \in ToSet(q2[c][p]) <=>
                    u \in ToSet(q[c][p]) \/ (u = t /\ c = CoreOf[t] /\ p = cp2[t])
    <3>1. CASE c = CoreOf[t] /\ p = cp2[t]
      <4>1. q2[c][p] = Append(q[c][p], t)
        BY <2>1, <3>1
      <4>2. QED BY <1>1, <3>1, <4>1, AppendNew
    <3>2. CASE ~(c = CoreOf[t] /\ p = cp2[t])
      BY <1>1, <2>1, <3>2
    <3>3. QED BY <3>1, <3>2
  <2>3. Exact(q2, st2, cp2)
    BY <1>2, <2>2
  <2>4. QED BY <2>3 DEF q2
<1>4. Exact(QueuePushFront(q, t, cp2[t]), st2, cp2)
  <2> DEFINE q2 == QueuePushFront(q, t, cp2[t])
  <2>1. \A c \in Core, p \in Priority :
          q2[c][p] = IF c = CoreOf[t] /\ p = cp2[t] THEN <<t>> \o q[c][p] ELSE q[c][p]
    BY <1>0 DEF QueuePushFront, ReadyQueues
  <2> HIDE DEF q2
  <2>2. ASSUME NEW c \in Core, NEW p \in Priority
        PROVE  /\ IsInjective(q2[c][p])
               /\ \A u : u \in ToSet(q2[c][p]) <=>
                    u \in ToSet(q[c][p]) \/ (u = t /\ c = CoreOf[t] /\ p = cp2[t])
    <3>1. CASE c = CoreOf[t] /\ p = cp2[t]
      <4>1. q2[c][p] = <<t>> \o q[c][p]
        BY <2>1, <3>1
      <4>2. QED BY <1>1, <3>1, <4>1, PrependNew
    <3>2. CASE ~(c = CoreOf[t] /\ p = cp2[t])
      BY <1>1, <2>1, <3>2
    <3>3. QED BY <3>1, <3>2
  <2>3. Exact(q2, st2, cp2)
    BY <1>2, <2>2
  <2>4. QED BY <2>3 DEF q2
<1>5. QED BY <1>3, <1>4

\* A thread that is in no level may change its status and its priority.
LEMMA ExactOther ==
  ASSUME NEW q \in ReadyQueues, NEW st, NEW cp, Exact(q, st, cp), NEW t \in Thread,
         st[t] # "Ready", NEW st2, NEW cp2, SameExcept(st2, st, t), SameExcept(cp2, cp, t),
         st2[t] # "Ready"
  PROVE  Exact(q, st2, cp2)
<1>1. \A c \in Core, p \in Priority : ToSet(q[c][p]) \subseteq Thread \ {t}
  <2>1. ASSUME NEW c \in Core, NEW p \in Priority, NEW u \in ToSet(q[c][p])
        PROVE  u \in Thread /\ u # t
    <3>1. q[c][p] \in Seq(Thread)
      BY DEF ReadyQueues
    <3>2. QED BY <2>1, <3>1, InToSet, ElementOfSeq DEF Exact
  <2>2. QED BY <2>1
<1>2. QED BY <1>1 DEF Exact, SameExcept

\* Thread::BoostPriority keeps the queues exact.
LEMMA ExactBoost ==
  ASSUME TypeOK, ReadyQueueExact, NEW t \in Thread, NEW p \in Priority, BoostPriority(t, p)
  PROVE  Exact(ready_queue', status, current_priority')
<1> DEFINE limbo == [status EXCEPT ![t] = "Running"]
           cp == current_priority'
<1>1. /\ ready_queue \in ReadyQueues /\ current_priority \in [Thread -> Priority]
      /\ Exact(ready_queue, status, current_priority)
  BY DEF TypeOK, ReadyQueues, ReadyQueueExact, Exact
<1>2. cp \in [Thread -> Priority] /\ SameExcept(cp, current_priority, t) /\ cp[t] = p
  BY DEF TypeOK, BoostPriority, SameExcept
<1>3. /\ SameExcept(limbo, status, t) /\ SameExcept(status, limbo, t) /\ limbo[t] # "Ready"
      /\ SameExcept(status, status, t) /\ SameExcept(cp, cp, t)
  BY DEF TypeOK, SameExcept
<1> HIDE DEF limbo, cp
<1>4. CASE status[t] = "Ready"
  <2> DEFINE q == QueueRemove(ready_queue, t, current_priority[t])
  <2>1. q \in ReadyQueues
    BY <1>1, QueueTypes
  <2>2. Exact(q, limbo, cp)
    BY <1>1, <1>2, <1>3, <1>4, ExactRemove
  <2>3. ready_queue' = QueuePushBack(q, t, cp[t])
    BY <1>2, <1>4 DEF BoostPriority, QueueMove
  <2> HIDE DEF q
  <2>4. Exact(QueuePushBack(q, t, cp[t]), status, cp)
    BY <1>2, <1>3, <1>4, <2>1, <2>2, ExactPush
  <2>5. QED BY <2>3, <2>4 DEF cp
<1>5. CASE status[t] # "Ready"
  <2>1. ready_queue' = ready_queue
    BY <1>5 DEF BoostPriority
  <2>2. Exact(ready_queue, status, cp)
    BY <1>1, <1>2, <1>3, <1>5, ExactOther
  <2>3. QED BY <2>1, <2>2 DEF cp
<1>6. QED BY <1>4, <1>5

--------------------------------------------------------------------------------
\* The scheduler's invariant: the ready queues are exact, and the current threads of
\* the cores are the running ones.

Scheduled == ReadyQueueExact /\ CurrentThreads /\ NoStaleWakeup

Halting == PrepareReschedule \/ UNCHANGED halt_vars

\* A step that moves no thread between statuses and cores.
LEMMA SameThreads ==
  ASSUME TypeOK, CurrentThreads, NoStaleWakeup, UNCHANGED <<status, current_thread, loop_vars>>,
         Halting, \A t \in Thread : wakeups[t] = 0 => wakeups'[t] = 0
  PROVE  CurrentThreads' /\ NoStaleWakeup'
<1>1. /\ halted => halted'
      /\ halted' => to_advance' = <<>> /\ reschedule_pending'
  BY DEF Halting, PrepareReschedule, halt_vars, loop_vars, CurrentThreads, TypeOK
<1>2. CurrentThreads'
  BY <1>1 DEF CurrentThreads, loop_vars
<1>3. NoStaleWakeup'
  BY DEF NoStaleWakeup
<1>4. QED BY <1>2, <1>3

\* A step that only changes priorities, and the queues with them.
LEMMA PriorityStep ==
  ASSUME TypeOK, Scheduled, UNCHANGED <<status, current_thread, wakeups, loop_vars>>, Halting,
         Exact(ready_queue', status, current_priority')
  PROVE  Scheduled'
<1>1. CurrentThreads' /\ NoStaleWakeup'
  BY SameThreads DEF Scheduled
<1>2. ReadyQueueExact'
  BY DEF Exact, ReadyQueueExact
<1>3. QED BY <1>1, <1>2 DEF Scheduled

\* A step that leaves the threads alone.
LEMMA QuietStep ==
  ASSUME TypeOK, Scheduled,
         UNCHANGED <<status, current_thread, wakeups, loop_vars, halt_vars, current_priority,
                     ready_queue>>
  PROVE  Scheduled'
<1>1. Halting /\ Exact(ready_queue', status, current_priority')
  BY DEF Halting, Scheduled, Exact, ReadyQueueExact
<1>2. QED BY <1>1, PriorityStep

LEMMA AcquireBoost ==
  ASSUME TypeOK, NEW t \in Thread, NEW objs \in Seq(WaitObject), Acquire(objs, t)
  PROVE  \/ PrepareReschedule /\ \E p \in Priority : BoostPriority(t, p)
         \/ UNCHANGED <<current_priority, ready_queue, halt_vars>>
<1> DEFINE held == {m \in Mutex : holding_thread'[m] = t}
           best == BestPriority(t, held, mutex_priority')
<1>1. \/ BoostPriority(t, best) /\ PrepareReschedule
      \/ UNCHANGED <<current_priority, ready_queue, halt_vars>>
  BY DEF Acquire
<1>2. mutex_priority' \in [Mutex -> Priority] /\ held \in SUBSET Mutex
  BY AcquireType
<1> HIDE DEF held
<1>3. best \in Priority
  BY <1>2, BestPriorityType
<1>4. QED BY <1>1, <1>3

LEMMA UpdateBoost ==
  ASSUME TypeOK, NEW m \in Mutex, NEW ws \in Seq(Thread), UpdateMutexPriority(m, ws)
  PROVE  \/ \E t \in Thread, p \in Priority : BoostPriority(t, p)
         \/ UNCHANGED <<current_priority, ready_queue>>
<1> DEFINE holder == holding_thread[m]
           best == BestPriority(holder, HeldMutexes(holder), mutex_priority')
<1>1. \/ UNCHANGED <<current_priority, ready_queue>>
      \/ holder # NoThread /\ BoostPriority(holder, best)
  BY DEF UpdateMutexPriority
<1>2. mutex_priority' \in [Mutex -> Priority] /\ HeldMutexes(holder) \in SUBSET Mutex
  BY UpdateMutexPriorityType DEF HeldMutexes
<1>3. CASE holder # NoThread /\ BoostPriority(holder, best)
  <2>1. holder \in Thread
    BY <1>3 DEF TypeOK
  <2> HIDE DEF holder
  <2>2. best \in Priority
    BY <1>2, <2>1, BestPriorityType
  <2>3. QED BY <1>3, <2>1, <2>2
<1>4. QED BY <1>1, <1>3

\* Both keep the queues exact.
LEMMA BoostStep ==
  ASSUME TypeOK, Scheduled,
         \/ \E t \in Thread, p \in Priority : BoostPriority(t, p)
         \/ UNCHANGED <<current_priority, ready_queue>>
  PROVE  Exact(ready_queue', status, current_priority')
<1>1. CASE UNCHANGED <<current_priority, ready_queue>>
  BY <1>1 DEF Scheduled, Exact, ReadyQueueExact
<1>2. ASSUME NEW t \in Thread, NEW p \in Priority, BoostPriority(t, p)
      PROVE  Exact(ready_queue', status, current_priority')
  BY <1>2, ExactBoost DEF Scheduled
<1>3. QED BY <1>1, <1>2

--------------------------------------------------------------------------------
\* Kernel calls keep the scheduler's invariant.

LEMMA WakeupOneScheduled ==
  ASSUME TypeOK, Scheduled, WakeupOne
  PROVE  Scheduled'
<1>1. Top.obj \in WaitObject
  <2>1. Calling("WakeupAllWaitingThreads") /\ calls \in Seq(Call)
    BY DEF WakeupOne, TypeOK
  <2>2. QED BY <2>1, TopCall, CallFields
<1>2. PICK i \in DOMAIN waiting_threads[Top.obj] :
        LET t == waiting_threads[Top.obj][i]
        IN  Acquire(IF status[t] = "WaitSynchAll" THEN wait_objects[t] ELSE <<Top.obj>>, t)
  BY Zenon DEF WakeupOne
<1> DEFINE t == waiting_threads[Top.obj][i]
           objs == IF status[t] = "WaitSynchAll" THEN wait_objects[t] ELSE <<Top.obj>>
<1>3. t \in Thread
  BY <1>1 DEF TypeOK
<1>4. objs \in Seq(WaitObject)
  BY <1>1, <1>3 DEF TypeOK
<1>5. Acquire(objs, t)
  BY <1>2
<1> HIDE DEF t, objs
<1>6. /\ Halting
      /\ \/ \E p \in Priority : BoostPriority(t, p)
         \/ UNCHANGED <<current_priority, ready_queue>>
  BY <1>3, <1>4, <1>5, AcquireBoost DEF Halting
<1>7. Exact(ready_queue', status, current_priority')
  BY <1>3, <1>6, BoostStep
<1>8. QED BY <1>6, <1>7, PriorityStep DEF WakeupOne

\* A step that updates the priority of a mutex.
LEMMA ListScheduled ==
  ASSUME TypeOK, Scheduled, NEW o, NEW ws \in Seq(Thread),
         IF o \in Mutex THEN UpdateMutexPriority(o, ws)
         ELSE UNCHANGED <<mutex_priority, current_priority, ready_queue>>,
         UNCHANGED <<status, current_thread, wakeups, loop_vars, halt_vars>>
  PROVE  Scheduled'
<1>1. \/ \E t \in Thread, p \in Priority : BoostPriority(t, p)
      \/ UNCHANGED <<current_priority, ready_queue>>
  BY UpdateBoost
<1>2. Exact(ready_queue', status, current_priority') /\ Halting
  BY <1>1, BoostStep DEF Halting
<1>3. QED BY <1>2, PriorityStep

LEMMA AddWaitingThreadScheduled ==
  ASSUME TypeOK, Scheduled, AddWaitingThread
  PROVE  Scheduled'
<1> DEFINE t == Top.thread
           o == Head(Top.objs)
           ws == IF t \in ToSet(waiting_threads[o]) THEN waiting_threads[o]
                 ELSE Append(waiting_threads[o], t)
<1>1. Calling("AddWaitingThread")
  BY DEF AddWaitingThread
<1>2. t \in Thread /\ Top.objs \in Seq(WaitObject) /\ Top.objs # <<>>
  BY <1>1, TopCall, CallFields DEF TypeOK
<1>3. ws \in Seq(Thread)
  BY <1>2 DEF TypeOK
<1>4. /\ IF o \in Mutex THEN UpdateMutexPriority(o, ws)
         ELSE UNCHANGED <<mutex_priority, current_priority, ready_queue>>
      /\ UNCHANGED <<status, current_thread, wakeups, loop_vars, halt_vars>>
  BY Zenon DEF AddWaitingThread
<1> HIDE DEF t, o, ws
<1>5. QED BY <1>3, <1>4, ListScheduled

LEMMA RemoveWaitingThreadScheduled ==
  ASSUME TypeOK, Scheduled, RemoveWaitingThread
  PROVE  Scheduled'
<1> DEFINE t == Top.thread
           o == Head(wait_objects[t])
           ws == RemoveFirst(waiting_threads[o], t)
<1>1. Calling("RemoveWaitingThread")
  BY DEF RemoveWaitingThread
<1>2. t \in Thread
  BY <1>1, TopCall, CallFields DEF TypeOK
<1>3. UNCHANGED <<status, current_thread, wakeups, loop_vars, halt_vars>>
  BY DEF RemoveWaitingThread
<1>4. CASE wait_objects[t] = <<>>
  BY <1>3, <1>4, QuietStep DEF RemoveWaitingThread
<1>5. CASE wait_objects[t] # <<>>
  <2>1. IF o \in Mutex THEN UpdateMutexPriority(o, ws)
        ELSE UNCHANGED <<mutex_priority, current_priority, ready_queue>>
    BY <1>5 DEF RemoveWaitingThread
  <2>2. ws \in Seq(Thread)
    <3>1. o \in WaitObject
      BY <1>2, <1>5 DEF TypeOK
    <3>2. QED BY <3>1, RemoveFirstType DEF TypeOK
  <2> HIDE DEF t, o, ws
  <2>3. QED BY <1>3, <2>1, <2>2, ListScheduled
<1>6. QED BY <1>4, <1>5

LEMMA UpdatePendingMutexesScheduled ==
  ASSUME TypeOK, Scheduled, UpdatePendingMutexes
  PROVE  Scheduled'
<1>1. Calling("UpdatePending")
      /\ UNCHANGED <<status, current_thread, wakeups, loop_vars, halt_vars>>
  BY DEF UpdatePendingMutexes
<1>2. Top.mutexes \in SUBSET Mutex
  BY <1>1, TopCall, CallFields DEF TypeOK
<1>3. CASE UNCHANGED <<mutex_priority, current_priority, ready_queue>>
  BY <1>1, <1>3, QuietStep
<1>4. ASSUME NEW m \in Top.mutexes, UpdateMutexPriority(m, waiting_threads[m])
      PROVE  Scheduled'
  <2>1. m \in Mutex /\ waiting_threads[m] \in Seq(Thread)
    BY <1>2 DEF TypeOK, WaitObject
  <2>2. QED BY <1>1, <1>4, <2>1, ListScheduled
<1>5. QED BY <1>3, <1>4 DEF UpdatePendingMutexes

\* A thread that waits becomes ready.
LEMMA ResumeFromWaitScheduled ==
  ASSUME TypeOK, Scheduled, ResumeFromWait
  PROVE  Scheduled'
<1> DEFINE t == Top.thread
<1>1. Calling("ResumeFromWait")
      /\ UNCHANGED <<current_thread, wakeups, loop_vars, current_priority>>
  BY DEF ResumeFromWait
<1>2. t \in Thread
  BY <1>1, TopCall, CallFields DEF TypeOK
<1>3. CASE status[t] \notin Waiting
  BY <1>1, <1>3, QuietStep DEF ResumeFromWait
<1>4. CASE status[t] \in Waiting
  <2>1. /\ ready_queue' = QueuePushBack(ready_queue, t, current_priority[t])
        /\ status' = [status EXCEPT ![t] = "Ready"]
        /\ PrepareReschedule
    BY <1>4 DEF ResumeFromWait
  <2> HIDE DEF t
  <2>2. /\ status[t] \notin {"Ready", "Running", "Dead"} /\ status'[t] = "Ready"
        /\ SameExcept(status', status, t) /\ SameExcept(current_priority, current_priority, t)
    BY <1>2, <1>4, <2>1 DEF Waiting, TypeOK, SameExcept
  <2>3. /\ ready_queue \in ReadyQueues /\ current_priority \in [Thread -> Priority]
        /\ Exact(ready_queue, status, current_priority)
    BY DEF TypeOK, ReadyQueues, Scheduled, ReadyQueueExact, Exact
  <2>4. Exact(ready_queue', status', current_priority)
    BY <1>2, <2>1, <2>2, <2>3, ExactPush
  <2>5. ReadyQueueExact'
    BY <1>1, <2>4 DEF Exact, ReadyQueueExact
  <2>6. CurrentThreads'
    <3>1. halted => halted'
      BY <2>1 DEF PrepareReschedule
    <3>2. halted' => to_advance' = <<>> /\ reschedule_pending'
      BY <1>1, <2>1 DEF PrepareReschedule, loop_vars, Scheduled, CurrentThreads
    <3>3. \A u \in Thread : u # t => status'[u] = status[u]
      BY <2>2 DEF SameExcept
    <3>4. ASSUME NEW c \in Core, current_thread[c] # NoThread
          PROVE  /\ CoreOf[current_thread[c]] = c
                 /\ \/ status'[current_thread[c]] \in {"Running", "Dead"}
                    \/ halted' /\ c = Head(to_run)
      <4>1. /\ CoreOf[current_thread[c]] = c /\ current_thread[c] \in Thread
            /\ \/ status[current_thread[c]] \in {"Running", "Dead"}
               \/ halted /\ c = Head(to_run)
        BY <3>4 DEF CurrentThreads, Scheduled, TypeOK
      <4>2. QED BY <2>2, <3>1, <3>3, <4>1
    <3>5. QED BY <1>1, <3>2, <3>4 DEF CurrentThreads, loop_vars
  <2>7. NoStaleWakeup'
    BY <1>1, <2>2 DEF NoStaleWakeup, Scheduled, SameExcept
  <2>8. QED BY <2>5, <2>6, <2>7 DEF Scheduled
<1>5. QED BY <1>3, <1>4

\* A thread is killed, whatever its status.
LEMMA StopScheduled ==
  ASSUME TypeOK, Scheduled, NEW t \in Thread, NEW more, Stop(t, more), Halting
  PROVE  Scheduled'
<1>1. /\ status' = [status EXCEPT ![t] = "Dead"] /\ wakeups' = [wakeups EXCEPT ![t] = 0]
      /\ ready_queue' = Unready(t)
      /\ UNCHANGED <<current_priority, current_thread, loop_vars>>
  BY DEF Stop, CancelWakeup
<1>2. /\ status'[t] = "Dead" /\ SameExcept(status', status, t)
      /\ SameExcept(current_priority, current_priority, t)
      /\ SameExcept(wakeups', wakeups, t)
  BY <1>1 DEF TypeOK, SameExcept
<1>3. /\ ready_queue \in ReadyQueues /\ current_priority \in [Thread -> Priority]
      /\ Exact(ready_queue, status, current_priority)
  BY DEF TypeOK, ReadyQueues, Scheduled, ReadyQueueExact, Exact
<1>4. Exact(ready_queue', status', current_priority)
  <2>1. CASE status[t] = "Ready"
    BY <1>1, <1>2, <1>3, <2>1, ExactRemove DEF Unready
  <2>2. CASE status[t] # "Ready"
    BY <1>1, <1>2, <1>3, <2>2, ExactOther DEF Unready
  <2>3. QED BY <2>1, <2>2
<1>5. ReadyQueueExact'
  BY <1>1, <1>4 DEF Exact, ReadyQueueExact
<1>6. CurrentThreads'
  <2>1. /\ halted => halted'
        /\ halted' => to_advance' = <<>> /\ reschedule_pending'
    BY <1>1 DEF Halting, PrepareReschedule, halt_vars, loop_vars, Scheduled, CurrentThreads, TypeOK
  <2>2. QED BY <1>1, <1>2, <2>1 DEF CurrentThreads, Scheduled, loop_vars, TypeOK, SameExcept
<1>7. NoStaleWakeup'
  BY <1>1, <1>2 DEF NoStaleWakeup, Scheduled, SameExcept
<1>8. QED BY <1>5, <1>6, <1>7 DEF Scheduled

LEMMA TerminateProcessThreadsScheduled ==
  ASSUME TypeOK, Scheduled, TerminateProcessThreads
  PROVE  Scheduled'
<1> DEFINE cur == current_thread[Top.core]
<1>1. Calling("TerminateProcessThreads") /\ calls \in Seq(Call)
  BY DEF TerminateProcessThreads, TypeOK
<1>2. cur \in Thread \cup {NoThread}
  BY <1>1, TopCall, CallFields DEF TypeOK
<1>3. ASSUME NEW t \in Thread, Stop(t, calls), UNCHANGED halt_vars PROVE Scheduled'
  BY <1>3, StopScheduled DEF Halting
<1>4. CASE cur # NoThread /\ Stop(cur, Tail(calls)) /\ PrepareReschedule
  BY <1>2, <1>4, StopScheduled DEF Halting
<1>5. CASE UNCHANGED <<status, priority_vars, wait_vars, wakeups, current_thread, timer_vars,
                       available_count, mutex_vars, loop_vars, halt_vars>>
  BY <1>5, QuietStep DEF priority_vars
<1>6. QED BY <1>3, <1>4, <1>5 DEF TerminateProcessThreads

LEMMA KernelCallScheduled ==
  ASSUME TypeOK, Scheduled, KernelCall
  PROVE  Scheduled'
<1>1. CASE WakeupDone
  BY <1>1, QuietStep DEF WakeupDone, priority_vars
<1>2. CASE ReleaseThreadMutexes
  BY <1>2, QuietStep DEF ReleaseThreadMutexes, priority_vars
<1>3. CASE RearmTimer
  BY <1>3, QuietStep DEF RearmTimer, priority_vars
<1>4. QED
  BY <1>1, <1>2, <1>3, WakeupOneScheduled, AddWaitingThreadScheduled,
     RemoveWaitingThreadScheduled, ResumeFromWaitScheduled, UpdatePendingMutexesScheduled,
     TerminateProcessThreadsScheduled DEF KernelCall

--------------------------------------------------------------------------------
\* System calls and timing events keep the scheduler's invariant.

\* The thread that executes is running or dead, and it is its core's thread.
LEMMA GuestThread ==
  ASSUME TypeOK, Scheduled, NEW t \in Thread, Guest(t)
  PROVE  /\ to_advance = <<>> /\ ~halted
         /\ Head(to_run) \in Core /\ CoreOf[t] = Head(to_run)
         /\ status[t] \in {"Running", "Dead"}
         /\ \A c \in Core : current_thread[c] # NoThread =>
              /\ CoreOf[current_thread[c]] = c
              /\ status[current_thread[c]] \in {"Running", "Dead"}
<1>1. to_advance = <<>> /\ ~halted /\ t = current_thread[Head(to_run)]
  BY DEF Guest
<1>2. Head(to_run) \in Core
  BY DEF TypeOK
<1>3. t # NoThread
  BY ObjectAssumption
<1>4. QED BY <1>1, <1>2, <1>3 DEF Scheduled, CurrentThreads

\* The thread that executes gives up its core.
LEMMA SuspendStep ==
  ASSUME TypeOK, Scheduled, NEW t \in Thread, Guest(t),
         NEW s, s \notin {"Ready", "Running"}, status' = [status EXCEPT ![t] = s],
         SameExcept(wakeups', wakeups, t), PrepareReschedule,
         UNCHANGED <<current_priority, ready_queue, current_thread, loop_vars>>
  PROVE  Scheduled'
<1>1. /\ to_advance = <<>> /\ CoreOf[t] = Head(to_run) /\ status[t] \in {"Running", "Dead"}
      /\ \A c \in Core : current_thread[c] # NoThread =>
           /\ CoreOf[current_thread[c]] = c
           /\ status[current_thread[c]] \in {"Running", "Dead"}
  BY GuestThread
<1>2. /\ SameExcept(status', status, t) /\ status'[t] = s
      /\ SameExcept(current_priority, current_priority, t)
  BY DEF TypeOK, SameExcept
<1>3. ready_queue \in ReadyQueues /\ Exact(ready_queue, status, current_priority)
  BY DEF TypeOK, ReadyQueues, Scheduled, ReadyQueueExact, Exact
<1>4. Exact(ready_queue, status', current_priority)
  BY <1>1, <1>2, <1>3, ExactOther
<1>5. ReadyQueueExact'
  BY <1>4 DEF Exact, ReadyQueueExact
<1>6. CurrentThreads'
  <2>1. halted' /\ reschedule_pending' /\ to_advance' = <<>> /\ to_run' = to_run
    BY <1>1 DEF PrepareReschedule, loop_vars
  <2>2. ASSUME NEW c \in Core, current_thread[c] # NoThread
        PROVE  /\ CoreOf[current_thread[c]] = c
               /\ \/ status'[current_thread[c]] \in {"Running", "Dead"}
                  \/ c = Head(to_run)
    <3>1. current_thread[c] \in Thread
      BY <2>2 DEF TypeOK
    <3>2. QED BY <1>1, <1>2, <2>2, <3>1 DEF SameExcept
  <2>3. QED BY <2>1, <2>2 DEF CurrentThreads
<1>7. NoStaleWakeup'
  BY <1>2 DEF NoStaleWakeup, Scheduled, SameExcept
<1>8. QED BY <1>5, <1>6, <1>7 DEF Scheduled

LEMMA WaitSynchronizationScheduled ==
  ASSUME TypeOK, Scheduled, NEW t \in Thread, NEW objs \in Seq(WaitObject),
         NEW wait_all \in BOOLEAN, NEW timeout, WaitSynchronization(t, objs, wait_all, timeout)
  PROVE  Scheduled'
<1>0. Guest(t) /\ UNCHANGED <<current_thread, loop_vars>>
  BY DEF WaitSynchronization
<1>1. CASE Available(objs, t, wait_all)
  <2> DEFINE I == {i \in 1 .. Len(objs) : ~ShouldWait(objs[i], t)}
             first == SelectInSeq(objs, LAMBDA o : ~ShouldWait(o, t))
             got == IF wait_all THEN objs ELSE <<objs[first]>>
  <2>1. Acquire(got, t) /\ UNCHANGED <<status, wakeups>>
    BY <1>1 DEF WaitSynchronization
  <2>2. ~wait_all => first \in 1 .. Len(objs)
    <3>1. HAVE ~wait_all
    <3>2. I # {} /\ I \in SUBSET Nat
      BY <1>1, <3>1 DEF Available
    <3>3. Min(I) \in I
      BY <3>2, MinIsLeast
    <3>4. first = Min(I)
      BY <3>2 DEF SelectInSeq
    <3>5. QED BY <3>3, <3>4
  <2> HIDE DEF first
  <2>3. got \in Seq(WaitObject)
    BY <2>2
  <2> HIDE DEF got
  <2>4. /\ Halting
        /\ \/ \E p \in Priority : BoostPriority(t, p)
           \/ UNCHANGED <<current_priority, ready_queue>>
    BY <2>1, <2>3, AcquireBoost DEF Halting
  <2>5. Exact(ready_queue', status, current_priority')
    BY <2>4, BoostStep
  <2>6. QED BY <1>0, <2>1, <2>4, <2>5, PriorityStep
<1>2. CASE ~Available(objs, t, wait_all)
  <2>1. UNCHANGED <<current_priority, ready_queue>>
    BY <1>2 DEF WaitSynchronization
  <2>2. CASE timeout = "zero"
    <3>1. UNCHANGED <<status, wakeups, halt_vars>>
      BY <1>2, <2>2 DEF WaitSynchronization
    <3>2. QED BY <1>0, <2>1, <3>1, QuietStep
  <2>3. CASE timeout # "zero"
    <3> DEFINE s == IF wait_all THEN "WaitSynchAll" ELSE "WaitSynchAny"
    <3>1. /\ status' = [status EXCEPT ![t] = s] /\ PrepareReschedule
          /\ wakeups' = IF timeout = "finite" THEN [wakeups EXCEPT ![t] = @ + 1] ELSE wakeups
      BY <1>2, <2>3 DEF WaitSynchronization
    <3>2. SameExcept(wakeups', wakeups, t)
      BY <3>1 DEF SameExcept, TypeOK
    <3>3. s \notin {"Ready", "Running"}
      OBVIOUS
    <3> HIDE DEF s
    <3>4. QED BY <1>0, <2>1, <3>1, <3>2, <3>3, SuspendStep
  <2>4. QED BY <2>2, <2>3
<1>3. QED BY <1>1, <1>2

LEMMA SystemCallScheduled ==
  ASSUME TypeOK, Scheduled, NEW t \in Thread, SystemCall(t)
  PROVE  Scheduled'
<1>1. ASSUME NEW objs \in WaitLists[t], NEW wait_all \in BOOLEAN, NEW timeout \in Timeouts,
             WaitSynchronization(t, objs, wait_all, timeout)
      PROVE  Scheduled'
  BY <1>1, WaitSynchronizationScheduled, ConstantAssumption
<1>2. ASSUME NEW timeout, SleepThread(t, timeout) PROVE Scheduled'
  <2>1. SameExcept(wakeups', wakeups, t)
    BY <1>2 DEF SleepThread, SameExcept, TypeOK
  <2>2. QED BY <1>2, <2>1, SuspendStep DEF SleepThread, priority_vars
<1>3. ASSUME NEW o \in Signalable, Clear(t, o) PROVE Scheduled'
  BY <1>3, QuietStep DEF Clear, priority_vars
<1>4. ASSUME NEW o \in Timer, NEW delayed, NEW periodic, SetTimer(t, o, delayed, periodic)
      PROVE  Scheduled'
  BY <1>4, QuietStep DEF SetTimer, priority_vars
<1>5. ASSUME NEW o \in Timer, CancelTimer(t, o) PROVE Scheduled'
  BY <1>5, QuietStep DEF CancelTimer, priority_vars
<1>6. ASSUME NEW s \in Semaphore, NEW n, ReleaseSemaphore(t, s, n) PROVE Scheduled'
  BY <1>6, QuietStep DEF ReleaseSemaphore, priority_vars
<1>7. ASSUME NEW m \in Mutex, ReleaseMutex(t, m) PROVE Scheduled'
  <2> DEFINE best == BestPriority(t, HeldMutexes(t) \ {m}, mutex_priority)
  <2>1. best \in Priority
    BY BestPriorityType DEF HeldMutexes, TypeOK
  <2>2. \/ BoostPriority(t, best) /\ PrepareReschedule
        \/ UNCHANGED <<current_priority, ready_queue, halt_vars>>
    <3>1. \/ lock_count[m] > 1 /\ UNCHANGED <<current_priority, ready_queue, halt_vars>>
          \/ BoostPriority(t, best) /\ PrepareReschedule
      BY <1>7, Zenon DEF ReleaseMutex
    <3>2. QED BY ONLY <3>1, Zenon
  <2> HIDE DEF best
  <2>3. Exact(ready_queue', status, current_priority') /\ Halting
    BY <2>1, <2>2, BoostStep DEF Halting
  <2>4. QED BY <1>7, <2>3, PriorityStep DEF ReleaseMutex
<1>8. ASSUME NEW u \in Thread, NEW p \in Priorities, SetThreadPriority(t, u, p) PROVE Scheduled'
  <2> DEFINE S == {p} \cup {mutex_priority[m] : m \in HeldMutexes(u)}
  <2>0. p \in Priority
    BY ConstantAssumption
  <2>1. S \in SUBSET Priority /\ S # {}
    <3>1. HeldMutexes(u) \subseteq Mutex
      BY DEF HeldMutexes
    <3>2. mutex_priority \in [Mutex -> Priority]
      BY DEF TypeOK
    <3>3. QED BY ONLY <2>0, <3>1, <3>2, Zenon
  <2>2. Min(S) \in Priority
    BY <2>1, MinPriority
  <2>3. BoostPriority(u, Min(S)) /\ Halting
    BY <1>8 DEF SetThreadPriority, Halting
  <2> HIDE DEF S
  <2>4. Exact(ready_queue', status, current_priority')
    BY <2>2, <2>3, BoostStep
  <2>5. QED BY <1>8, <2>3, <2>4, PriorityStep DEF SetThreadPriority
<1>9. ASSUME NEW u \in Thread, NEW p \in Priorities, CreateThread(t, u, p) PROVE Scheduled'
  <2>0. p \in Priority
    BY ConstantAssumption
  <2>1. /\ Guest(t) /\ status[u] = "Unborn" /\ Halting
        /\ current_priority' = [current_priority EXCEPT ![u] = p]
        /\ \/ /\ status' = [status EXCEPT ![u] = "Ready"]
              /\ ready_queue' = QueuePushBack(ready_queue, u, p)
           \/ /\ status' = [status EXCEPT ![u] = "Dormant"]
              /\ ready_queue' = ready_queue
        /\ UNCHANGED <<wakeups, current_thread, loop_vars>>
    BY <1>9 DEF CreateThread, Halting
  <2>2. /\ SameExcept(status', status, u) /\ status'[u] \in {"Ready", "Dormant"}
        /\ SameExcept(current_priority', current_priority, u) /\ current_priority'[u] = p
        /\ current_priority' \in [Thread -> Priority]
    BY <2>0, <2>1 DEF TypeOK, SameExcept
  <2>3. ready_queue \in ReadyQueues /\ Exact(ready_queue, status, current_priority)
    BY DEF TypeOK, ReadyQueues, Scheduled, ReadyQueueExact, Exact
  <2>4. Exact(ready_queue', status', current_priority')
    <3>1. CASE status'[u] = "Ready"
      <4>1. ready_queue' = QueuePushBack(ready_queue, u, p)
        BY <2>1, <3>1 DEF TypeOK
      <4>2. QED BY <2>1, <2>2, <2>3, <3>1, <4>1, ExactPush
    <3>2. CASE status'[u] = "Dormant"
      <4>1. ready_queue' = ready_queue
        BY <2>1, <3>2 DEF TypeOK
      <4>2. QED BY <2>1, <2>2, <2>3, <3>2, <4>1, ExactOther
    <3>3. QED BY <2>2, <3>1, <3>2
  <2>5. ReadyQueueExact'
    BY <2>4 DEF Exact, ReadyQueueExact
  <2>6. CurrentThreads'
    <3>1. \A c \in Core : current_thread[c] # NoThread =>
            /\ CoreOf[current_thread[c]] = c
            /\ status[current_thread[c]] \in {"Running", "Dead"}
      BY <2>1, GuestThread
    <3>2. ASSUME NEW c \in Core, current_thread[c] # NoThread
          PROVE  status'[current_thread[c]] = status[current_thread[c]]
      <4>1. current_thread[c] \in Thread
        BY <3>2 DEF TypeOK
      <4>2. current_thread[c] # u
        BY <2>1, <3>1, <3>2
      <4>3. QED BY <2>2, <4>1, <4>2 DEF SameExcept
    <3>3. halted' => to_advance' = <<>> /\ reschedule_pending'
      <4>1. to_advance' = <<>> /\ ~halted
        BY <2>1 DEF Guest, loop_vars
      <4>2. reschedule_pending' \/ ~halted'
        BY <2>1, <4>1 DEF Halting, halt_vars, PrepareReschedule
      <4>3. QED BY <4>1, <4>2
    <3>4. QED BY <2>1, <3>1, <3>2, <3>3 DEF CurrentThreads
  <2>7. NoStaleWakeup'
    BY <2>1, <2>2 DEF NoStaleWakeup, Scheduled, SameExcept
  <2>8. QED BY <2>5, <2>6, <2>7 DEF Scheduled
<1>10. ASSUME ExitThread(t) PROVE Scheduled'
  <2>1. Stop(t, <<>>) /\ Halting
    BY <1>10 DEF ExitThread, Halting
  <2>2. QED BY <2>1, StopScheduled, Zenon
<1>11. ASSUME NEW p, TerminateProcess(t, p) PROVE Scheduled'
  BY <1>11, QuietStep DEF TerminateProcess, priority_vars
<1>12. QED
  BY <1>1, <1>2, <1>3, <1>4, <1>5, <1>6, <1>7, <1>8, <1>9, <1>10, <1>11 DEF SystemCall

LEMMA TimingScheduled ==
  ASSUME TypeOK, Scheduled,
         \/ \E t \in Thread : ThreadWakeupCallback(t)
         \/ \E e \in Event : SignalEvent(e)
         \/ \E o \in Timer : TimerCallback(o)
  PROVE  Scheduled'
<1>1. ASSUME NEW t \in Thread, ThreadWakeupCallback(t) PROVE Scheduled'
  <2>1. /\ wakeups[t] > 0 /\ wakeups' = [wakeups EXCEPT ![t] = wakeups[t] - 1]
        /\ UNCHANGED <<status, current_thread, current_priority, ready_queue, loop_vars, halt_vars>>
    BY <1>1 DEF ThreadWakeupCallback, priority_vars
  <2>2. \A u \in Thread : wakeups[u] = 0 => wakeups'[u] = 0
    BY <2>1 DEF TypeOK
  <2>3. CurrentThreads' /\ NoStaleWakeup'
    BY <2>1, <2>2, SameThreads DEF Scheduled, Halting
  <2>4. ReadyQueueExact'
    BY <2>1 DEF Scheduled, ReadyQueueExact
  <2>5. QED BY <2>3, <2>4 DEF Scheduled
<1>2. ASSUME NEW e \in Event, SignalEvent(e) PROVE Scheduled'
  BY <1>2, QuietStep DEF SignalEvent, priority_vars
<1>3. ASSUME NEW o \in Timer, TimerCallback(o) PROVE Scheduled'
  BY <1>3, QuietStep DEF TimerCallback, priority_vars
<1>4. QED BY <1>1, <1>2, <1>3

--------------------------------------------------------------------------------
\* The loop over the cores keeps the scheduler's invariant.

\* The thread a core switches to is its ready thread, or the one it already runs.
LEMMA NextThread ==
  ASSUME TypeOK, Scheduled, NEW c \in Core,
         current_thread[c] # NoThread => CoreOf[current_thread[c]] = c
  PROVE  LET next == PopNextReadyThread(c)
             cur  == current_thread[c]
         IN  \/ next = NoThread
             \/ next \in Thread /\ next = cur /\ status[cur] = "Running" /\ CoreOf[next] = c
             \/ next \in Thread /\ status[next] = "Ready" /\ CoreOf[next] = c
<1> DEFINE cur == current_thread[c]
<1>1. ASSUME NEW bound
      PROVE  \/ FirstReady(c, bound) = NoThread
             \/ /\ FirstReady(c, bound) \in Thread /\ status[FirstReady(c, bound)] = "Ready"
                /\ CoreOf[FirstReady(c, bound)] = c
  <2> DEFINE t == FirstReady(c, bound)
  <2>1. CASE t = NoThread
    BY <2>1
  <2>2. CASE t # NoThread
    <3>1. PICK p \in ReadyLevels(c, bound) : t = Head(ready_queue[c][p]) /\ t \in Thread
      BY <2>2, FirstReadyType
    <3>2. /\ p \in Priority /\ ready_queue[c][p] \in Seq(Thread) /\ ready_queue[c][p] # <<>>
      BY DEF ReadyLevels, TypeOK
    <3> HIDE DEF t
    <3>3. t \in ToSet(ready_queue[c][p])
      BY <3>1, <3>2 DEF ToSet
    <3>4. status[t] = "Ready" /\ CoreOf[t] = c
      BY <3>2, <3>3 DEF Scheduled, ReadyQueueExact
    <3>5. QED BY <3>1, <3>4 DEF t
  <2>3. QED BY <2>1, <2>2
<1>2. cur \in Thread \cup {NoThread}
  BY DEF TypeOK
<1>3. QED BY <1>1, <1>2 DEF PopNextReadyThread

\* A core puts its running thread back, at the front of its level, and takes the next.
LEMMA RescheduleScheduled ==
  ASSUME TypeOK, Scheduled, NEW c \in Core, Reschedule(c), UNCHANGED current_priority,
         \A d \in Core : d # c /\ current_thread[d] # NoThread =>
            status[current_thread[d]] \in {"Running", "Dead"}
  PROVE  /\ ReadyQueueExact' /\ NoStaleWakeup'
         /\ \A d \in Core : current_thread'[d] # NoThread =>
              /\ CoreOf[current_thread'[d]] = d
              /\ status'[current_thread'[d]] \in {"Running", "Dead"}
<1> DEFINE cur == current_thread[c]
           next == PopNextReadyThread(c)
           yield == cur # NoThread /\ status[cur] = "Running"
           queue == IF yield THEN QueuePushFront(ready_queue, cur, current_priority[cur])
                    ELSE ready_queue
           saved == IF yield THEN [status EXCEPT ![cur] = "Ready"] ELSE status
<1>1. \A d \in Core : current_thread[d] # NoThread =>
        CoreOf[current_thread[d]] = d /\ current_thread[d] \in Thread
  BY DEF Scheduled, CurrentThreads, TypeOK
<1>2. /\ ready_queue \in ReadyQueues /\ current_priority \in [Thread -> Priority]
      /\ Exact(ready_queue, status, current_priority)
  BY DEF TypeOK, ReadyQueues, Scheduled, ReadyQueueExact, Exact
<1>3. \/ next = NoThread
      \/ next \in Thread /\ next = cur /\ status[cur] = "Running" /\ CoreOf[next] = c
      \/ next \in Thread /\ status[next] = "Ready" /\ CoreOf[next] = c
  BY <1>1, NextThread
<1>4. /\ current_thread' = [current_thread EXCEPT ![c] = next]
      /\ status' = IF next = NoThread THEN saved ELSE [saved EXCEPT ![next] = "Running"]
      /\ wakeups' = IF next = NoThread THEN wakeups ELSE CancelWakeup(next)
      /\ ready_queue' = IF next = NoThread THEN queue
                        ELSE QueueRemove(queue, next, current_priority[next])
  BY DEF Reschedule
<1>5. /\ saved \in [Thread -> Status]
      /\ \A u \in Thread : saved[u] = IF yield /\ u = cur THEN "Ready" ELSE status[u]
  BY <1>1 DEF TypeOK, Status
<1>6. queue \in ReadyQueues /\ Exact(queue, saved, current_priority)
  <2>1. CASE ~yield
    BY <1>2, <2>1
  <2>2. CASE yield
    <3>1. /\ cur \in Thread /\ status[cur] # "Ready" /\ saved[cur] = "Ready"
          /\ SameExcept(saved, status, cur)
          /\ SameExcept(current_priority, current_priority, cur)
      BY <1>1, <1>5, <2>2 DEF SameExcept
    <3>2. queue = QueuePushFront(ready_queue, cur, current_priority[cur])
      BY <2>2
    <3> HIDE DEF cur, saved, queue, yield
    <3>3. QED BY <1>2, <3>1, <3>2, ExactPush, QueueTypes
  <2>3. QED BY <2>1, <2>2
<1>7. next # NoThread => next \in Thread /\ saved[next] = "Ready" /\ CoreOf[next] = c
  BY <1>1, <1>3, <1>5, ObjectAssumption
<1> HIDE DEF next, queue, saved, yield
<1>8. ASSUME NEW u \in Thread
      PROVE  status'[u] = IF next # NoThread /\ u = next THEN "Running" ELSE saved[u]
  BY <1>4, <1>5, <1>7
<1>9. ReadyQueueExact'
  <2>1. Exact(ready_queue', status', current_priority)
    <3>1. CASE next = NoThread
      BY <1>4, <1>6, <3>1
    <3>2. CASE next # NoThread
      <4>1. /\ SameExcept(status', saved, next) /\ status'[next] # "Ready"
            /\ SameExcept(current_priority, current_priority, next)
        BY <1>7, <1>8, <3>2 DEF SameExcept
      <4>2. ready_queue' = QueueRemove(queue, next, current_priority[next])
        BY <1>4, <3>2
      <4>3. QED BY <1>2, <1>6, <1>7, <3>2, <4>1, <4>2, ExactRemove
    <3>3. QED BY <3>1, <3>2
  <2>2. QED BY <2>1 DEF Exact, ReadyQueueExact
<1>10. \A d \in Core : current_thread'[d] = IF d = c THEN next ELSE current_thread[d]
  BY <1>4 DEF TypeOK
<1>11. NoStaleWakeup'
  <2>1. ASSUME NEW u \in Thread, status'[u] = "Running"
        PROVE  current_thread'[CoreOf[u]] = u /\ wakeups'[u] = 0
    <3>0. CoreOf[u] \in Core
      BY ConstantAssumption
    <3>1. CASE next # NoThread /\ u = next
      BY <1>4, <1>7, <1>10, <3>0, <3>1 DEF CancelWakeup, TypeOK
    <3>2. CASE ~(next # NoThread /\ u = next)
      <4>1. saved[u] = "Running"
        BY <1>8, <2>1, <3>2
      <4>2. status[u] = "Running" /\ ~(yield /\ u = cur)
        BY <1>5, <4>1
      <4>3. current_thread[CoreOf[u]] = u /\ wakeups[u] = 0
        BY <4>2 DEF Scheduled, NoStaleWakeup
      <4>4. CoreOf[u] # c
        BY <4>2, <4>3, ObjectAssumption DEF yield
      <4>5. wakeups'[u] = 0
        BY <1>4, <1>7, <3>2, <4>3 DEF CancelWakeup, TypeOK
      <4>6. QED BY <1>10, <3>0, <4>3, <4>4, <4>5
    <3>3. QED BY <3>1, <3>2
  <2>2. QED BY <2>1 DEF NoStaleWakeup
<1>12. ASSUME NEW d \in Core, current_thread'[d] # NoThread
       PROVE  /\ CoreOf[current_thread'[d]] = d
              /\ status'[current_thread'[d]] \in {"Running", "Dead"}
  <2>1. CASE d = c
    BY <1>7, <1>8, <1>10, <1>12, <2>1
  <2>2. CASE d # c
    <3> DEFINE u == current_thread[d]
    <3>1. u = current_thread'[d] /\ u \in Thread /\ CoreOf[u] = d
          /\ status[u] \in {"Running", "Dead"}
      BY <1>1, <1>10, <1>12, <2>2
    <3> HIDE DEF u
    <3>2. ~(next # NoThread /\ u = next)
      BY <1>7, <2>2, <3>1
    <3>3. ~(yield /\ u = cur)
      BY <1>1, <2>2, <3>1 DEF yield
    <3>4. status'[u] = status[u]
      BY <1>5, <1>8, <3>1, <3>2, <3>3
    <3>5. QED BY <3>1, <3>4
  <2>3. QED BY <2>1, <2>2
<1>13. QED BY <1>9, <1>11, <1>12

LEMMA LoopScheduled ==
  ASSUME TypeOK, Scheduled, EndAdvance \/ EndSlice
  PROVE  Scheduled'
<1>1. CASE EndAdvance
  <2>1. /\ to_advance # <<>> /\ Reschedule(RunningCore)
        /\ UNCHANGED <<current_priority, halt_vars>>
    BY <1>1 DEF EndAdvance
  <2>2. ~halted
    BY <2>1 DEF Scheduled, CurrentThreads
  <2>3. \A d \in Core : current_thread[d] # NoThread =>
          status[current_thread[d]] \in {"Running", "Dead"}
    BY <2>2 DEF Scheduled, CurrentThreads
  <2>4. /\ ReadyQueueExact' /\ NoStaleWakeup'
        /\ \A d \in Core : current_thread'[d] # NoThread =>
             /\ CoreOf[current_thread'[d]] = d
             /\ status'[current_thread'[d]] \in {"Running", "Dead"}
    BY <2>1, <2>3, RunningCoreType, RescheduleScheduled
  <2>5. ~halted'
    BY <2>1, <2>2 DEF halt_vars
  <2>6. CurrentThreads'
    BY <2>4, <2>5 DEF CurrentThreads
  <2>7. QED BY <2>4, <2>6 DEF Scheduled
<1>2. CASE EndSlice
  <2>1. to_advance = <<>> /\ ~halted' /\ UNCHANGED current_priority
    BY <1>2 DEF EndSlice
  <2>2. RunningCore = Head(to_run)
    BY <2>1 DEF RunningCore
  <2>3. CASE Reschedule(RunningCore)
    <3>1. \A d \in Core : d # RunningCore /\ current_thread[d] # NoThread =>
            status[current_thread[d]] \in {"Running", "Dead"}
      BY <2>2 DEF Scheduled, CurrentThreads
    <3>2. /\ ReadyQueueExact' /\ NoStaleWakeup'
          /\ \A d \in Core : current_thread'[d] # NoThread =>
               /\ CoreOf[current_thread'[d]] = d
               /\ status'[current_thread'[d]] \in {"Running", "Dead"}
      BY <2>1, <2>3, <3>1, RunningCoreType, RescheduleScheduled
    <3>3. CurrentThreads'
      BY <2>1, <3>2 DEF CurrentThreads
    <3>4. QED BY <3>2, <3>3 DEF Scheduled
  <2>4. CASE ~reschedule_pending /\ UNCHANGED <<current_thread, status, wakeups, ready_queue>>
    <3>1. ~halted
      BY <2>4 DEF Scheduled, CurrentThreads
    <3>2. CurrentThreads'
      BY <2>1, <2>4, <3>1 DEF Scheduled, CurrentThreads
    <3>3. ReadyQueueExact' /\ NoStaleWakeup'
      BY <2>1, <2>4 DEF Scheduled, ReadyQueueExact, NoStaleWakeup
    <3>4. QED BY <3>2, <3>3 DEF Scheduled
  <2>5. QED BY <1>2, <2>3, <2>4 DEF EndSlice
<1>3. QED BY <1>1, <1>2

LEMMA InitScheduled == Init => Scheduled
<1> HAVE Init
<1>1. CurrentThreads /\ NoStaleWakeup
  BY DEF Init, CurrentThreads, NoStaleWakeup
<1>2. ASSUME NEW c \in Core, NEW p \in Priority
      PROVE  /\ IsInjective(ready_queue[c][p])
             /\ \A t \in ToSet(ready_queue[c][p]) :
                  t \in InitialThreads /\ CoreOf[t] = c /\ InitialPriority[t] = p
  <2>1. CASE MainThread(c, p) = {}
    <3>1. ready_queue[c][p] = <<>>
      BY <2>1 DEF Init
    <3>2. QED BY <3>1 DEF IsInjective, ToSet
  <2>2. CASE MainThread(c, p) # {}
    <3> DEFINE m == CHOOSE t \in MainThread(c, p) : TRUE
    <3>1. m \in MainThread(c, p)
      BY <2>2
    <3>2. ready_queue[c][p] = <<m>>
      BY <2>2 DEF Init
    <3> HIDE DEF m
    <3>3. QED BY <3>1, <3>2 DEF IsInjective, ToSet, MainThread
  <2>3. QED BY <2>1, <2>2
<1>3. ASSUME NEW t \in InitialThreads
      PROVE  t \in ToSet(ready_queue[CoreOf[t]][InitialPriority[t]])
  <2> DEFINE c == CoreOf[t]
             p == InitialPriority[t]
             m == CHOOSE u \in MainThread(c, p) : TRUE
  <2>1. c \in Core /\ p \in Priority /\ t \in MainThread(c, p)
    BY ConstantAssumption DEF MainThread
  <2>2. m \in MainThread(c, p)
    BY <2>1
  <2>3. m = t
    BY <2>2, MainAssumption DEF MainThread
  <2>4. ready_queue[c][p] = <<m>>
    BY <2>1 DEF Init
  <2> HIDE DEF m, c, p
  <2>5. t \in ToSet(ready_queue[c][p])
    BY <2>3, <2>4 DEF ToSet
  <2>6. QED BY <2>5 DEF c, p
<1>4. ReadyQueueExact
  <2>1. /\ current_priority = InitialPriority /\ InitialThreads \subseteq Thread
        /\ \A t \in Thread : status[t] = IF t \in InitialThreads THEN "Ready" ELSE "Unborn"
    BY ConstantAssumption DEF Init
  <2>2. QED BY <1>2, <1>3, <2>1 DEF ReadyQueueExact
<1>5. QED BY <1>1, <1>4 DEF Scheduled

LEMMA NextScheduled == TypeOK /\ Scheduled /\ [Next]_vars => Scheduled'
<1> SUFFICES ASSUME TypeOK, Scheduled, [Next]_vars PROVE Scheduled'
  OBVIOUS
<1>1. CASE UNCHANGED vars
  BY <1>1, QuietStep DEF vars, priority_vars
<1>2. QED
  BY <1>1, KernelCallScheduled, SystemCallScheduled, TimingScheduled, LoopScheduled DEF Next

LEMMA AlwaysScheduled == Spec => []Scheduled
BY InitType, NextType, InitScheduled, NextScheduled, PTL DEF Spec

\* The ready queues hold exactly the ready threads, each once, on its core and at its
\* current priority, through every boost, timeout, wakeup and termination, for every
\* number of threads, cores, priorities and objects.
THEOREM QueuesExact == Spec => []ReadyQueueExact
<1>1. Scheduled => ReadyQueueExact
  BY DEF Scheduled
<1>2. QED BY <1>1, AlwaysScheduled, PTL

\* Every core's current thread is running or dead, or the core is halted with a
\* reschedule pending, for every number of threads and cores.
THEOREM CurrentAreRunning == Spec => []CurrentThreads
<1>1. Scheduled => CurrentThreads
  BY DEF Scheduled
<1>2. QED BY <1>1, AlwaysScheduled, PTL

\* A thread runs only as the current thread of its core, and then no timeout of an
\* earlier wait is left over for it.
THEOREM WakeupsCancelled == Spec => []NoStaleWakeup
<1>1. Scheduled => NoStaleWakeup
  BY DEF Scheduled
<1>2. QED BY <1>1, AlwaysScheduled, PTL

--------------------------------------------------------------------------------
(******************************************************************************)
(* Waits and their ends.                                                      *)
(*                                                                            *)
(* What the kernel does between two system calls is on the stack `calls', and *)
(* most of what has to be known is known of that stack: which calls can be    *)
(* below which (Shape), that a timer about to be rearmed has no event         *)
(* (TimerInv), that the lists of threads and objects agree but for the thread *)
(* that is leaving them (ListInv), that whatever a waiting thread could now   *)
(* have is announced by a wakeup still on the stack (NoneLost), that a dead   *)
(* thread holds a mutex only while the release of its mutexes is on the stack *)
(* (DeadInv), and that a thread goes to sleep or changes priorities only on a *)
(* core that is halted (HaltedCalls).                                         *)
(*                                                                            *)
(* Two hypotheses appear in theorems.  NoSelfWait: no thread waits for        *)
(* itself.  SilentSpec: a thread that TerminateProcess has stopped while      *)
(* another core had it current makes no system call in the rest of that       *)
(* core's slice; otherwise a dead thread locks mutexes and waits.  What holds *)
(* of dead threads as well is proved of every behaviour.                      *)
(******************************************************************************)

\* The calls that can be below each other on the stack: waits and priority updates
\* are alone, a timer is rearmed last, a thread is taken from its lists before it is
\* resumed or, between the wakeup of those who join it and the release of its
\* mutexes, when it is stopped; wakeups do not nest, and below the end of a thread
\* there are only further terminations.
ShapeAt(s, i) ==
  /\ s[i].op \in {"AddWaitingThread", "UpdatePending"} => Len(s) = 1
  /\ s[i].op = "RearmTimer" => i = Len(s)
  /\ s[i].op = "RemoveWaitingThread" /\ i > 1 =>
       /\ s[i - 1] = Wakeup(s[i].thread)
       /\ i < Len(s) /\ s[i + 1] = ReleaseMutexes(s[i].thread)
  /\ s[i].op = "ResumeFromWait" /\ i > 1 => s[i - 1] = Leave(s[i].thread)
  /\ s[i].op = "WakeupAllWaitingThreads" =>
       \A j \in i + 1 .. Len(s) : s[j].op # "WakeupAllWaitingThreads"
  /\ s[i].op \in {"ReleaseThreadMutexes", "TerminateProcessThreads"} =>
       \A j \in i + 1 .. Len(s) : s[j].op = "TerminateProcessThreads"
Shape(s) == \A i \in 1 .. Len(s) : ShapeAt(s, i)

\* Thread t is being taken from the lists of the objects it waits for.
Leaving(t) == Leave(t) \in ToSet(calls)

\* A timer has one event at most, and none while its rearming is on the stack.
TimerInv ==
  /\ OneTimerEvent
  /\ \A c \in ToSet(calls) : c.op = "RearmTimer" => timer_events[c.obj] = 0

\* The lists agree, except for the thread that is leaving them: only a waiting
\* thread or a dead one on its way out is in a list, and a thread that is resumed is
\* in none.
ListInv ==
  /\ \A o \in WaitObject :
       /\ IsInjective(waiting_threads[o])
       /\ \A t \in ToSet(waiting_threads[o]) : o \in ToSet(wait_objects[t])
  /\ \A t \in Thread : wait_objects[t] # <<>> =>
       InSynch(t) \/ (status[t] = "Dead" /\ Leaving(t))
  /\ \A t \in Thread : \/ calls # <<>> /\ Head(calls) = Leave(t)
                       \/ \A o \in ToSet(wait_objects[t]) : t \in ToSet(waiting_threads[o])
  /\ Calling("ResumeFromWait") => wait_objects[Top.thread] = <<>>
  /\ Calling("AddWaitingThread") => InSynch(Top.thread)

\* The objects t waits for, those it is about to wait for included.
Awaited(t) ==
  ToSet(wait_objects[t])
    \cup (IF Calling("AddWaitingThread") /\ Top.thread = t THEN ToSet(Top.objs) ELSE {})

\* Thread t has to wait for o, or o is about to wake its waiters.
Covered(o, t) == ShouldWait(o, t) \/ Wakeup(o) \in ToSet(calls)

\* A waiting thread is refused by what it waits for, or will be asked again.
NoneLost ==
  \A t \in Thread : InSynch(t) /\ ~Leaving(t) =>
    IF status[t] = "WaitSynchAll"
    THEN Awaited(t) = {} \/ \E o \in Awaited(t) : Covered(o, t)
    ELSE \A o \in Awaited(t) : Covered(o, t)

--------------------------------------------------------------------------------
\* The call stack.

LEMMA CallOps ==
  /\ \A o : Wakeup(o).op = "WakeupAllWaitingThreads" /\ Wakeup(o).obj = o
  /\ \A t : Leave(t).op = "RemoveWaitingThread" /\ Leave(t).thread = t
  /\ \A t : Resume(t).op = "ResumeFromWait" /\ Resume(t).thread = t
  /\ \A t : ReleaseMutexes(t).op = "ReleaseThreadMutexes" /\ ReleaseMutexes(t).thread = t
  /\ \A o : Rearm(o).op = "RearmTimer" /\ Rearm(o).obj = o
  /\ \A ms : UpdatePending(ms).op = "UpdatePending" /\ UpdatePending(ms).mutexes = ms
  /\ \A t, objs : /\ Enter(t, objs).op = "AddWaitingThread"
                  /\ Enter(t, objs).thread = t /\ Enter(t, objs).objs = objs
  /\ \A p, c : /\ Terminate(p, c).op = "TerminateProcessThreads"
               /\ Terminate(p, c).process = p
BY DEF Wakeup, Leave, Resume, ReleaseMutexes, Rearm, UpdatePending, Enter, Terminate

LEMMA CallForms ==
  ASSUME NEW c \in Call
  PROVE  /\ c.op = "WakeupAllWaitingThreads" => c = Wakeup(c.obj)
         /\ c.op = "RemoveWaitingThread" => c = Leave(c.thread)
         /\ c.op = "ResumeFromWait" => c = Resume(c.thread)
         /\ c.op = "ReleaseThreadMutexes" => c = ReleaseMutexes(c.thread)
BY DEF Call, Wakeup, Leave, Resume, ReleaseMutexes

\* The rest of a sequence, and one sequence above another.
LEMMA TailPlaces ==
  ASSUME NEW S, NEW s \in Seq(S), s # <<>>
  PROVE  /\ Tail(s) \in Seq(S) /\ Head(s) = s[1] /\ Len(s) \in Nat /\ Len(s) >= 1
         /\ Len(Tail(s)) = Len(s) - 1
         /\ \A i \in 1 .. Len(s) - 1 : Tail(s)[i] = s[i + 1]
         /\ \A x : x \in ToSet(s) <=> x = Head(s) \/ x \in ToSet(Tail(s))
<1>1. /\ Tail(s) \in Seq(S) /\ Head(s) = s[1] /\ Len(s) \in Nat /\ Len(s) >= 1
      /\ Len(Tail(s)) = Len(s) - 1
      /\ \A i \in 1 .. Len(s) - 1 : Tail(s)[i] = s[i + 1]
  BY HeadTailProperties, EmptySeq
<1>2. ASSUME NEW x PROVE x \in ToSet(s) <=> x = Head(s) \/ x \in ToSet(Tail(s))
  <2>1. ASSUME NEW i \in 1 .. Len(s), s[i] = x PROVE x = Head(s) \/ x \in ToSet(Tail(s))
    <3>1. CASE i = 1
      BY <1>1, <2>1, <3>1
    <3>2. CASE i # 1
      <4>1. i - 1 \in 1 .. Len(Tail(s)) /\ (i - 1) + 1 = i
        BY <1>1, <3>2
      <4>2. Tail(s)[i - 1] = x
        BY <1>1, <2>1, <4>1
      <4>3. QED BY <1>1, <4>1, <4>2, InToSet
    <3>3. QED BY <3>1, <3>2
  <2>2. ASSUME x = Head(s) PROVE x \in ToSet(s)
    <3>1. 1 \in 1 .. Len(s) /\ s[1] = x
      BY <1>1, <2>2
    <3>2. QED BY <3>1, InToSet
  <2>3. ASSUME x \in ToSet(Tail(s)) PROVE x \in ToSet(s)
    <3>1. PICK i \in 1 .. Len(Tail(s)) : Tail(s)[i] = x
      <4> DEFINE r == Tail(s)
      <4>1. r \in Seq(S) /\ x \in ToSet(r)
        BY <1>1, <2>3
      <4> HIDE DEF r
      <4>2. \E i \in 1 .. Len(r) : r[i] = x
        BY <4>1, InToSet
      <4>3. QED BY <4>2 DEF r
    <3>2. i + 1 \in 1 .. Len(s) /\ s[i + 1] = x
      BY <1>1, <3>1
    <3>3. QED BY <3>2, InToSet
  <2>4. QED BY <2>1, <2>2, <2>3, InToSet
<1>3. QED BY <1>1, <1>2

Above(r, s, d) ==
  /\ Len(r) = Len(s) + d
  /\ \A i \in 1 .. Len(s) : r[i + d] = s[i]

LEMMA ConcatPlaces ==
  ASSUME NEW S, NEW a \in Seq(S), NEW b \in Seq(S)
  PROVE  /\ a \o b \in Seq(S) /\ Above(a \o b, b, Len(a))
         /\ \A i \in 1 .. Len(a) : (a \o b)[i] = a[i]
         /\ \A x : x \in ToSet(a \o b) <=> x \in ToSet(a) \/ x \in ToSet(b)
<1> DEFINE r == a \o b
<1>1. /\ r \in Seq(S) /\ Len(r) = Len(a) + Len(b) /\ Len(a) \in Nat /\ Len(b) \in Nat
      /\ \A i \in 1 .. Len(a) + Len(b) : r[i] = IF i <= Len(a) THEN a[i] ELSE b[i - Len(a)]
  BY ConcatProperties
<1> HIDE DEF r
<1>2. \A i \in 1 .. Len(a) : r[i] = a[i]
  BY <1>1
<1>3. ASSUME NEW i \in 1 .. Len(b) PROVE r[i + Len(a)] = b[i]
  <2>1. i + Len(a) \in 1 .. Len(a) + Len(b) /\ ~(i + Len(a) <= Len(a)) /\ (i + Len(a)) - Len(a) = i
    BY <1>1
  <2>2. QED BY <1>1, <2>1
<1>4. ASSUME NEW x PROVE x \in ToSet(r) <=> x \in ToSet(a) \/ x \in ToSet(b)
  <2>1. ASSUME NEW i \in 1 .. Len(r), r[i] = x PROVE x \in ToSet(a) \/ x \in ToSet(b)
    <3>1. CASE i <= Len(a)
      <4>1. i \in 1 .. Len(a) /\ a[i] = x
        BY <1>1, <2>1, <3>1
      <4>2. QED BY <4>1, InToSet
    <3>2. CASE ~(i <= Len(a))
      <4>1. i - Len(a) \in 1 .. Len(b) /\ b[i - Len(a)] = x
        BY <1>1, <2>1, <3>2
      <4>2. QED BY <4>1, InToSet
    <3>3. QED BY <3>1, <3>2
  <2>2. ASSUME NEW i \in 1 .. Len(a), a[i] = x PROVE x \in ToSet(r)
    <3>1. i \in 1 .. Len(r) /\ r[i] = x
      BY <1>1, <1>2, <2>2
    <3>2. QED BY <1>1, <3>1, InToSet
  <2>3. ASSUME NEW i \in 1 .. Len(b), b[i] = x PROVE x \in ToSet(r)
    <3>0. i + Len(a) \in 1 .. Len(r)
      BY <1>1
    <3>1. i + Len(a) \in 1 .. Len(r) /\ r[i + Len(a)] = x
      BY <1>3, <2>3, <3>0
    <3>2. QED BY <1>1, <3>1, InToSet
  <2>4. x \in ToSet(r) <=> \E i \in 1 .. Len(r) : r[i] = x
    <3>1. r \in Seq(S)
      BY <1>1
    <3>2. \A y : y \in ToSet(r) <=> \E i \in 1 .. Len(r) : r[i] = y
      BY ONLY <3>1, InToSet
    <3>3. QED BY ONLY <3>2
  <2>5. QED BY <2>1, <2>2, <2>3, <2>4, InToSet
<1>5. QED BY <1>1, <1>2, <1>3, <1>4 DEF Above, r

LEMMA ShapePop ==
  ASSUME NEW s \in Seq(Call), s # <<>>, Shape(s)
  PROVE  Shape(Tail(s))
<1> DEFINE r == Tail(s)
<1>1. /\ Len(s) \in Nat /\ Len(r) = Len(s) - 1
      /\ \A i \in 1 .. Len(s) - 1 : r[i] = s[i + 1]
  BY TailPlaces
<1> HIDE DEF r
<1>2. ASSUME NEW i \in 1 .. Len(r) PROVE ShapeAt(r, i)
  <2>1. ShapeAt(s, i + 1) /\ r[i] = s[i + 1] /\ i + 1 \in 1 .. Len(s)
    BY <1>1 DEF Shape
  <2>2. i > 1 => r[i - 1] = s[i] /\ (i + 1) - 1 = i
    BY <1>1
  <2>3. i < Len(r) => r[i + 1] = s[i + 2] /\ i + 2 = (i + 1) + 1
    BY <1>1
  <2>4. ASSUME NEW j \in i + 1 .. Len(r)
        PROVE  j + 1 \in (i + 1) + 1 .. Len(s) /\ r[j] = s[j + 1]
    BY <1>1
  <2>5. /\ r[i].op \in {"AddWaitingThread", "UpdatePending"} => Len(r) = 1
        /\ r[i].op = "RearmTimer" => i = Len(r)
    <3>1. /\ r[i].op \in {"AddWaitingThread", "UpdatePending"} => Len(s) = 1
          /\ r[i].op = "RearmTimer" => i + 1 = Len(s)
      BY <2>1 DEF ShapeAt
    <3>2. QED BY <1>1, <2>1, <3>1
  <2>6. /\ r[i].op = "RemoveWaitingThread" /\ i > 1 =>
             /\ r[i - 1] = Wakeup(r[i].thread)
             /\ i < Len(r) /\ r[i + 1] = ReleaseMutexes(r[i].thread)
        /\ r[i].op = "ResumeFromWait" /\ i > 1 => r[i - 1] = Leave(r[i].thread)
    <3>1. i + 1 > 1 /\ (i + 1 < Len(s) => i < Len(r))
      BY <1>1
    <3>2. QED BY <2>1, <2>2, <2>3, <3>1 DEF ShapeAt
  <2>7. /\ r[i].op = "WakeupAllWaitingThreads" =>
             \A j \in i + 1 .. Len(r) : r[j].op # "WakeupAllWaitingThreads"
        /\ r[i].op \in {"ReleaseThreadMutexes", "TerminateProcessThreads"} =>
             \A j \in i + 1 .. Len(r) : r[j].op = "TerminateProcessThreads"
    BY <2>1, <2>4 DEF ShapeAt
  <2>8. QED BY <2>5, <2>6, <2>7 DEF ShapeAt
<1>3. QED BY <1>2 DEF Shape, r

\* The calls below keep their shape when the first of them made the new ones.
LEMMA ShapeBelow ==
  ASSUME NEW s \in Seq(Call), Shape(s), NEW r \in Seq(Call), NEW d \in Nat, Above(r, s, d),
         s # <<>> => s[1].op \in {"WakeupAllWaitingThreads", "ReleaseThreadMutexes",
                                  "TerminateProcessThreads"}
  PROVE  \A i \in 1 .. Len(s) : ShapeAt(r, i + d)
<1>1. /\ Len(s) \in Nat /\ Len(r) = Len(s) + d
      /\ \A i \in 1 .. Len(s) : r[i + d] = s[i]
  BY DEF Above
<1> SUFFICES ASSUME NEW i \in 1 .. Len(s) PROVE ShapeAt(r, i + d)
  OBVIOUS
<1>2. s # <<>> /\ s[1].op \in {"WakeupAllWaitingThreads", "ReleaseThreadMutexes",
                               "TerminateProcessThreads"}
  BY EmptySeq, <1>1
<1>3. ShapeAt(s, i) /\ r[i + d] = s[i]
  BY <1>1 DEF Shape
<1>4. i > 1 => r[(i + d) - 1] = s[i - 1]
  <2>1. i > 1 => i - 1 \in 1 .. Len(s) /\ (i - 1) + d = (i + d) - 1
    BY <1>1
  <2>2. QED BY <1>1, <2>1
<1>5. i < Len(s) => r[(i + d) + 1] = s[i + 1]
  <2>1. i < Len(s) => i + 1 \in 1 .. Len(s) /\ (i + 1) + d = (i + d) + 1
    BY <1>1
  <2>2. QED BY <1>1, <2>1
<1>6. ASSUME NEW j \in (i + d) + 1 .. Len(r)
      PROVE  j - d \in i + 1 .. Len(s) /\ r[j] = s[j - d]
  <2>1. j - d \in i + 1 .. Len(s) /\ j - d \in 1 .. Len(s) /\ (j - d) + d = j
    BY <1>1
  <2>2. QED BY <1>1, <2>1
<1>7. s[i].op \notin {"AddWaitingThread", "UpdatePending"}
  BY <1>1, <1>2, <1>3 DEF ShapeAt
<1>8. s[i].op \in {"RemoveWaitingThread", "ResumeFromWait"} => i > 1
  BY <1>2
<1>9. /\ s[i].op = "RearmTimer" => i + d = Len(r)
      /\ i > 1 => i + d > 1
      /\ i < Len(s) => i + d < Len(r)
  <2>1. s[i].op = "RearmTimer" => i = Len(s)
    BY <1>3 DEF ShapeAt
  <2>2. Len(s) \in Nat /\ Len(r) = Len(s) + d /\ i \in Nat /\ i >= 1 /\ d \in Nat
    BY <1>1
  <2>3. QED BY ONLY <2>1, <2>2
<1>10. /\ s[i].op = "RemoveWaitingThread" =>
            /\ r[(i + d) - 1] = Wakeup(s[i].thread)
            /\ i < Len(s) /\ r[(i + d) + 1] = ReleaseMutexes(s[i].thread)
       /\ s[i].op = "ResumeFromWait" => r[(i + d) - 1] = Leave(s[i].thread)
  BY <1>3, <1>4, <1>5, <1>8 DEF ShapeAt
<1>11. /\ s[i].op = "WakeupAllWaitingThreads" =>
            \A j \in (i + d) + 1 .. Len(r) : r[j].op # "WakeupAllWaitingThreads"
       /\ s[i].op \in {"ReleaseThreadMutexes", "TerminateProcessThreads"} =>
            \A j \in (i + d) + 1 .. Len(r) : r[j].op = "TerminateProcessThreads"
  BY <1>3, <1>6 DEF ShapeAt
<1>12. QED BY <1>3, <1>7, <1>9, <1>10, <1>11 DEF ShapeAt

LEMMA ShapeSmall ==
  /\ Shape(<<>>)
  /\ \A c \in Call : c.op \notin {"RearmTimer"} => Shape(<<c>>)
  /\ \A o : Shape(<<Wakeup(o), Rearm(o)>>)
<1>1. Shape(<<>>)
  BY DEF Shape
<1>2. ASSUME NEW c \in Call PROVE Shape(<<c>>)
  <2> DEFINE s == <<c>>
  <2>1. Len(s) = 1 /\ \A i \in 1 .. Len(s) : i = 1
    OBVIOUS
  <2> HIDE DEF s
  <2>2. QED BY <2>1 DEF Shape, ShapeAt, s
<1>3. ASSUME NEW o PROVE Shape(<<Wakeup(o), Rearm(o)>>)
  <2> DEFINE s == <<Wakeup(o), Rearm(o)>>
  <2>1. /\ Len(s) = 2 /\ s[1].op = "WakeupAllWaitingThreads" /\ s[2].op = "RearmTimer"
        /\ \A i \in 1 .. Len(s) : i \in {1, 2}
    BY CallOps
  <2> HIDE DEF s
  <2>2. ShapeAt(s, 1)
    <3>1. \A j \in 1 + 1 .. Len(s) : j = 2
      BY <2>1
    <3>2. QED BY <2>1, <3>1 DEF ShapeAt
  <2>3. ShapeAt(s, 2)
    BY <2>1 DEF ShapeAt
  <2>4. QED BY <2>1, <2>2, <2>3 DEF Shape, s
<1>4. QED BY <1>1, <1>2, <1>3

\* The calls of a wakeup.
LEMMA ShapeWaking ==
  ASSUME NEW s \in Seq(Call), Shape(s), NEW t \in Thread,
         s # <<>> => s[1].op = "WakeupAllWaitingThreads"
  PROVE  Shape(WakingCalls(t) \o s)
<1> DEFINE a == WakingCalls(t)
           r == a \o s
<1>1. a \in Seq(Call) /\ Len(a) = 2 /\ a[1] = Leave(t) /\ a[2] = Resume(t)
  BY MadeSequences DEF WakingCalls
<1> HIDE DEF a
<1>2. /\ r \in Seq(Call) /\ Above(r, s, 2) /\ Len(s) \in Nat
      /\ \A i \in 1 .. 2 : r[i] = a[i]
  <2>1. /\ r \in Seq(Call) /\ Above(r, s, Len(a))
        /\ \A i \in 1 .. Len(a) : r[i] = a[i]
    BY <1>1, ConcatPlaces, Zenon
  <2> HIDE DEF r
  <2>2. QED BY <1>1, <2>1
<1> HIDE DEF r
<1>3. \A i \in 1 .. Len(s) : ShapeAt(r, i + 2)
  BY <1>2, ShapeBelow
<1>4. r[1] = Leave(t) /\ r[2] = Resume(t) /\ Len(r) = Len(s) + 2
  BY <1>1, <1>2 DEF Above
<1>5. ShapeAt(r, 1)
  BY <1>4, CallOps DEF ShapeAt
<1>6. ShapeAt(r, 2)
  BY <1>4, CallOps DEF ShapeAt
<1>7. ASSUME NEW i \in 1 .. Len(r) PROVE ShapeAt(r, i)
  <2>1. i = 1 \/ i = 2 \/ (i - 2 \in 1 .. Len(s) /\ (i - 2) + 2 = i)
    BY <1>2, <1>4
  <2>2. QED BY <1>3, <1>5, <1>6, <2>1
<1>8. QED BY <1>7 DEF Shape, r, a

\* The wakeup of a mutex that ReleaseThreadMutexes gives back.
LEMMA ShapeWakeup ==
  ASSUME NEW s \in Seq(Call), Shape(s), NEW o \in WaitObject,
         s # <<>> => s[1].op = "ReleaseThreadMutexes"
  PROVE  Shape(<<Wakeup(o)>> \o s)
<1> DEFINE a == <<Wakeup(o)>>
           r == a \o s
<1>1. a \in Seq(Call) /\ Len(a) = 1 /\ a[1] = Wakeup(o)
  BY MadeCalls
<1> HIDE DEF a
<1>2. /\ r \in Seq(Call) /\ Above(r, s, 1) /\ Len(s) \in Nat
      /\ \A i \in 1 .. 1 : r[i] = a[i]
  <2>1. /\ r \in Seq(Call) /\ Above(r, s, Len(a))
        /\ \A i \in 1 .. Len(a) : r[i] = a[i]
    BY <1>1, ConcatPlaces, Zenon
  <2> HIDE DEF r
  <2>2. QED BY <1>1, <2>1
<1> HIDE DEF r
<1>3. \A i \in 1 .. Len(s) : ShapeAt(r, i + 1)
  BY <1>2, ShapeBelow
<1>4. r[1] = Wakeup(o) /\ Len(r) = Len(s) + 1
  BY <1>1, <1>2 DEF Above
<1>5. ASSUME NEW j \in 1 + 1 .. Len(r) PROVE r[j].op # "WakeupAllWaitingThreads"
  <2>1. j - 1 \in 1 .. Len(s) /\ r[j] = s[j - 1]
    <3>1. j - 1 \in 1 .. Len(s) /\ (j - 1) + 1 = j
      BY <1>2, <1>4
    <3>2. QED BY <1>2, <3>1 DEF Above
  <2>2. s # <<>> /\ 1 \in 1 .. Len(s)
    BY <2>1
  <2>3. ShapeAt(s, 1) /\ s[1].op = "ReleaseThreadMutexes"
    BY <2>2 DEF Shape
  <2>4. j - 1 = 1 \/ j - 1 \in 1 + 1 .. Len(s)
    BY <2>1
  <2>5. QED BY <2>1, <2>3, <2>4 DEF ShapeAt
<1>6. ShapeAt(r, 1)
  BY <1>4, <1>5, CallOps DEF ShapeAt
<1>7. ASSUME NEW i \in 1 .. Len(r) PROVE ShapeAt(r, i)
  <2>1. i = 1 \/ (i - 1 \in 1 .. Len(s) /\ (i - 1) + 1 = i)
    BY <1>2, <1>4
  <2>2. QED BY <1>3, <1>6, <2>1
<1>8. QED BY <1>7 DEF Shape, r, a

\* The calls of Thread::Stop.
LEMMA ShapeStopping ==
  ASSUME NEW s \in Seq(Call), NEW t \in Thread,
         \A i \in 1 .. Len(s) : s[i].op = "TerminateProcessThreads"
  PROVE  Shape(StoppingCalls(t) \o s)
<1> DEFINE a == StoppingCalls(t)
           r == a \o s
<1>1. /\ a \in Seq(Call) /\ Len(a) = 3
      /\ a[1] = Wakeup(t) /\ a[2] = Leave(t) /\ a[3] = ReleaseMutexes(t)
  BY MadeSequences DEF StoppingCalls
<1> HIDE DEF a
<1>2. /\ r \in Seq(Call) /\ Above(r, s, 3) /\ Len(s) \in Nat
      /\ \A i \in 1 .. 3 : r[i] = a[i]
  <2>1. /\ r \in Seq(Call) /\ Above(r, s, Len(a))
        /\ \A i \in 1 .. Len(a) : r[i] = a[i]
    BY <1>1, ConcatPlaces, Zenon
  <2> HIDE DEF r
  <2>2. QED BY <1>1, <2>1
<1> HIDE DEF r
<1>3. /\ r[1] = Wakeup(t) /\ r[2] = Leave(t) /\ r[3] = ReleaseMutexes(t)
      /\ Len(r) = Len(s) + 3 /\ \A i \in 1 .. Len(s) : r[i + 3] = s[i]
  BY <1>1, <1>2 DEF Above
<1>4. ASSUME NEW j \in 4 .. Len(r) PROVE r[j].op = "TerminateProcessThreads"
  <2>1. j - 3 \in 1 .. Len(s) /\ (j - 3) + 3 = j
    BY <1>2, <1>3
  <2>2. QED BY <1>3, <2>1
<1>5. ASSUME NEW i \in 1 .. Len(r) PROVE ShapeAt(r, i)
  <2>1. i \in {1, 2, 3} \/ i \in 4 .. Len(r)
    BY <1>2, <1>3
  <2>2. CASE i = 1
    <3>1. \A j \in i + 1 .. Len(r) : j = 2 \/ j = 3 \/ j \in 4 .. Len(r)
      BY <1>2, <1>3, <2>2
    <3>2. \A j \in i + 1 .. Len(r) : r[j].op # "WakeupAllWaitingThreads"
      BY <1>3, <1>4, <3>1, CallOps
    <3>3. r[i].op = "WakeupAllWaitingThreads"
      BY <1>3, <2>2, CallOps
    <3>4. QED BY <3>2, <3>3 DEF ShapeAt
  <2>3. CASE i = 2
    <3>1. r[i] = Leave(t) /\ r[i - 1] = Wakeup(t) /\ r[i + 1] = ReleaseMutexes(t) /\ i < Len(r)
      BY <1>2, <1>3, <2>3
    <3>2. QED BY <3>1, CallOps DEF ShapeAt
  <2>4. CASE i = 3
    <3>1. r[i].op = "ReleaseThreadMutexes"
      BY <1>3, <2>4, CallOps
    <3>2. \A j \in i + 1 .. Len(r) : j \in 4 .. Len(r)
      BY <2>4
    <3>3. QED BY <1>4, <3>1, <3>2 DEF ShapeAt
  <2>5. CASE i \in 4 .. Len(r)
    <3>1. \A j \in i + 1 .. Len(r) : j \in 4 .. Len(r)
      BY <2>5
    <3>2. QED BY <1>4, <2>5, <3>1 DEF ShapeAt
  <2>6. QED BY <2>1, <2>2, <2>3, <2>4, <2>5
<1>6. QED BY <1>5 DEF Shape, r, a

\* The calls of SVC::TerminateProcess.
LEMMA TerminateCalls ==
  ASSUME NEW p \in Process, NEW s, s = [i \in 1 .. NumCores |-> Terminate(p, i - 1)]
  PROVE  /\ s \in Seq(Call) /\ Len(s) = NumCores
         /\ \A i \in 1 .. Len(s) : /\ s[i].op = "TerminateProcessThreads"
                                   /\ s[i].process = p
<1>1. NumCores \in Nat
  BY ConstantAssumption
<1>2. \A i \in 1 .. NumCores : Terminate(p, i - 1) \in Call
  BY <1>1, MadeCalls DEF Core
<1>3. s \in Seq(Call) /\ Len(s) = NumCores
  BY <1>1, <1>2
<1>4. \A i \in 1 .. NumCores : s[i] = Terminate(p, i - 1)
  OBVIOUS
<1>5. ASSUME NEW i \in 1 .. Len(s)
      PROVE  s[i].op = "TerminateProcessThreads" /\ s[i].process = p
  <2>1. s[i] = Terminate(p, i - 1)
    BY <1>3, <1>4
  <2>2. QED BY <2>1 DEF Terminate
<1>6. QED BY <1>3, <1>5

LEMMA TopPlace ==
  ASSUME TypeOK, NEW op, Calling(op)
  PROVE  /\ calls # <<>> /\ calls \in Seq(Call) /\ Top = calls[1] /\ Top \in Call /\ Top.op = op
         /\ Tail(calls) \in Seq(Call) /\ 1 \in 1 .. Len(calls)
<1>1. calls # <<>> /\ calls \in Seq(Call)
  BY DEF Calling, TypeOK
<1>2. Top \in Call /\ Top.op = op /\ Tail(calls) \in Seq(Call)
  BY <1>1, TopCall
<1>3. QED BY <1>1, <1>2, TailPlaces DEF Top

\* What one turn of the wakeup loop does, in terms of the woken thread.
LEMMA WakeupOneStep ==
  ASSUME TypeOK, WakeupOne
  PROVE  /\ Calling("WakeupAllWaitingThreads") /\ Top.obj \in WaitObject
         /\ \E t \in Thread, objs \in Seq(WaitObject) :
              /\ t \in ToSet(waiting_threads[Top.obj]) /\ CanAcquire(t, Top.obj)
              /\ \A u \in ToSet(waiting_threads[Top.obj]) :
                   CanAcquire(u, Top.obj) => current_priority[t] <= current_priority[u]
              /\ objs = IF status[t] = "WaitSynchAll" THEN wait_objects[t] ELSE <<Top.obj>>
              /\ Acquire(objs, t) /\ result' = [result EXCEPT ![t] = "Success"]
              /\ calls' = WakingCalls(t) \o calls
         /\ UNCHANGED <<status, nominal_priority, wait_objects, waiting_threads, wakeups,
                        current_thread, timer_events, interval, process_status, loop_vars>>
<1>1. Calling("WakeupAllWaitingThreads")
      /\ UNCHANGED <<status, nominal_priority, wait_objects, waiting_threads, wakeups,
                     current_thread, timer_events, interval, process_status, loop_vars>>
  BY DEF WakeupOne
<1>2. Top.obj \in WaitObject
  BY <1>1, TopPlace, CallFields
<1>3. PICK i \in DOMAIN waiting_threads[Top.obj] :
        LET t == waiting_threads[Top.obj][i]
        IN  /\ IsHighestPriority(Top.obj, i)
            /\ Acquire(IF status[t] = "WaitSynchAll" THEN wait_objects[t] ELSE <<Top.obj>>, t)
            /\ result' = [result EXCEPT ![t] = "Success"]
            /\ calls' = WakingCalls(t) \o calls
  BY Zenon DEF WakeupOne
<1> DEFINE t == waiting_threads[Top.obj][i]
           objs == IF status[t] = "WaitSynchAll" THEN wait_objects[t] ELSE <<Top.obj>>
<1>4. t \in Thread /\ t \in ToSet(waiting_threads[Top.obj])
  BY <1>2 DEF TypeOK, ToSet
<1>5. objs \in Seq(WaitObject)
  BY <1>2, <1>4 DEF TypeOK
<1>6. CanAcquire(t, Top.obj)
  BY <1>3 DEF IsHighestPriority, ReadyIndices
<1>7. Acquire(objs, t) /\ result' = [result EXCEPT ![t] = "Success"]
      /\ calls' = WakingCalls(t) \o calls
  BY <1>3
<1>8. ASSUME NEW u \in ToSet(waiting_threads[Top.obj]), CanAcquire(u, Top.obj)
      PROVE  current_priority[t] <= current_priority[u]
  <2>1. PICK j \in DOMAIN waiting_threads[Top.obj] : u = waiting_threads[Top.obj][j]
    BY DEF ToSet
  <2>2. j \in ReadyIndices(Top.obj)
    BY <1>8, <2>1 DEF ReadyIndices
  <2>3. \/ current_priority[t] < current_priority[u]
        \/ current_priority[t] = current_priority[u]
    BY <1>3, <2>1, <2>2 DEF IsHighestPriority
  <2>4. u \in Thread
    BY <1>2, <2>1 DEF TypeOK
  <2>5. current_priority[t] \in Int /\ current_priority[u] \in Int
    BY <1>4, <2>4 DEF TypeOK, Priority
  <2>6. QED BY ONLY <2>3, <2>5
<1>9. objs = IF status[t] = "WaitSynchAll" THEN wait_objects[t] ELSE <<Top.obj>>
  OBVIOUS
<1> HIDE DEF t, objs
<1>10. QED BY <1>1, <1>2, <1>4, <1>5, <1>6, <1>7, <1>8, <1>9

\* What AddWaitingThread does for the next object of the list.
LEMMA AddWaitingThreadStep ==
  ASSUME TypeOK, Shape(calls), AddWaitingThread,
         NEW t, t = Top.thread, NEW o, o = Head(Top.objs), NEW rest, rest = Tail(Top.objs)
  PROVE  /\ Calling("AddWaitingThread") /\ t \in Thread /\ o \in WaitObject
         /\ Top.objs \in Seq(WaitObject) /\ Top.objs # <<>> /\ rest \in Seq(WaitObject)
         /\ wait_objects' = [wait_objects EXCEPT ![t] = Append(@, o)]
         /\ waiting_threads' = [waiting_threads EXCEPT ![o] =
              IF t \in ToSet(waiting_threads[o]) THEN waiting_threads[o]
              ELSE Append(waiting_threads[o], t)]
         /\ Len(calls) = 1
         /\ calls' = IF rest = <<>> THEN <<>> ELSE <<Enter(t, rest)>>
         /\ UNCHANGED <<status, nominal_priority, result, wakeups, current_thread, timer_vars,
                        available_count, lock_count, holding_thread, process_status, loop_vars,
                        halt_vars>>
<1>1. /\ Calling("AddWaitingThread")
      /\ UNCHANGED <<status, nominal_priority, result, wakeups, current_thread, timer_vars,
                     available_count, lock_count, holding_thread, process_status, loop_vars,
                     halt_vars>>
  BY DEF AddWaitingThread
<1>2. t \in Thread /\ Top.objs \in Seq(WaitObject) /\ Top.objs # <<>>
  BY <1>1, TopPlace, CallFields
<1>3. o \in WaitObject /\ rest \in Seq(WaitObject)
      /\ (Len(Top.objs) = 1 <=> rest = <<>>)
  <2>1. /\ Tail(Top.objs) \in Seq(WaitObject) /\ Head(Top.objs) \in WaitObject
        /\ Len(Tail(Top.objs)) = Len(Top.objs) - 1 /\ Len(Top.objs) \in Nat \ {0}
    BY <1>2, HeadTailProperties, EmptySeq
  <2>2. rest \in Seq(WaitObject) /\ Len(rest) = Len(Top.objs) - 1
    BY <2>1
  <2>3. rest = <<>> <=> Len(rest) = 0
    BY <2>2, EmptySeq
  <2>4. QED BY <2>1, <2>2, <2>3
<1>4. Len(calls) = 1
  <2>1. ShapeAt(calls, 1) /\ calls[1].op = "AddWaitingThread"
    BY <1>1, TopPlace DEF Shape
  <2>2. QED BY <2>1 DEF ShapeAt
<1>5. Tail(calls) = <<>>
  <2>1. Len(Tail(calls)) = 0 /\ Tail(calls) \in Seq(Call)
    BY <1>1, <1>4, TopPlace, TailPlaces
  <2>2. QED BY <2>1, EmptySeq
<1>6. /\ wait_objects' = [wait_objects EXCEPT ![t] = Append(@, o)]
      /\ waiting_threads' = [waiting_threads EXCEPT ![o] =
           IF t \in ToSet(waiting_threads[o]) THEN waiting_threads[o]
           ELSE Append(waiting_threads[o], t)]
      /\ calls' = (IF Len(Top.objs) = 1 THEN <<>> ELSE <<Enter(t, rest)>>) \o Tail(calls)
  BY Zenon DEF AddWaitingThread, Return
<1>7. calls' = IF rest = <<>> THEN <<>> ELSE <<Enter(t, rest)>>
  <2> DEFINE more == IF Len(Top.objs) = 1 THEN <<>> ELSE <<Enter(t, rest)>>
  <2>1. more \in Seq(Call)
    <3>1. CASE rest = <<>>
      BY <1>3, <3>1
    <3>2. CASE rest # <<>>
      <4>1. Enter(t, rest) \in Call
        BY <1>2, <1>3, <3>2, MadeCalls
      <4>2. QED BY <1>3, <3>2, <4>1
    <3>3. QED BY <3>1, <3>2
  <2>2. calls' = more \o <<>>
    BY <1>5, <1>6
  <2>3. more = IF rest = <<>> THEN <<>> ELSE <<Enter(t, rest)>>
    BY <1>3
  <2> HIDE DEF more
  <2>4. more \o <<>> = more
    BY <2>1, ConcatEmptySeq
  <2>5. QED BY <2>2, <2>3, <2>4
<1>8. QED BY <1>1, <1>2, <1>3, <1>4, <1>6, <1>7

LEMMA ReturnPops ==
  ASSUME TypeOK, NEW op, Calling(op), Return(<<>>)
  PROVE  calls' = Tail(calls)
<1>1. Tail(calls) \in Seq(Call) /\ calls' = <<>> \o Tail(calls)
  BY TopPlace DEF Return
<1>2. <<>> \o Tail(calls) = Tail(calls)
  BY <1>1, ConcatEmptySeq
<1>3. QED BY <1>1, <1>2

\* What UpdatePendingMutexes does to the stack.
LEMMA UpdatePendingCalls ==
  ASSUME TypeOK, Shape(calls), UpdatePendingMutexes
  PROVE  calls' = <<>> \/ \E ms \in SUBSET Mutex : calls' = <<UpdatePending(ms)>>
<1>1. Calling("UpdatePending")
  BY DEF UpdatePendingMutexes
<1>2. Top.mutexes \in SUBSET Mutex
  BY <1>1, TopPlace, CallFields
<1>3. Tail(calls) = <<>>
  <2>1. ShapeAt(calls, 1) /\ calls[1].op = "UpdatePending"
    BY <1>1, TopPlace DEF Shape
  <2>2. Len(calls) = 1
    BY <2>1 DEF ShapeAt
  <2>3. Len(Tail(calls)) = 0 /\ Tail(calls) \in Seq(Call)
    BY <1>1, <2>2, TopPlace, TailPlaces
  <2>4. QED BY <2>3, EmptySeq
<1>4. CASE Return(<<>>)
  BY <1>1, <1>3, <1>4, ReturnPops
<1>5. ASSUME NEW m, Return(<<UpdatePending(Top.mutexes \ {m})>>)
      PROVE  \E ms \in SUBSET Mutex : calls' = <<UpdatePending(ms)>>
  <2> DEFINE ms == Top.mutexes \ {m}
             more == <<UpdatePending(ms)>>
  <2>1. ms \in SUBSET Mutex
    BY <1>2
  <2>2. more \in Seq(Call) /\ calls' = more \o <<>>
    <3>1. UpdatePending(ms) \in Call
      BY <2>1, MadeCalls
    <3> HIDE DEF ms
    <3>2. more \in Seq(Call)
      BY <3>1
    <3>3. QED BY <1>3, <1>5, <3>2 DEF Return, ms
  <2> HIDE DEF more
  <2>3. calls' = more
    BY <2>2, ConcatEmptySeq
  <2>4. calls' = <<UpdatePending(ms)>>
    BY <2>3 DEF more
  <2> HIDE DEF ms
  <2>5. QED BY <2>1, <2>4
<1>6. QED BY <1>4, <1>5 DEF UpdatePendingMutexes

\* When TerminateProcessThreads is on top, only its own kind is below it.
LEMMA TerminateStack ==
  ASSUME TypeOK, Shape(calls), Calling("TerminateProcessThreads")
  PROVE  /\ \A i \in 1 .. Len(calls) : calls[i].op = "TerminateProcessThreads"
         /\ \A i \in 1 .. Len(Tail(calls)) : Tail(calls)[i].op = "TerminateProcessThreads"
<1>1. /\ calls # <<>> /\ calls \in Seq(Call) /\ ShapeAt(calls, 1)
      /\ calls[1].op = "TerminateProcessThreads"
  BY TopPlace DEF Shape
<1>2. /\ Len(Tail(calls)) = Len(calls) - 1 /\ Len(calls) \in Nat
      /\ \A i \in 1 .. Len(calls) - 1 : Tail(calls)[i] = calls[i + 1]
  BY <1>1, TailPlaces
<1>3. ASSUME NEW i \in 1 .. Len(calls) PROVE calls[i].op = "TerminateProcessThreads"
  <2>1. i = 1 \/ i \in 1 + 1 .. Len(calls)
    BY <1>2
  <2>2. QED BY <1>1, <2>1 DEF ShapeAt
<1>4. ASSUME NEW i \in 1 .. Len(Tail(calls)) PROVE Tail(calls)[i].op = "TerminateProcessThreads"
  <2>1. i \in 1 .. Len(calls) - 1 /\ i + 1 \in 1 .. Len(calls)
    BY <1>2
  <2>2. QED BY <1>2, <1>3, <2>1
<1>5. QED BY <1>3, <1>4

\* What Thread::Stop leaves to be done when the stack below is empty or terminates
\* threads.
LEMMA StopShape ==
  ASSUME NEW t \in Thread, NEW more \in Seq(Call), Stop(t, more),
         \A i \in 1 .. Len(more) : more[i].op = "TerminateProcessThreads"
  PROVE  Shape(calls')
<1>1. calls' = StoppingCalls(t) \o more
  BY DEF Stop
<1>2. QED BY <1>1, ShapeStopping

LEMMA KernelCallShape ==
  ASSUME TypeOK, Shape(calls), KernelCall
  PROVE  Shape(calls')
<1>0. ASSUME NEW op, Calling(op), Return(<<>>) PROVE Shape(calls')
  <2>1. calls' = Tail(calls) /\ calls # <<>> /\ calls \in Seq(Call)
    BY <1>0, ReturnPops, TopPlace
  <2>2. QED BY <2>1, ShapePop
<1>1. CASE WakeupOne
  <2>1. PICK t \in Thread : calls' = WakingCalls(t) \o calls
    BY <1>1, WakeupOneStep
  <2>2. calls \in Seq(Call) /\ calls[1].op = "WakeupAllWaitingThreads"
    <3>1. Calling("WakeupAllWaitingThreads")
      BY <1>1, WakeupOneStep
    <3>2. QED BY <3>1, TopPlace
  <2>3. QED BY <2>1, <2>2, ShapeWaking
<1>2. CASE WakeupDone
  BY <1>0, <1>2, Zenon DEF WakeupDone
<1>3. CASE AddWaitingThread
  <2> DEFINE t == Top.thread
             rest == Tail(Top.objs)
  <2>1. /\ calls' = IF rest = <<>> THEN <<>> ELSE <<Enter(t, rest)>>
        /\ t \in Thread /\ rest \in Seq(WaitObject)
    BY <1>3, AddWaitingThreadStep
  <2> HIDE DEF t, rest
  <2>2. CASE rest = <<>>
    BY <2>1, <2>2, ShapeSmall
  <2>3. CASE rest # <<>>
    <3>1. Enter(t, rest) \in Call /\ Enter(t, rest).op = "AddWaitingThread"
      BY <2>1, <2>3, MadeCalls, CallOps
    <3>2. QED BY <2>1, <2>3, <3>1, ShapeSmall
  <2>4. QED BY <2>2, <2>3
<1>4. CASE RemoveWaitingThread
  <2>1. CASE UNCHANGED calls
    BY <2>1
  <2>2. CASE Return(<<>>)
    BY <1>0, <1>4, <2>2, Zenon DEF RemoveWaitingThread
  <2>3. QED BY <1>4, <2>1, <2>2 DEF RemoveWaitingThread
<1>5. CASE ResumeFromWait
  BY <1>0, <1>5, Zenon DEF ResumeFromWait
<1>6. CASE ReleaseThreadMutexes
  <2>1. CASE Return(<<>>)
    BY <1>0, <1>6, <2>1, Zenon DEF ReleaseThreadMutexes
  <2>2. ASSUME NEW m \in HeldMutexes(Top.thread), calls' = <<Wakeup(m)>> \o calls
        PROVE  Shape(calls')
    <3>1. m \in WaitObject
      BY DEF HeldMutexes, WaitObject
    <3>2. calls \in Seq(Call) /\ calls[1].op = "ReleaseThreadMutexes"
      BY <1>6, TopPlace DEF ReleaseThreadMutexes
    <3>3. QED BY <2>2, <3>1, <3>2, ShapeWakeup
  <2>3. QED BY <1>6, <2>1, <2>2 DEF ReleaseThreadMutexes
<1>7. CASE RearmTimer
  BY <1>0, <1>7, Zenon DEF RearmTimer
<1>8. CASE UpdatePendingMutexes
  <2>1. CASE calls' = <<>>
    BY <2>1, ShapeSmall
  <2>2. ASSUME NEW ms \in SUBSET Mutex, calls' = <<UpdatePending(ms)>> PROVE Shape(calls')
    <3>1. UpdatePending(ms) \in Call /\ UpdatePending(ms).op = "UpdatePending"
      BY MadeCalls, CallOps
    <3>2. QED BY <2>2, <3>1, ShapeSmall
  <2>3. QED BY <1>8, <2>1, <2>2, UpdatePendingCalls
<1>9. CASE TerminateProcessThreads
  <2> DEFINE cur == current_thread[Top.core]
  <2>1. Calling("TerminateProcessThreads") /\ calls \in Seq(Call)
    BY <1>9 DEF TerminateProcessThreads, TypeOK
  <2>2. cur \in Thread \cup {NoThread} /\ Tail(calls) \in Seq(Call)
    BY <2>1, TopPlace, CallFields DEF TypeOK
  <2>3. ASSUME NEW t \in Thread, Stop(t, calls) PROVE Shape(calls')
    BY <2>1, <2>3, TerminateStack, StopShape
  <2>4. CASE cur # NoThread /\ Stop(cur, Tail(calls))
    BY <2>1, <2>2, <2>4, TerminateStack, StopShape
  <2>5. CASE Return(<<>>)
    BY <1>0, <2>1, <2>5, Zenon
  <2>6. QED BY <1>9, <2>3, <2>4, <2>5 DEF TerminateProcessThreads
<1>10. QED
  BY <1>1, <1>2, <1>3, <1>4, <1>5, <1>6, <1>7, <1>8, <1>9 DEF KernelCall

LEMMA SystemCallShape ==
  ASSUME TypeOK, NEW t \in Thread, SystemCall(t)
  PROVE  calls = <<>> /\ Shape(calls')
<1>0. ASSUME NEW o \in WaitObject, calls' = <<Wakeup(o)>> PROVE Shape(calls')
  <2>1. Wakeup(o) \in Call /\ Wakeup(o).op = "WakeupAllWaitingThreads"
    BY MadeCalls, CallOps
  <2>2. QED BY <1>0, <2>1, ShapeSmall
<1>1. ASSUME NEW objs \in WaitLists[t], NEW wait_all \in BOOLEAN, NEW timeout \in Timeouts,
             WaitSynchronization(t, objs, wait_all, timeout)
      PROVE  calls = <<>> /\ Shape(calls')
  <2>1. calls = <<>> /\ objs \in Seq(WaitObject)
    BY <1>1, ConstantAssumption DEF WaitSynchronization, Guest
  <2>2. calls' = calls \/ calls' = IF objs = <<>> THEN <<>> ELSE <<Enter(t, objs)>>
    BY <1>1 DEF WaitSynchronization
  <2>3. CASE calls' = <<>>
    BY <2>1, <2>3, ShapeSmall
  <2>4. CASE objs # <<>> /\ calls' = <<Enter(t, objs)>>
    <3>1. Enter(t, objs) \in Call /\ Enter(t, objs).op = "AddWaitingThread"
      BY <2>1, <2>4, MadeCalls, CallOps
    <3>2. QED BY <2>1, <2>4, <3>1, ShapeSmall
  <2>5. QED BY <2>1, <2>2, <2>3, <2>4
<1>2. ASSUME calls = <<>>, UNCHANGED calls PROVE Shape(calls')
  BY <1>2, ShapeSmall
<1>3. ASSUME NEW timeout, SleepThread(t, timeout) PROVE calls = <<>> /\ Shape(calls')
  BY <1>2, <1>3 DEF SleepThread, Guest
<1>4. ASSUME NEW o, Clear(t, o) PROVE calls = <<>> /\ Shape(calls')
  BY <1>2, <1>4 DEF Clear, Guest
<1>5. ASSUME NEW o \in Timer, NEW delayed, NEW periodic, SetTimer(t, o, delayed, periodic)
      PROVE  calls = <<>> /\ Shape(calls')
  BY <1>5, ShapeSmall DEF SetTimer, Guest
<1>6. ASSUME NEW o \in Timer, CancelTimer(t, o) PROVE calls = <<>> /\ Shape(calls')
  BY <1>2, <1>6 DEF CancelTimer, Guest
<1>7. ASSUME NEW s \in Semaphore, NEW n, ReleaseSemaphore(t, s, n)
      PROVE  calls = <<>> /\ Shape(calls')
  BY <1>0, <1>7 DEF ReleaseSemaphore, Guest, WaitObject
<1>8. ASSUME NEW m \in Mutex, ReleaseMutex(t, m) PROVE calls = <<>> /\ Shape(calls')
  <2>1. calls = <<>> /\ m \in WaitObject
    BY <1>8 DEF ReleaseMutex, Guest, WaitObject
  <2>2. UNCHANGED calls \/ calls' = <<Wakeup(m)>>
    BY <1>8 DEF ReleaseMutex
  <2>3. QED BY <1>0, <1>2, <2>1, <2>2
<1>9. ASSUME NEW u \in Thread, NEW p, SetThreadPriority(t, u, p)
      PROVE  calls = <<>> /\ Shape(calls')
  <2> DEFINE ms == Mutex \cap ToSet(wait_objects[u])
  <2>1. calls = <<>> /\ calls' = <<UpdatePending(ms)>>
    BY <1>9 DEF SetThreadPriority, Guest
  <2>2. ms \in SUBSET Mutex
    OBVIOUS
  <2> HIDE DEF ms
  <2>3. UpdatePending(ms) \in Call /\ UpdatePending(ms).op = "UpdatePending"
    BY <2>2, MadeCalls, CallOps
  <2>4. QED BY <2>1, <2>3, ShapeSmall
<1>10. ASSUME NEW u \in Thread, NEW p, CreateThread(t, u, p) PROVE calls = <<>> /\ Shape(calls')
  BY <1>2, <1>10 DEF CreateThread, Guest
<1>11. ASSUME ExitThread(t) PROVE calls = <<>> /\ Shape(calls')
  <2>1. calls = <<>> /\ Stop(t, <<>>)
    BY <1>11 DEF ExitThread, Guest
  <2>2. <<>> \in Seq(Call) /\ \A i \in 1 .. Len(<<>>) : <<>>[i].op = "TerminateProcessThreads"
    OBVIOUS
  <2>3. QED BY <2>1, <2>2, StopShape, Zenon
<1>12. ASSUME NEW p \in Kills[OwnerOf[t]], TerminateProcess(t, p)
       PROVE  calls = <<>> /\ Shape(calls')
  <2>1. calls = <<>> /\ calls' = [i \in 1 .. NumCores |-> Terminate(p, i - 1)]
    BY <1>12 DEF TerminateProcess, Guest
  <2>2. p \in Process
    BY ConstantAssumption
  <2>3. \A i \in 1 .. Len(calls') : calls'[i].op = "TerminateProcessThreads"
    BY <2>1, <2>2, TerminateCalls
  <2>4. ASSUME NEW i \in 1 .. Len(calls') PROVE ShapeAt(calls', i)
    <3>1. \A j \in i + 1 .. Len(calls') : calls'[j].op = "TerminateProcessThreads"
      <4>1. \A j \in i + 1 .. Len(calls') : j \in 1 .. Len(calls')
        OBVIOUS
      <4>2. QED BY <2>3, <4>1
    <3>2. QED BY <2>3, <3>1 DEF ShapeAt
  <2>5. QED BY <2>1, <2>4 DEF Shape
<1>13. QED
  BY <1>1, <1>3, <1>4, <1>5, <1>6, <1>7, <1>8, <1>9, <1>10, <1>11, <1>12 DEF SystemCall

LEMMA NextShape == TypeOK /\ Shape(calls) /\ [Next]_vars => Shape(calls)'
<1> SUFFICES ASSUME TypeOK, Shape(calls), [Next]_vars PROVE Shape(calls')
  OBVIOUS
<1>1. ASSUME NEW t \in Thread, ThreadWakeupCallback(t) PROVE Shape(calls')
  <2>1. calls' = WakingCalls(t) \/ calls' = <<Resume(t)>>
    BY <1>1 DEF ThreadWakeupCallback
  <2>2. Resume(t) \in Call /\ Resume(t).op = "ResumeFromWait"
    BY MadeCalls, CallOps
  <2>3. Shape(WakingCalls(t))
    <3>1. WakingCalls(t) \in Seq(Call) /\ <<>> \in Seq(Call) /\ Shape(<<>>)
      BY MadeSequences, ShapeSmall
    <3>2. Shape(WakingCalls(t) \o <<>>)
      BY <3>1, ShapeWaking, Zenon
    <3>3. QED BY <3>1, <3>2, ConcatEmptySeq
  <2>4. QED BY <2>1, <2>2, <2>3, ShapeSmall
<1>2. ASSUME NEW e \in Event, SignalEvent(e) PROVE Shape(calls')
  <2>1. Wakeup(e) \in Call /\ Wakeup(e).op = "WakeupAllWaitingThreads"
    BY MadeCalls, CallOps DEF WaitObject
  <2>2. QED BY <1>2, <2>1, ShapeSmall DEF SignalEvent
<1>3. ASSUME NEW o \in Timer, TimerCallback(o) PROVE Shape(calls')
  BY <1>3, ShapeSmall DEF TimerCallback
<1>4. CASE EndAdvance
  BY <1>4 DEF EndAdvance
<1>5. CASE EndSlice
  BY <1>5 DEF EndSlice
<1>6. CASE UNCHANGED vars
  BY <1>6 DEF vars
<1>7. QED
  BY <1>1, <1>2, <1>3, <1>4, <1>5, <1>6, KernelCallShape, SystemCallShape DEF Next

--------------------------------------------------------------------------------
\* Which calls a step adds to the stack and takes from it.

LEMMA SmallSets ==
  /\ \A x : x \notin ToSet(<<>>)
  /\ \A a, x : x \in ToSet(<<a>>) <=> x = a
  /\ \A a, b, x : x \in ToSet(<<a, b>>) <=> x = a \/ x = b
  /\ \A t, x : x \in ToSet(WakingCalls(t)) <=> x = Leave(t) \/ x = Resume(t)
  /\ \A t, x : x \in ToSet(StoppingCalls(t))
                 <=> x = Wakeup(t) \/ x = Leave(t) \/ x = ReleaseMutexes(t)
<1>1. \A x : x \notin ToSet(<<>>)
  BY DEF ToSet
<1>2. ASSUME NEW a, NEW x PROVE x \in ToSet(<<a>>) <=> x = a
  BY DEF ToSet
<1>3. ASSUME NEW a, NEW b, NEW x PROVE x \in ToSet(<<a, b>>) <=> x = a \/ x = b
  <2> DEFINE s == <<a, b>>
  <2>1. DOMAIN s = {1, 2} /\ s[1] = a /\ s[2] = b
    OBVIOUS
  <2> HIDE DEF s
  <2>2. x \in ToSet(s) <=> x = a \/ x = b
    BY <2>1 DEF ToSet
  <2>3. QED BY <2>2 DEF s
<1>4. ASSUME NEW a, NEW b, NEW c, NEW x PROVE x \in ToSet(<<a, b, c>>) <=> x = a \/ x = b \/ x = c
  <2> DEFINE s == <<a, b, c>>
  <2>1. DOMAIN s = {1, 2, 3} /\ s[1] = a /\ s[2] = b /\ s[3] = c
    OBVIOUS
  <2> HIDE DEF s
  <2>2. x \in ToSet(s) <=> x = a \/ x = b \/ x = c
    BY <2>1 DEF ToSet
  <2>3. QED BY <2>2 DEF s
<1>5. \A t, x : x \in ToSet(WakingCalls(t)) <=> x = Leave(t) \/ x = Resume(t)
  BY <1>3, Zenon DEF WakingCalls
<1>6. \A t, x : x \in ToSet(StoppingCalls(t))
                  <=> x = Wakeup(t) \/ x = Leave(t) \/ x = ReleaseMutexes(t)
  BY <1>4, Zenon DEF StoppingCalls
<1>7. QED BY <1>1, <1>2, <1>3, <1>5, <1>6, Zenon

LEMMA PopSet ==
  ASSUME TypeOK, NEW op, Calling(op), Return(<<>>)
  PROVE  /\ Top \in ToSet(calls)
         /\ \A x : x \in ToSet(calls) <=> x = Top \/ x \in ToSet(calls')
<1>1. calls' = Tail(calls) /\ calls # <<>> /\ calls \in Seq(Call)
  BY ReturnPops, TopPlace
<1>2. \A x : x \in ToSet(calls) <=> x = Head(calls) \/ x \in ToSet(Tail(calls))
  BY <1>1, TailPlaces
<1>3. QED BY <1>1, <1>2 DEF Top

LEMMA TopSet ==
  ASSUME TypeOK, NEW op, Calling(op)
  PROVE  /\ Top \in ToSet(calls)
         /\ \A x : x \in ToSet(calls) <=> x = Top \/ x \in ToSet(Tail(calls))
<1>1. calls # <<>> /\ calls \in Seq(Call)
  BY TopPlace
<1>2. QED BY <1>1, TailPlaces DEF Top

LEMMA PushSet ==
  ASSUME NEW more \in Seq(Call), NEW s \in Seq(Call)
  PROVE  \A x : x \in ToSet(more \o s) <=> x \in ToSet(more) \/ x \in ToSet(s)
BY ConcatPlaces, Zenon

\* What Thread::Stop adds.
LEMMA StopSet ==
  ASSUME NEW t \in Thread, NEW more \in Seq(Call), Stop(t, more)
  PROVE  \A x : x \in ToSet(calls') <=>
           x = Wakeup(t) \/ x = Leave(t) \/ x = ReleaseMutexes(t) \/ x \in ToSet(more)
<1>1. calls' = StoppingCalls(t) \o more /\ StoppingCalls(t) \in Seq(Call)
  BY MadeSequences DEF Stop
<1>2. \A x : x \in ToSet(calls') <=> x \in ToSet(StoppingCalls(t)) \/ x \in ToSet(more)
  BY <1>1, PushSet, Zenon
<1>3. QED BY <1>2, SmallSets, Zenon

LEMMA ExitSet ==
  ASSUME NEW t \in Thread, Stop(t, <<>>)
  PROVE  \A x : x \in ToSet(calls') <=> x = Wakeup(t) \/ x = Leave(t) \/ x = ReleaseMutexes(t)
<1>1. <<>> \in Seq(Call)
  OBVIOUS
<1>2. \A x : x \in ToSet(calls') <=>
        x = Wakeup(t) \/ x = Leave(t) \/ x = ReleaseMutexes(t) \/ x \in ToSet(<<>>)
  BY <1>1, StopSet, Zenon
<1>3. QED BY <1>2, SmallSets, Zenon

\* TerminateProcessThreads stops a thread or returns.
StopsOne ==
  \E t \in Thread, more \in {calls, Tail(calls)} :
    /\ Stop(t, more) /\ Halting
    /\ \/ /\ t # current_thread[Top.core] /\ CoreOf[t] = Top.core /\ more = calls
          /\ status[t] # "Unborn"
       \/ /\ t = current_thread[Top.core] /\ OwnerOf[t] = Top.process
          /\ PrepareReschedule

LEMMA TerminateStep ==
  ASSUME TypeOK, TerminateProcessThreads
  PROVE  /\ Calling("TerminateProcessThreads") /\ UNCHANGED process_status
         /\ Top.core \in Core /\ Top.process \in Process
         /\ \/ StopsOne
            \/ /\ Return(<<>>)
               /\ current_thread[Top.core] # NoThread =>
                    OwnerOf[current_thread[Top.core]] # Top.process
               /\ UNCHANGED <<status, priority_vars, wait_vars, wakeups, current_thread,
                              timer_vars, available_count, mutex_vars, loop_vars, halt_vars>>
<1> DEFINE cur == current_thread[Top.core]
<1>1. Calling("TerminateProcessThreads") /\ UNCHANGED process_status
  BY DEF TerminateProcessThreads
<1>2. Top.core \in Core /\ Top.process \in Process
  BY <1>1, TopPlace, CallFields
<1>3. cur \in Thread \cup {NoThread}
  BY <1>2 DEF TypeOK
<1>4. \/ \E t \in Thread : /\ Stop(t, calls) /\ UNCHANGED halt_vars
                           /\ t # cur /\ CoreOf[t] = Top.core /\ status[t] # "Unborn"
      \/ /\ cur # NoThread /\ OwnerOf[cur] = Top.process
         /\ Stop(cur, Tail(calls)) /\ PrepareReschedule
      \/ /\ Return(<<>>) /\ (cur # NoThread => OwnerOf[cur] # Top.process)
         /\ UNCHANGED <<status, priority_vars, wait_vars, wakeups, current_thread,
                        timer_vars, available_count, mutex_vars, loop_vars, halt_vars>>
  BY Zenon DEF TerminateProcessThreads
<1>5. ASSUME NEW t \in Thread, Stop(t, calls), UNCHANGED halt_vars, t # cur,
             CoreOf[t] = Top.core, status[t] # "Unborn"
      PROVE  StopsOne
  BY <1>5, Zenon DEF Halting, StopsOne
<1>6. ASSUME cur # NoThread, OwnerOf[cur] = Top.process, Stop(cur, Tail(calls)),
             PrepareReschedule
      PROVE  StopsOne
  <2>1. cur \in Thread /\ Tail(calls) \in {calls, Tail(calls)}
    BY <1>3, <1>6
  <2>2. QED BY <1>6, <2>1, Zenon DEF Halting, StopsOne
<1>7. QED BY <1>1, <1>2, <1>4, <1>5, <1>6

\* A kernel call makes no RearmTimer and no TerminateProcessThreads; it makes the
\* ReleaseThreadMutexes of a thread that it stops, takes a thread from lists when it
\* wakes or stops it, and continues an AddWaitingThread or an update of mutexes.
NewCall(x) ==
  /\ x.op \notin {"RearmTimer", "TerminateProcessThreads"}
  /\ x.op = "AddWaitingThread" => AddWaitingThread
  /\ x.op = "UpdatePending" => UpdatePendingMutexes
  /\ x.op = "RemoveWaitingThread" => WakeupOne \/ ReleaseMutexes(x.thread) \in ToSet(calls')
  /\ x.op = "ReleaseThreadMutexes" =>
       TerminateProcessThreads /\ status' = [status EXCEPT ![x.thread] = "Dead"]

LEMMA KernelCallNew ==
  ASSUME TypeOK, Shape(calls), KernelCall
  PROVE  \A x \in ToSet(calls') : x \in ToSet(calls) \/ NewCall(x)
<1> USE DEF NewCall
<1> DEFINE Goal == \A x \in ToSet(calls') : x \in ToSet(calls) \/ NewCall(x)
<1>0. ASSUME NEW op, Calling(op), Return(<<>>) PROVE Goal
  BY <1>0, PopSet
<1>1. CASE WakeupOne
  <2>1. PICK t \in Thread : calls' = WakingCalls(t) \o calls
    BY <1>1, WakeupOneStep
  <2>2. WakingCalls(t) \in Seq(Call) /\ calls \in Seq(Call)
    BY MadeSequences DEF TypeOK
  <2>3. \A x : x \in ToSet(calls') <=> x \in ToSet(WakingCalls(t)) \/ x \in ToSet(calls)
    BY <2>1, <2>2, PushSet, Zenon
  <2>4. QED BY <1>1, <2>3, SmallSets, CallOps
<1>2. CASE WakeupDone
  BY <1>0, <1>2, Zenon DEF WakeupDone
<1>3. CASE AddWaitingThread
  <2> DEFINE t == Top.thread
             rest == Tail(Top.objs)
  <2>1. calls' = IF rest = <<>> THEN <<>> ELSE <<Enter(t, rest)>>
    BY <1>3, AddWaitingThreadStep
  <2> HIDE DEF t, rest
  <2>2. \A x \in ToSet(calls') : x = Enter(t, rest)
    BY <2>1, SmallSets
  <2>3. QED BY <1>3, <2>2, CallOps
<1>4. CASE RemoveWaitingThread
  <2>1. CASE UNCHANGED calls
    BY <2>1
  <2>2. CASE Return(<<>>)
    BY <1>0, <1>4, <2>2, Zenon DEF RemoveWaitingThread
  <2>3. QED BY <1>4, <2>1, <2>2 DEF RemoveWaitingThread
<1>5. CASE ResumeFromWait
  BY <1>0, <1>5, Zenon DEF ResumeFromWait
<1>6. CASE ReleaseThreadMutexes
  <2>1. CASE Return(<<>>)
    BY <1>0, <1>6, <2>1, Zenon DEF ReleaseThreadMutexes
  <2>2. ASSUME NEW m \in HeldMutexes(Top.thread), calls' = <<Wakeup(m)>> \o calls
        PROVE  Goal
    <3>1. Wakeup(m) \in Call /\ calls \in Seq(Call)
      BY MadeCalls DEF HeldMutexes, WaitObject, TypeOK
    <3>2. <<Wakeup(m)>> \in Seq(Call)
      BY <3>1
    <3>3. \A x : x \in ToSet(calls') <=> x \in ToSet(<<Wakeup(m)>>) \/ x \in ToSet(calls)
      BY <2>2, <3>1, <3>2, PushSet, Zenon
    <3>4. QED BY <3>3, SmallSets, CallOps
  <2>3. QED BY <1>6, <2>1, <2>2 DEF ReleaseThreadMutexes
<1>7. CASE RearmTimer
  BY <1>0, <1>7, Zenon DEF RearmTimer
<1>8. CASE UpdatePendingMutexes
  <2>1. \A x \in ToSet(calls') : x.op = "UpdatePending"
    BY <1>8, UpdatePendingCalls, SmallSets, CallOps
  <2>2. QED BY <1>8, <2>1
<1>9. CASE TerminateProcessThreads
  <2>1. Calling("TerminateProcessThreads")
    BY <1>9, TerminateStep
  <2>2. ASSUME NEW t \in Thread, NEW more \in {calls, Tail(calls)}, Stop(t, more) PROVE Goal
    <3>1. more \in Seq(Call) /\ \A x : x \in ToSet(more) => x \in ToSet(calls)
      BY <2>1, TopPlace, TopSet
    <3>2. \A x : x \in ToSet(calls') <=>
            x = Wakeup(t) \/ x = Leave(t) \/ x = ReleaseMutexes(t) \/ x \in ToSet(more)
      BY <2>2, <3>1, StopSet, Zenon
    <3>3. status' = [status EXCEPT ![t] = "Dead"]
      BY <2>2 DEF Stop
    <3>4. /\ ReleaseMutexes(t).thread = t /\ Leave(t).thread = t
          /\ ReleaseMutexes(t) \in ToSet(calls')
      BY <3>2, CallOps
    <3>5. NewCall(Wakeup(t)) /\ NewCall(Leave(t)) /\ NewCall(ReleaseMutexes(t))
      BY <1>9, <3>3, <3>4, CallOps
    <3>6. QED BY <3>1, <3>2, <3>5, Zenon
  <2>3. CASE Return(<<>>)
    BY <1>0, <2>1, <2>3, Zenon
  <2>4. QED BY <1>9, <2>2, <2>3, TerminateStep DEF StopsOne
<1>10. QED
  BY <1>1, <1>2, <1>3, <1>4, <1>5, <1>6, <1>7, <1>8, <1>9 DEF KernelCall

--------------------------------------------------------------------------------
\* A timer has at most one event, and none while it is about to schedule the next.

LEMMA TimerQuiet ==
  ASSUME TimerInv, UNCHANGED timer_events,
         \A x \in ToSet(calls') : x \in ToSet(calls) \/ x.op # "RearmTimer"
  PROVE  TimerInv'
BY DEF TimerInv, OneTimerEvent

LEMMA SystemCallTimer ==
  ASSUME TypeOK, TimerInv, NEW t \in Thread, SystemCall(t)
  PROVE  TimerInv'
<1>0. ASSUME UNCHANGED timer_events, UNCHANGED calls PROVE TimerInv'
  BY <1>0, TimerQuiet
<1>1. ASSUME NEW objs, NEW wait_all \in BOOLEAN, NEW timeout,
             WaitSynchronization(t, objs, wait_all, timeout)
      PROVE  TimerInv'
  <2>1. UNCHANGED timer_events
    BY <1>1 DEF WaitSynchronization
  <2>2. calls' = calls \/ calls' = <<>> \/ calls' = <<Enter(t, objs)>>
    BY <1>1 DEF WaitSynchronization
  <2>3. \A x \in ToSet(calls') : x \in ToSet(calls) \/ x.op # "RearmTimer"
    BY <2>2, SmallSets, CallOps
  <2>4. QED BY <2>1, <2>3, TimerQuiet
<1>2. ASSUME NEW timeout, SleepThread(t, timeout) PROVE TimerInv'
  BY <1>0, <1>2 DEF SleepThread, timer_vars
<1>3. ASSUME NEW o, Clear(t, o) PROVE TimerInv'
  BY <1>0, <1>3 DEF Clear
<1>4. ASSUME NEW o \in Timer, NEW delayed \in BOOLEAN, NEW periodic,
             SetTimer(t, o, delayed, periodic)
      PROVE  TimerInv'
  <2>1. /\ timer_events' = [timer_events EXCEPT ![o] = IF delayed THEN 1 ELSE 0]
        /\ calls' = IF delayed THEN <<>> ELSE <<Wakeup(o), Rearm(o)>>
    BY <1>4 DEF SetTimer, CancelEvent, TypeOK
  <2>2. OneTimerEvent'
    BY <2>1 DEF TimerInv, OneTimerEvent, TypeOK
  <2>3. ASSUME NEW x \in ToSet(calls'), x.op = "RearmTimer" PROVE timer_events'[x.obj] = 0
    <3>1. ~delayed /\ (x = Wakeup(o) \/ x = Rearm(o))
      BY <2>1, <2>3, SmallSets
    <3>2. x.obj = o
      BY <3>1, CallOps
    <3>3. QED BY <2>1, <3>1, <3>2 DEF TypeOK
  <2>4. QED BY <2>2, <2>3 DEF TimerInv
<1>5. ASSUME NEW o \in Timer, CancelTimer(t, o) PROVE TimerInv'
  BY <1>5 DEF CancelTimer, CancelEvent, TimerInv, OneTimerEvent, TypeOK, Guest, ToSet
<1>6. ASSUME NEW s \in Semaphore, NEW n, ReleaseSemaphore(t, s, n) PROVE TimerInv'
  <2>1. UNCHANGED timer_events /\ calls' = <<Wakeup(s)>>
    BY <1>6 DEF ReleaseSemaphore, timer_vars
  <2>2. QED BY <2>1, TimerQuiet, SmallSets, CallOps
<1>7. ASSUME NEW m \in Mutex, ReleaseMutex(t, m) PROVE TimerInv'
  <2>1. UNCHANGED timer_events /\ (UNCHANGED calls \/ calls' = <<Wakeup(m)>>)
    BY <1>7 DEF ReleaseMutex, timer_vars
  <2>2. QED BY <2>1, TimerQuiet, SmallSets, CallOps
<1>8. ASSUME NEW u \in Thread, NEW p, SetThreadPriority(t, u, p) PROVE TimerInv'
  <2> DEFINE ms == Mutex \cap ToSet(wait_objects[u])
  <2>1. UNCHANGED timer_events /\ calls' = <<UpdatePending(ms)>>
    BY <1>8 DEF SetThreadPriority, timer_vars
  <2> HIDE DEF ms
  <2>2. QED BY <2>1, TimerQuiet, SmallSets, CallOps
<1>9. ASSUME NEW u \in Thread, NEW p, CreateThread(t, u, p) PROVE TimerInv'
  BY <1>0, <1>9 DEF CreateThread, timer_vars
<1>10. ASSUME ExitThread(t) PROVE TimerInv'
  <2>1. Stop(t, <<>>) /\ UNCHANGED timer_events
    BY <1>10 DEF ExitThread, Stop, timer_vars
  <2>2. \A x : x \in ToSet(calls') <=> x = Wakeup(t) \/ x = Leave(t) \/ x = ReleaseMutexes(t)
    BY <2>1, ExitSet, Zenon
  <2>3. QED BY <2>1, <2>2, TimerQuiet, CallOps
<1>11. ASSUME NEW p \in Kills[OwnerOf[t]], TerminateProcess(t, p) PROVE TimerInv'
  <2>1. /\ UNCHANGED timer_events /\ p \in Process
        /\ calls' = [i \in 1 .. NumCores |-> Terminate(p, i - 1)]
    BY <1>11, ConstantAssumption DEF TerminateProcess, timer_vars
  <2>2. calls' \in Seq(Call) /\ \A i \in 1 .. Len(calls') : calls'[i].op = "TerminateProcessThreads"
    BY <2>1, TerminateCalls
  <2>3. \A x \in ToSet(calls') : x.op = "TerminateProcessThreads"
    BY <2>2, InToSet
  <2>4. QED BY <2>1, <2>3, TimerQuiet
<1>12. QED
  BY <1>1, <1>2, <1>3, <1>4, <1>5, <1>6, <1>7, <1>8, <1>9, <1>10, <1>11 DEF SystemCall

LEMMA NextTimer == TypeOK /\ Shape(calls) /\ TimerInv /\ [Next]_vars => TimerInv'
<1> SUFFICES ASSUME TypeOK, Shape(calls), TimerInv, [Next]_vars PROVE TimerInv'
  OBVIOUS
<1>1. CASE RearmTimer
  <2> DEFINE o == Top.obj
  <2>1. Calling("RearmTimer") /\ Return(<<>>)
    BY <1>1 DEF RearmTimer
  <2>2. o \in Timer /\ Top \in ToSet(calls) /\ Top.op = "RearmTimer"
    BY <2>1, TopPlace, CallFields, TopSet
  <2>3. timer_events[o] = 0
    BY <2>2 DEF TimerInv
  <2>4. Len(calls) = 1 /\ calls' = Tail(calls)
    <3>1. ShapeAt(calls, 1) /\ calls[1].op = "RearmTimer" /\ Return(<<>>)
      BY <2>1, TopPlace DEF Shape
    <3>2. QED BY <2>1, <3>1, ReturnPops DEF ShapeAt
  <2>5. calls' = <<>>
    <3>1. Len(Tail(calls)) = 0 /\ Tail(calls) \in Seq(Call)
      BY <2>1, <2>4, TopPlace, TailPlaces
    <3>2. QED BY <2>4, <3>1, EmptySeq
  <2>6. timer_events' = IF interval[o] THEN [timer_events EXCEPT ![o] = timer_events[o] + 1]
                        ELSE timer_events
    BY <1>1 DEF RearmTimer
  <2> HIDE DEF o
  <2>7. \A q \in Timer : timer_events'[q] <= 1
    BY <2>2, <2>3, <2>6 DEF TimerInv, OneTimerEvent, TypeOK
  <2>8. QED BY <2>5, <2>7, SmallSets DEF TimerInv, OneTimerEvent
<1>2. CASE KernelCall /\ ~RearmTimer
  <2>1. UNCHANGED timer_events
    <3>1. ASSUME NEW t, NEW more, Stop(t, more) PROVE UNCHANGED timer_events
      BY <3>1 DEF Stop, timer_vars
    <3>2. QED
      BY <1>2, <3>1 DEF KernelCall, WakeupOne, WakeupDone, AddWaitingThread, RemoveWaitingThread,
         ResumeFromWait, ReleaseThreadMutexes, UpdatePendingMutexes, TerminateProcessThreads,
         timer_vars
  <2>2. \A x \in ToSet(calls') : x \in ToSet(calls) \/ x.op # "RearmTimer"
    BY <1>2, KernelCallNew DEF NewCall
  <2>3. QED BY <2>1, <2>2, TimerQuiet
<1>3. ASSUME NEW t \in Thread, ThreadWakeupCallback(t) PROVE TimerInv'
  <2>1. /\ UNCHANGED timer_events
        /\ calls' = WakingCalls(t) \/ calls' = <<Resume(t)>>
    BY <1>3 DEF ThreadWakeupCallback, timer_vars
  <2>2. \A x \in ToSet(calls') : x = Leave(t) \/ x = Resume(t)
    BY <2>1, SmallSets
  <2>3. QED BY <2>1, <2>2, TimerQuiet, CallOps
<1>4. ASSUME NEW e \in Event, SignalEvent(e) PROVE TimerInv'
  <2>1. UNCHANGED timer_events /\ calls' = <<Wakeup(e)>>
    BY <1>4 DEF SignalEvent
  <2>2. QED BY <2>1, TimerQuiet, SmallSets, CallOps
<1>5. ASSUME NEW o \in Timer, TimerCallback(o) PROVE TimerInv'
  <2>1. /\ timer_events[o] > 0 /\ timer_events' = [timer_events EXCEPT ![o] = timer_events[o] - 1]
        /\ calls' = <<Wakeup(o), Rearm(o)>>
    BY <1>5 DEF TimerCallback
  <2>2. timer_events[o] = 1 /\ timer_events' = [timer_events EXCEPT ![o] = 0]
    <3>1. timer_events[o] \in Nat /\ timer_events[o] <= 1
      BY DEF TimerInv, OneTimerEvent, TypeOK
    <3>2. timer_events[o] = 1 /\ timer_events[o] - 1 = 0
      BY <2>1, <3>1
    <3>3. QED BY <2>1, <3>2
  <2>3. OneTimerEvent'
    BY <2>2 DEF TimerInv, OneTimerEvent, TypeOK
  <2>4. \A x \in ToSet(calls') : x.obj = o
    BY <2>1, SmallSets, CallOps
  <2>5. timer_events'[o] = 0
    BY <2>2 DEF TypeOK
  <2>6. QED BY <2>3, <2>4, <2>5 DEF TimerInv
<1>6. CASE EndAdvance \/ EndSlice \/ UNCHANGED vars
  <2>1. UNCHANGED timer_events /\ UNCHANGED calls
    BY <1>6 DEF EndAdvance, EndSlice, vars, timer_vars
  <2>2. QED BY <2>1, TimerQuiet
<1>7. QED
  BY <1>1, <1>2, <1>3, <1>4, <1>5, <1>6, SystemCallTimer DEF Next

--------------------------------------------------------------------------------
\* The waiting lists of the objects and the wait lists of the threads.

\* What the first call is after one has returned.
LEMMA PopTop ==
  ASSUME TypeOK, Shape(calls), NEW op, Calling(op), Return(<<>>)
  PROVE  /\ ~Calling("AddWaitingThread")'
         /\ Calling("ResumeFromWait")' => Top = Leave(Top'.thread)
<1>1. /\ calls' = Tail(calls) /\ calls # <<>> /\ calls \in Seq(Call)
      /\ Top = calls[1]
  BY ReturnPops, TopPlace
<1>2. /\ calls' \in Seq(Call) /\ Len(calls') = Len(calls) - 1 /\ Len(calls) \in Nat
      /\ \A i \in 1 .. Len(calls) - 1 : calls'[i] = calls[i + 1]
  BY <1>1, TailPlaces
<1>3. ASSUME calls' # <<>> PROVE ShapeAt(calls, 2) /\ Top' = calls[2] /\ Len(calls) > 1
  <2>1. Len(calls') >= 1 /\ Head(calls') = calls'[1]
    BY <1>2, <1>3, TailPlaces
  <2>2. 2 \in 1 .. Len(calls) /\ calls'[1] = calls[2] /\ Len(calls) > 1
    <3>1. 1 \in 1 .. Len(calls) - 1 /\ 1 + 1 = 2 /\ Len(calls) > 1
      BY <1>2, <2>1
    <3>2. QED BY <1>2, <3>1
  <2>3. QED BY <2>1, <2>2 DEF Shape, Top
<1>4. ASSUME Calling("AddWaitingThread")' PROVE FALSE
  <2>1. calls' # <<>> /\ Top'.op = "AddWaitingThread"
    BY <1>4 DEF Calling, Top
  <2>2. QED BY <1>3, <2>1 DEF ShapeAt
<1>5. ASSUME Calling("ResumeFromWait")' PROVE Top = Leave(Top'.thread)
  <2>1. calls' # <<>> /\ Top'.op = "ResumeFromWait"
    BY <1>5 DEF Calling, Top
  <2>2. ShapeAt(calls, 2) /\ Top' = calls[2]
    BY <1>3, <2>1
  <2>3. calls[2 - 1] = Leave(Top'.thread)
    BY <2>1, <2>2 DEF ShapeAt
  <2>4. QED BY <1>1, <2>3
<1>6. QED BY <1>4, <1>5

\* The first call after one was made.
LEMMA PushTop ==
  ASSUME NEW c \in Call, NEW s \in Seq(Call), NEW more \in Seq(Call),
         Len(more) \in Nat \ {0}, more[1] = c, calls' = more \o s
  PROVE  /\ calls' # <<>> /\ Top' = c /\ Head(calls') = c
         /\ \A op : Calling(op)' => op = c.op
<1>1. calls' \in Seq(Call) /\ calls'[1] = c
  <2>1. 1 \in 1 .. Len(more)
    OBVIOUS
  <2>2. \A i \in 1 .. Len(more) : (more \o s)[i] = more[i]
    BY ConcatPlaces, Zenon
  <2>3. more \o s \in Seq(Call)
    BY ConcatPlaces, Zenon
  <2>4. QED BY <2>1, <2>2, <2>3
<1>2. calls' # <<>>
  <2>1. Len(calls') = Len(more) + Len(s) /\ Len(s) \in Nat
    BY ConcatProperties
  <2>2. QED BY <1>1, <2>1, EmptySeq
<1>3. Head(calls') = c
  BY <1>1, <1>2, TailPlaces
<1>4. QED BY <1>2, <1>3 DEF Top, Calling

\* The two kinds of lists agree completely unless a thread is leaving its lists.
AllAgree == \A t \in Thread : \A o \in ToSet(wait_objects[t]) : t \in ToSet(waiting_threads[o])

LEMMA Agree ==
  ASSUME ListInv, calls = <<>> \/ Top.op # "RemoveWaitingThread"
  PROVE  AllAgree
<1>1. \A t \in Thread : ~(calls # <<>> /\ Head(calls) = Leave(t))
  BY CallOps DEF Top
<1>2. QED BY <1>1 DEF ListInv, AllAgree

\* A step that leaves the lists alone.
LEMMA ListQuiet ==
  ASSUME ListInv, AllAgree, UNCHANGED <<wait_objects, waiting_threads>>,
         \A t \in Thread : wait_objects[t] # <<>> =>
           /\ InSynch(t) => InSynch(t)' \/ (status'[t] = "Dead" /\ Leaving(t)')
           /\ status[t] = "Dead" /\ Leaving(t) => status'[t] = "Dead" /\ Leaving(t)',
         Calling("ResumeFromWait")' => wait_objects[Top'.thread] = <<>>,
         Calling("AddWaitingThread")' => InSynch(Top.thread)'
  PROVE  ListInv'
<1>1. \A t \in Thread : \A o \in ToSet(wait_objects'[t]) : t \in ToSet(waiting_threads'[o])
  BY DEF AllAgree
<1>2. \A t \in Thread : wait_objects'[t] # <<>> =>
        InSynch(t)' \/ (status'[t] = "Dead" /\ Leaving(t)')
  BY DEF ListInv
<1>3. QED BY <1>1, <1>2 DEF ListInv

\* A kernel call that only returns.
LEMMA ListPop ==
  ASSUME TypeOK, Shape(calls), ListInv, NEW op, Calling(op), Return(<<>>),
         op # "RemoveWaitingThread", UNCHANGED <<status, wait_objects, waiting_threads>>
  PROVE  ListInv'
<1>1. Top.op = op /\ \A x : x \in ToSet(calls) <=> x = Top \/ x \in ToSet(calls')
  BY TopPlace, PopSet
<1>2. AllAgree
  BY <1>1, Agree
<1>3. \A t \in Thread : Leaving(t) => Leaving(t)'
  BY <1>1, CallOps DEF Leaving
<1>4. ~Calling("AddWaitingThread")' /\ ~Calling("ResumeFromWait")'
  BY <1>1, PopTop, CallOps
<1>5. QED BY <1>2, <1>3, <1>4, ListQuiet DEF InSynch

\* A kernel call that makes others.
LEMMA ListPush ==
  ASSUME TypeOK, ListInv, NEW op, Calling(op), op # "RemoveWaitingThread",
         NEW more \in Seq(Call), Len(more) \in Nat \ {0}, calls' = more \o calls,
         more[1].op \notin {"ResumeFromWait", "AddWaitingThread"},
         UNCHANGED <<status, wait_objects, waiting_threads>>
  PROVE  ListInv'
<1>1. Top.op = op /\ calls \in Seq(Call) /\ more[1] \in Call
  BY TopPlace
<1>2. AllAgree
  BY <1>1, Agree
<1>3. \A t \in Thread : Leaving(t) => Leaving(t)'
  BY <1>1, PushSet DEF Leaving
<1>4. ~Calling("AddWaitingThread")' /\ ~Calling("ResumeFromWait")'
  BY <1>1, PushTop
<1>5. QED BY <1>2, <1>3, <1>4, ListQuiet DEF InSynch

\* Nothing leaves its lists when Leave is not on the stack.
LEMMA NoneLeaving ==
  ASSUME ListInv, \A x \in ToSet(calls) : x.op # "RemoveWaitingThread"
  PROVE  \A t \in Thread : ~Leaving(t) /\ (wait_objects[t] # <<>> => InSynch(t))
BY CallOps DEF ListInv, Leaving

LEMMA AppendSet ==
  ASSUME NEW S, NEW s \in Seq(S), NEW e \in S
  PROVE  Append(s, e) # <<>> /\ \A x : x \in ToSet(Append(s, e)) <=> x \in ToSet(s) \/ x = e
<1> DEFINE r == Append(s, e)
<1>1. /\ r \in Seq(S) /\ Len(r) = Len(s) + 1 /\ Len(s) \in Nat
      /\ \A i \in 1 .. Len(s) : r[i] = s[i]
      /\ r[Len(s) + 1] = e
  BY AppendProperties
<1> HIDE DEF r
<1>2. r # <<>>
  BY <1>1, EmptySeq
<1>3. ASSUME NEW x PROVE x \in ToSet(r) <=> x \in ToSet(s) \/ x = e
  <2>1. (\E i \in 1 .. Len(r) : r[i] = x) <=> (\E i \in 1 .. Len(s) : s[i] = x) \/ x = e
    BY <1>1
  <2>2. QED BY <1>1, <2>1, InToSet
<1>4. QED BY <1>2, <1>3 DEF r

\* A thread enters the list of the next object it waits for.
LEMMA AddWaitingThreadList ==
  ASSUME TypeOK, Shape(calls), ListInv, AddWaitingThread
  PROVE  ListInv'
<1> DEFINE t == Top.thread
           o == Head(Top.objs)
           rest == Tail(Top.objs)
<1>1. /\ Calling("AddWaitingThread") /\ t \in Thread /\ o \in WaitObject
      /\ wait_objects' = [wait_objects EXCEPT ![t] = Append(@, o)]
      /\ waiting_threads' = [waiting_threads EXCEPT ![o] =
           IF t \in ToSet(waiting_threads[o]) THEN waiting_threads[o]
           ELSE Append(waiting_threads[o], t)]
      /\ Len(calls) = 1
      /\ calls' = IF rest = <<>> THEN <<>> ELSE <<Enter(t, rest)>>
      /\ UNCHANGED status
  BY AddWaitingThreadStep
<1>2. Top.op = "AddWaitingThread" /\ InSynch(t)
  BY <1>1, TopPlace DEF ListInv
<1>3. AllAgree
  BY <1>2, Agree
<1> DEFINE wo == wait_objects[t]
           wt == waiting_threads[o]
           ws == IF t \in ToSet(wt) THEN wt ELSE Append(wt, t)
<1> HIDE DEF t, o, rest
<1>4. wo \in Seq(WaitObject) /\ wt \in Seq(Thread) /\ IsInjective(wt)
  BY <1>1 DEF TypeOK, ListInv
<1>5. /\ wait_objects'[t] = Append(wo, o)
       /\ \A u \in Thread : u # t => wait_objects'[u] = wait_objects[u]
      /\ waiting_threads'[o] = ws
      /\ \A q \in WaitObject : q # o => waiting_threads'[q] = waiting_threads[q]
  BY <1>1 DEF TypeOK
<1> HIDE DEF wo, wt
<1>6. \A x : x \in ToSet(Append(wo, o)) <=> x \in ToSet(wo) \/ x = o
  BY <1>1, <1>4, AppendSet
<1>7. IsInjective(ws) /\ \A x : x \in ToSet(ws) <=> x \in ToSet(wt) \/ x = t
  <2>1. CASE t \in ToSet(wt)
    BY <1>4, <2>1
  <2>2. CASE t \notin ToSet(wt)
    BY <1>1, <1>4, <2>2, AppendNew
  <2>3. QED BY <2>1, <2>2
<1> HIDE DEF ws
<1>8. \A q \in WaitObject : \A x : x \in ToSet(waiting_threads'[q])
        <=> x \in ToSet(waiting_threads[q]) \/ (x = t /\ q = o)
  BY <1>5, <1>7 DEF wt
<1>9. \A u \in Thread : \A x : x \in ToSet(wait_objects'[u])
        <=> x \in ToSet(wait_objects[u]) \/ (x = o /\ u = t)
  BY <1>5, <1>6 DEF wo
<1>10. \A q \in WaitObject : IsInjective(waiting_threads'[q])
  BY <1>5, <1>7 DEF ListInv
<1>11. \A q \in WaitObject : \A u \in ToSet(waiting_threads'[q]) : q \in ToSet(wait_objects'[u])
  <2> SUFFICES ASSUME NEW q \in WaitObject, NEW u \in ToSet(waiting_threads'[q])
               PROVE  q \in ToSet(wait_objects'[u])
    OBVIOUS
  <2>1. u \in ToSet(waiting_threads[q]) \/ (u = t /\ q = o)
    BY <1>8
  <2>2. u \in Thread
    <3>1. waiting_threads[q] \in Seq(Thread)
      BY DEF TypeOK
    <3>2. u \in ToSet(waiting_threads[q]) => u \in Thread
      BY <3>1, ElementOfSeq DEF ToSet
    <3>3. QED BY <1>1, <2>1, <3>2
  <2>3. QED BY <1>9, <2>1, <2>2 DEF ListInv
<1>12. \A u \in Thread : \A q \in ToSet(wait_objects'[u]) : u \in ToSet(waiting_threads'[q])
  <2> SUFFICES ASSUME NEW u \in Thread, NEW q \in ToSet(wait_objects'[u])
               PROVE  u \in ToSet(waiting_threads'[q])
    OBVIOUS
  <2>1. q \in ToSet(wait_objects[u]) \/ (q = o /\ u = t)
    BY <1>9
  <2>2. q \in WaitObject
    <3>1. wait_objects[u] \in Seq(WaitObject)
      BY DEF TypeOK
    <3>2. q \in ToSet(wait_objects[u]) => q \in WaitObject
      BY <3>1, ElementOfSeq DEF ToSet
    <3>3. QED BY <1>1, <2>1, <3>2
  <2>3. QED BY <1>3, <1>8, <2>1, <2>2 DEF AllAgree
<1>13. \A u \in Thread : wait_objects'[u] # <<>> => InSynch(u)'
  <2>1. \A x \in ToSet(calls) : x.op # "RemoveWaitingThread"
    <3>1. \A x \in ToSet(calls) : x = Top
      <4>1. calls \in Seq(Call) /\ Top = calls[1]
        BY <1>1, TopPlace
      <4>2. QED BY <1>1, <4>1, InToSet
    <3>2. QED BY <1>2, <3>1
  <2>2. \A u \in Thread : wait_objects[u] # <<>> => InSynch(u)
    BY <2>1, NoneLeaving
  <2>3. QED BY <1>1, <1>2, <1>5, <2>2 DEF InSynch
<1>14. /\ ~Calling("ResumeFromWait")'
       /\ Calling("AddWaitingThread")' => InSynch(Top.thread)'
  <2>1. CASE calls' = <<>>
    BY <2>1 DEF Calling
  <2>2. CASE calls' = <<Enter(t, rest)>>
    <3>1. Head(calls') = Enter(t, rest)
      BY <2>2
    <3>2. QED BY <1>1, <1>2, <3>1, CallOps DEF Calling, Top, InSynch
  <2>3. QED BY <1>1, <2>1, <2>2
<1>15. QED BY <1>10, <1>11, <1>12, <1>13, <1>14 DEF ListInv

\* What RemoveWaitingThread does for the next object of the thread.
LEMMA RemoveWaitingThreadStep ==
  ASSUME TypeOK, RemoveWaitingThread, NEW t, t = Top.thread
  PROVE  /\ Calling("RemoveWaitingThread") /\ t \in Thread /\ Top = Leave(t)
         /\ UNCHANGED <<status, nominal_priority, result, wakeups, current_thread, timer_vars,
                        available_count, lock_count, holding_thread, process_status, loop_vars,
                        halt_vars>>
         /\ \/ /\ wait_objects[t] = <<>> /\ Return(<<>>)
               /\ UNCHANGED <<wait_objects, waiting_threads>>
            \/ /\ wait_objects[t] # <<>> /\ UNCHANGED calls
               /\ \E o \in WaitObject :
                    /\ o = Head(wait_objects[t])
                    /\ waiting_threads' = [waiting_threads EXCEPT ![o] =
                                             RemoveFirst(waiting_threads[o], t)]
                    /\ wait_objects' = [wait_objects EXCEPT ![t] = Tail(wait_objects[t])]
<1>1. /\ Calling("RemoveWaitingThread")
      /\ UNCHANGED <<status, nominal_priority, result, wakeups, current_thread, timer_vars,
                     available_count, lock_count, holding_thread, process_status, loop_vars,
                     halt_vars>>
  BY DEF RemoveWaitingThread
<1>2. t \in Thread /\ Top = Leave(t)
  BY <1>1, TopPlace, CallFields, CallForms
<1>3. \/ /\ wait_objects[t] = <<>> /\ Return(<<>>)
         /\ UNCHANGED <<wait_objects, waiting_threads>>
      \/ /\ wait_objects[t] # <<>> /\ UNCHANGED calls
         /\ waiting_threads' = [waiting_threads EXCEPT ![Head(wait_objects[t])] =
                                  RemoveFirst(waiting_threads[Head(wait_objects[t])], t)]
         /\ wait_objects' = [wait_objects EXCEPT ![t] = Tail(@)]
  BY Zenon DEF RemoveWaitingThread
<1>4. wait_objects[t] # <<>> => Head(wait_objects[t]) \in WaitObject
  BY <1>2 DEF TypeOK
<1>5. QED BY <1>1, <1>2, <1>3, <1>4

LEMMA RemoveWaitingThreadList ==
  ASSUME TypeOK, Shape(calls), ListInv, RemoveWaitingThread
  PROVE  ListInv'
<1> DEFINE t == Top.thread
<1>1. /\ Calling("RemoveWaitingThread") /\ t \in Thread /\ Top = Leave(t)
      /\ UNCHANGED status
      /\ \/ /\ wait_objects[t] = <<>> /\ Return(<<>>)
            /\ UNCHANGED <<wait_objects, waiting_threads>>
         \/ /\ wait_objects[t] # <<>> /\ UNCHANGED calls
            /\ \E o \in WaitObject :
                 /\ o = Head(wait_objects[t])
                 /\ waiting_threads' = [waiting_threads EXCEPT ![o] =
                                          RemoveFirst(waiting_threads[o], t)]
                 /\ wait_objects' = [wait_objects EXCEPT ![t] = Tail(wait_objects[t])]
  BY RemoveWaitingThreadStep
<1> HIDE DEF t
<1>2. \A u \in Thread : u # t => calls # <<>> /\ Head(calls) # Leave(u)
  BY <1>1, CallOps DEF Top, Calling
<1>3. CASE wait_objects[t] = <<>> /\ Return(<<>>) /\ UNCHANGED <<wait_objects, waiting_threads>>
  <2>1. AllAgree
    <3>1. \A u \in Thread : u # t =>
            \A o \in ToSet(wait_objects[u]) : u \in ToSet(waiting_threads[o])
      BY <1>2 DEF ListInv
    <3>2. \A o : o \notin ToSet(wait_objects[t])
      BY <1>3, SmallSets
    <3>3. QED BY <3>1, <3>2 DEF AllAgree
  <2>2. \A x : x \in ToSet(calls) <=> x = Top \/ x \in ToSet(calls')
    BY <1>1, <1>3, PopSet
  <2>3. \A u \in Thread : u # t /\ Leaving(u) => Leaving(u)'
    BY <1>1, <2>2, CallOps DEF Leaving
  <2>4. /\ ~Calling("AddWaitingThread")'
        /\ Calling("ResumeFromWait")' => Top = Leave(Top'.thread)
    BY <1>1, <1>3, PopTop
  <2>5. Calling("ResumeFromWait")' => wait_objects[Top'.thread] = <<>>
    <3>1. Top.thread = t
      BY DEF t
    <3>2. ASSUME NEW u, Top = Leave(u) PROVE u = t
      <4>1. Leave(u).thread = u
        BY CallOps
      <4>2. QED BY <3>1, <3>2, <4>1
    <3>3. QED BY <1>3, <2>4, <3>2
  <2>6. \A u \in Thread : wait_objects[u] # <<>> =>
          /\ InSynch(u) => InSynch(u)' \/ (status'[u] = "Dead" /\ Leaving(u)')
          /\ status[u] = "Dead" /\ Leaving(u) => status'[u] = "Dead" /\ Leaving(u)'
    BY <1>1, <1>3, <2>3 DEF InSynch
  <2>7. QED BY <1>3, <2>1, <2>4, <2>5, <2>6, ListQuiet
<1>4. ASSUME NEW o \in WaitObject, wait_objects[t] # <<>>, UNCHANGED calls,
             o = Head(wait_objects[t]),
             waiting_threads' = [waiting_threads EXCEPT ![o] = RemoveFirst(waiting_threads[o], t)],
             wait_objects' = [wait_objects EXCEPT ![t] = Tail(wait_objects[t])]
      PROVE  ListInv'
  <2> DEFINE wo == wait_objects[t]
             wt == waiting_threads[o]
             ws == RemoveFirst(wt, t)
  <2>1. wo \in Seq(WaitObject) /\ wo # <<>> /\ wt \in Seq(Thread) /\ IsInjective(wt)
    BY <1>1, <1>4 DEF TypeOK, ListInv
  <2>2. /\ wait_objects'[t] = Tail(wo)
        /\ \A u \in Thread : u # t => wait_objects'[u] = wait_objects[u]
        /\ waiting_threads'[o] = ws
        /\ \A q \in WaitObject : q # o => waiting_threads'[q] = waiting_threads[q]
    BY <1>1, <1>4 DEF TypeOK
  <2> HIDE DEF wo, wt
  <2>3. \A x : x \in ToSet(wo) <=> x = o \/ x \in ToSet(Tail(wo))
    BY <1>4, <2>1, TailPlaces DEF wo
  <2>4. IsInjective(ws) /\ \A x : x \in ToSet(ws) <=> x \in ToSet(wt) /\ x # t
    BY <2>1, RemoveFirstInjective
  <2> HIDE DEF ws
  <2>5. \A q \in WaitObject : IsInjective(waiting_threads'[q])
    BY <2>2, <2>4 DEF ListInv
  <2>6. \A q \in WaitObject : \A u \in ToSet(waiting_threads'[q]) : q \in ToSet(wait_objects'[u])
    <3> SUFFICES ASSUME NEW q \in WaitObject, NEW u \in ToSet(waiting_threads'[q])
                 PROVE  q \in ToSet(wait_objects'[u])
      OBVIOUS
    <3>1. u \in ToSet(waiting_threads[q]) /\ (q = o => u # t)
      BY <2>2, <2>4 DEF wt
    <3>2. u \in Thread
      <4>1. waiting_threads[q] \in Seq(Thread)
        BY DEF TypeOK
      <4>2. QED BY <3>1, <4>1, ElementOfSeq DEF ToSet
    <3>3. q \in ToSet(wait_objects[u])
      BY <3>1 DEF ListInv
    <3>4. QED BY <2>2, <2>3, <3>1, <3>2, <3>3 DEF wo
  <2>7. \A u \in Thread : u # t =>
          \A q \in ToSet(wait_objects'[u]) : u \in ToSet(waiting_threads'[q])
    <3> SUFFICES ASSUME NEW u \in Thread, u # t, NEW q \in ToSet(wait_objects'[u])
                 PROVE  u \in ToSet(waiting_threads'[q])
      OBVIOUS
    <3>1. q \in ToSet(wait_objects[u])
      BY <2>2
    <3>2. u \in ToSet(waiting_threads[q])
      BY <1>2, <3>1 DEF ListInv
    <3>3. q \in WaitObject
      <4>1. wait_objects[u] \in Seq(WaitObject)
        BY DEF TypeOK
      <4>2. QED BY <3>1, <4>1, ElementOfSeq DEF ToSet
    <3>4. QED BY <2>2, <2>4, <3>2, <3>3 DEF wt
  <2>8. \A u \in Thread : wait_objects'[u] # <<>> => wait_objects[u] # <<>>
    BY <1>4, <2>2
  <2>9. \A u \in Thread : wait_objects'[u] # <<>> =>
          InSynch(u)' \/ (status'[u] = "Dead" /\ Leaving(u)')
    BY <1>1, <1>4, <2>8 DEF ListInv, InSynch, Leaving
  <2>10. calls' # <<>> /\ Head(calls') = Leave(t) /\ Top'.op = "RemoveWaitingThread"
    BY <1>1, <1>4, CallOps DEF Calling, Top
  <2>11. ~Calling("ResumeFromWait")' /\ ~Calling("AddWaitingThread")'
    BY <2>10 DEF Calling, Top
  <2>12. \A u \in Thread : \/ calls' # <<>> /\ Head(calls') = Leave(u)
                           \/ \A q \in ToSet(wait_objects'[u]) : u \in ToSet(waiting_threads'[q])
    BY <2>7, <2>10
  <2>13. QED BY <2>5, <2>6, <2>9, <2>11, <2>12 DEF ListInv
<1>5. QED BY <1>1, <1>3, <1>4

\* The waiting statuses that ResumeFromWait ends are those of a thread without lists.
LEMMA ResumeList ==
  ASSUME TypeOK, Shape(calls), ListInv, ResumeFromWait
  PROVE  ListInv'
<1> DEFINE t == Top.thread
<1>1. /\ Calling("ResumeFromWait") /\ Return(<<>>) /\ UNCHANGED <<wait_objects, waiting_threads>>
      /\ (UNCHANGED status \/ status' = [status EXCEPT ![t] = "Ready"])
  BY DEF ResumeFromWait, wait_vars
<1>2. Top.op = "ResumeFromWait" /\ t \in Thread /\ wait_objects[t] = <<>>
  BY <1>1, TopPlace, CallFields DEF ListInv
<1> HIDE DEF t
<1>3. AllAgree
  BY <1>2, Agree
<1>4. ~Calling("AddWaitingThread")' /\ ~Calling("ResumeFromWait")'
  BY <1>1, <1>2, PopTop, CallOps
<1>5. \A u \in Thread : wait_objects[u] # <<>> => status'[u] = status[u]
  BY <1>1, <1>2 DEF TypeOK
<1>6. \A u \in Thread : Leaving(u) => Leaving(u)'
  BY <1>1, <1>2, PopSet, CallOps DEF Leaving
<1>7. QED BY <1>1, <1>3, <1>4, <1>5, <1>6, ListQuiet DEF InSynch

LEMMA StopTop ==
  ASSUME NEW t \in Thread, NEW more \in Seq(Call), Stop(t, more)
  PROVE  \A op : Calling(op)' => op = "WakeupAllWaitingThreads"
<1> DEFINE s == StoppingCalls(t)
<1>1. s \in Seq(Call) /\ Len(s) \in Nat \ {0} /\ s[1] = Wakeup(t) /\ calls' = s \o more
  BY MadeSequences DEF StoppingCalls, Stop
<1>2. s[1] \in Call
  BY <1>1, ElementOfSeq
<1> HIDE DEF s
<1>3. \A op : Calling(op)' => op = s[1].op
  BY <1>1, <1>2, PushTop
<1>4. QED BY <1>1, <1>3, CallOps

\* Thread::Stop, with only the termination of other threads below it.
LEMMA StopList ==
  ASSUME TypeOK, ListInv, NEW t \in Thread, NEW more \in Seq(Call), Stop(t, more),
         \A x \in ToSet(calls) : x.op = "TerminateProcessThreads"
  PROVE  ListInv'
<1>1. /\ status' = [status EXCEPT ![t] = "Dead"] /\ UNCHANGED <<wait_objects, waiting_threads>>
      /\ calls' = StoppingCalls(t) \o more
  BY DEF Stop, wait_vars
<1>2. \A u \in Thread : ~Leaving(u) /\ (wait_objects[u] # <<>> => InSynch(u))
  BY NoneLeaving
<1>3. AllAgree
  <2>1. calls = <<>> \/ Top.op # "RemoveWaitingThread"
    <3>1. calls # <<>> => Top \in ToSet(calls)
      BY TailPlaces DEF TypeOK, Top
    <3>2. QED BY <3>1
  <2>2. QED BY <2>1, Agree
<1>4. ~Calling("AddWaitingThread")' /\ ~Calling("ResumeFromWait")'
  BY StopTop
<1>5. Leaving(t)'
  BY StopSet DEF Leaving
<1>6. \A u \in Thread : InSynch(u) => InSynch(u)' \/ (status'[u] = "Dead" /\ Leaving(u)')
  BY <1>1, <1>5 DEF InSynch, TypeOK
<1>7. QED BY <1>1, <1>2, <1>3, <1>4, <1>6, ListQuiet

LEMMA KernelCallList ==
  ASSUME TypeOK, Shape(calls), ListInv, KernelCall
  PROVE  ListInv'
<1>1. CASE WakeupOne
  <2>1. PICK t \in Thread : calls' = WakingCalls(t) \o calls
    BY <1>1, WakeupOneStep
  <2>2. /\ Calling("WakeupAllWaitingThreads")
        /\ UNCHANGED <<status, wait_objects, waiting_threads>>
    BY <1>1, WakeupOneStep
  <2> DEFINE s == WakingCalls(t)
  <2>3. s \in Seq(Call) /\ Len(s) \in Nat \ {0} /\ s[1] = Leave(t)
    BY MadeSequences DEF WakingCalls
  <2>4. calls' = s \o calls
    BY <2>1
  <2> HIDE DEF s
  <2>5. s[1].op \notin {"ResumeFromWait", "AddWaitingThread"}
    BY <2>3, CallOps
  <2>6. QED BY <2>2, <2>3, <2>4, <2>5, ListPush
<1>2. CASE WakeupDone
  BY <1>2, ListPop DEF WakeupDone, wait_vars
<1>3. CASE RearmTimer
  BY <1>3, ListPop DEF RearmTimer, wait_vars
<1>4. CASE ReleaseThreadMutexes
  <2>1. /\ Calling("ReleaseThreadMutexes")
        /\ UNCHANGED <<status, wait_objects, waiting_threads>>
    BY <1>4 DEF ReleaseThreadMutexes, wait_vars
  <2>2. CASE Return(<<>>)
    BY <2>1, <2>2, ListPop
  <2>3. ASSUME NEW m \in HeldMutexes(Top.thread), calls' = <<Wakeup(m)>> \o calls PROVE ListInv'
    <3> DEFINE s == <<Wakeup(m)>>
    <3>1. Wakeup(m) \in Call
      BY MadeCalls DEF HeldMutexes, WaitObject
    <3>2. s \in Seq(Call) /\ Len(s) \in Nat \ {0} /\ s[1] = Wakeup(m)
      BY <3>1
    <3>3. calls' = s \o calls
      BY <2>3
    <3> HIDE DEF s
    <3>4. s[1].op \notin {"ResumeFromWait", "AddWaitingThread"}
      BY <3>2, CallOps
    <3>5. QED BY <2>1, <3>2, <3>3, <3>4, ListPush
  <2>4. QED BY <1>4, <2>2, <2>3 DEF ReleaseThreadMutexes
<1>5. CASE UpdatePendingMutexes
  <2>1. /\ Calling("UpdatePending")
        /\ UNCHANGED <<status, wait_objects, waiting_threads>>
    BY <1>5 DEF UpdatePendingMutexes, wait_vars
  <2>2. Top.op = "UpdatePending" /\ \A x \in ToSet(calls) : x = Top
    <3>1. calls \in Seq(Call) /\ Top = calls[1] /\ Top.op = "UpdatePending" /\ ShapeAt(calls, 1)
      BY <2>1, TopPlace DEF Shape
    <3>2. Len(calls) = 1
      BY <3>1 DEF ShapeAt
    <3>3. QED BY <3>1, <3>2, InToSet
  <2>3. \A u \in Thread : ~Leaving(u)
    BY <2>2, NoneLeaving
  <2>4. AllAgree
    BY <2>2, Agree
  <2>5. ~Calling("AddWaitingThread")' /\ ~Calling("ResumeFromWait")'
    <3>1. calls' = <<>> \/ \E ms : calls' = <<UpdatePending(ms)>>
      BY <1>5, UpdatePendingCalls
    <3>2. calls' = <<>> \/ Head(calls').op = "UpdatePending"
      BY <3>1, CallOps
    <3>3. QED BY <3>2 DEF Calling
  <2>6. QED BY <2>1, <2>3, <2>4, <2>5, ListQuiet DEF InSynch
<1>6. CASE TerminateProcessThreads
  <2>1. Calling("TerminateProcessThreads")
    BY <1>6, TerminateStep
  <2>2. \A x \in ToSet(calls) : x.op = "TerminateProcessThreads"
    <3>1. calls \in Seq(Call)
      BY DEF TypeOK
    <3>2. QED BY <2>1, <3>1, TerminateStack, InToSet
  <2>3. ASSUME NEW t \in Thread, NEW more \in {calls, Tail(calls)}, Stop(t, more) PROVE ListInv'
    <3>1. more \in Seq(Call)
      BY <2>1, TopPlace
    <3>2. QED BY <2>2, <2>3, <3>1, StopList
  <2>4. CASE Return(<<>>) /\ UNCHANGED <<status, wait_vars>>
    BY <2>1, <2>4, ListPop DEF wait_vars
  <2>5. QED BY <1>6, <2>3, <2>4, TerminateStep DEF StopsOne
<1>7. QED
  BY <1>1, <1>2, <1>3, <1>4, <1>5, <1>6, AddWaitingThreadList, RemoveWaitingThreadList, ResumeList
  DEF KernelCall

\* A step from an empty stack that leaves the lists alone.
LEMMA ListIdle ==
  ASSUME ListInv, calls = <<>>, UNCHANGED <<wait_objects, waiting_threads>>,
         \A t \in Thread : wait_objects[t] # <<>> /\ InSynch(t) =>
           InSynch(t)' \/ (status'[t] = "Dead" /\ Leaving(t)'),
         Calling("ResumeFromWait")' => wait_objects[Top'.thread] = <<>>,
         Calling("AddWaitingThread")' => InSynch(Top.thread)'
  PROVE  ListInv'
<1>1. \A t \in Thread : ~Leaving(t)
  BY SmallSets DEF Leaving
<1>2. QED BY <1>1, Agree, ListQuiet

LEMMA OneCall ==
  ASSUME NEW c, calls' = <<c>> \/ \E d : calls' = <<c, d>>
  PROVE  calls' # <<>> /\ Top' = c /\ \A op : Calling(op)' <=> op = c.op
<1>1. calls' # <<>> /\ Head(calls') = c
  OBVIOUS
<1>2. QED BY <1>1 DEF Top, Calling

LEMMA SystemCallList ==
  ASSUME TypeOK, Scheduled, ListInv, NEW t \in Thread, SystemCall(t)
  PROVE  ListInv'
<1>0. ASSUME NEW u \in Thread, Guest(u)
      PROVE  /\ calls = <<>> /\ wait_objects[u] = <<>> /\ status[u] \in {"Running", "Dead"}
             /\ ~Calling("ResumeFromWait") /\ ~Calling("AddWaitingThread")
  <2>1. calls = <<>> /\ status[u] \in {"Running", "Dead"}
    BY <1>0, GuestThread DEF Guest
  <2>2. QED BY <2>1, NoneLeaving, SmallSets DEF InSynch, Calling
<1>1. ASSUME Guest(t), UNCHANGED <<status, wait_objects, waiting_threads>>,
             \/ calls' = <<>>
             \/ \E c : /\ calls' = <<c>> \/ \E d : calls' = <<c, d>>
                       /\ c.op \notin {"ResumeFromWait", "AddWaitingThread"}
      PROVE  ListInv'
  <2>1. ~Calling("ResumeFromWait")' /\ ~Calling("AddWaitingThread")'
    <3>1. CASE calls' = <<>>
      BY <3>1 DEF Calling
    <3>2. CASE calls' # <<>>
      BY <1>1, <3>2, OneCall
    <3>3. QED BY <3>1, <3>2
  <2>2. QED BY <1>0, <1>1, <2>1, ListIdle DEF InSynch
<1>2. ASSUME NEW objs \in WaitLists[t], NEW wait_all \in BOOLEAN, NEW timeout \in Timeouts,
             WaitSynchronization(t, objs, wait_all, timeout)
      PROVE  ListInv'
  <2>1. Guest(t) /\ UNCHANGED <<wait_objects, waiting_threads>>
    BY <1>2 DEF WaitSynchronization
  <2>2. \/ UNCHANGED <<status, calls>>
        \/ /\ status' = [status EXCEPT ![t] = IF wait_all THEN "WaitSynchAll" ELSE "WaitSynchAny"]
           /\ calls' = <<>> \/ calls' = <<Enter(t, objs)>>
    BY <1>2 DEF WaitSynchronization
  <2>3. CASE UNCHANGED <<status, calls>>
    BY <1>0, <1>1, <2>1, <2>3
  <2>4. CASE /\ status' = [status EXCEPT ![t] = IF wait_all THEN "WaitSynchAll" ELSE "WaitSynchAny"]
             /\ calls' = <<>> \/ calls' = <<Enter(t, objs)>>
    <3>1. InSynch(t)' /\ \A u \in Thread : InSynch(u) => InSynch(u)'
      BY <2>4 DEF InSynch, TypeOK
    <3>2. ~Calling("ResumeFromWait")' /\ (Calling("AddWaitingThread")' => Top'.thread = t)
      <4>1. CASE calls' = <<>>
        BY <4>1 DEF Calling
      <4>2. CASE calls' = <<Enter(t, objs)>>
        BY <4>2, OneCall, CallOps
      <4>3. QED BY <2>4, <4>1, <4>2
    <3>3. Calling("AddWaitingThread")' => InSynch(Top.thread)'
      BY <3>1, <3>2 DEF InSynch
    <3>4. QED BY <1>0, <2>1, <3>1, <3>2, <3>3, ListIdle
  <2>5. QED BY <2>2, <2>3, <2>4
<1>3. ASSUME NEW timeout, SleepThread(t, timeout) PROVE ListInv'
  <2>1. /\ Guest(t) /\ UNCHANGED <<wait_objects, waiting_threads, calls>>
        /\ status' = [status EXCEPT ![t] = "WaitSleep"]
    BY <1>3 DEF SleepThread, wait_vars
  <2>2. \A u \in Thread : wait_objects[u] # <<>> /\ InSynch(u) => InSynch(u)'
    BY <1>0, <2>1 DEF InSynch, TypeOK
  <2>3. calls = <<>> /\ ~Calling("ResumeFromWait")' /\ ~Calling("AddWaitingThread")'
    BY <1>0, <2>1 DEF Calling
  <2>4. QED BY <2>1, <2>2, <2>3, ListIdle
<1>4. ASSUME NEW o, Clear(t, o) PROVE ListInv'
  BY <1>0, <1>1, <1>4 DEF Clear, wait_vars
<1>5. ASSUME NEW o \in Timer, NEW delayed \in BOOLEAN, NEW periodic,
             SetTimer(t, o, delayed, periodic)
      PROVE  ListInv'
  <2>1. /\ Guest(t) /\ UNCHANGED <<status, wait_objects, waiting_threads>>
        /\ calls' = <<>> \/ calls' = <<Wakeup(o), Rearm(o)>>
    BY <1>5 DEF SetTimer, wait_vars
  <2>2. QED BY <1>1, <2>1, CallOps
<1>6. ASSUME NEW o \in Timer, CancelTimer(t, o) PROVE ListInv'
  BY <1>0, <1>1, <1>6 DEF CancelTimer, wait_vars
<1>7. ASSUME NEW s \in Semaphore, NEW n, ReleaseSemaphore(t, s, n) PROVE ListInv'
  <2>1. /\ Guest(t) /\ UNCHANGED <<status, wait_objects, waiting_threads>>
        /\ calls' = <<Wakeup(s)>>
    BY <1>7 DEF ReleaseSemaphore, wait_vars
  <2>2. QED BY <1>1, <2>1, CallOps
<1>8. ASSUME NEW m \in Mutex, ReleaseMutex(t, m) PROVE ListInv'
  <2>1. /\ Guest(t) /\ UNCHANGED <<status, wait_objects, waiting_threads>>
        /\ UNCHANGED calls \/ calls' = <<Wakeup(m)>>
    BY <1>8 DEF ReleaseMutex, wait_vars
  <2>2. QED BY <1>0, <1>1, <2>1, CallOps
<1>9. ASSUME NEW u \in Thread, NEW p, SetThreadPriority(t, u, p) PROVE ListInv'
  <2>1. /\ Guest(t) /\ UNCHANGED <<status, wait_objects, waiting_threads>>
        /\ \E ms : calls' = <<UpdatePending(ms)>>
    BY <1>9 DEF SetThreadPriority, wait_vars
  <2>2. QED BY <1>1, <2>1, CallOps
<1>10. ASSUME NEW u \in Thread, NEW p, CreateThread(t, u, p) PROVE ListInv'
  <2>1. /\ Guest(t) /\ UNCHANGED <<wait_objects, waiting_threads, calls>>
        /\ status[u] = "Unborn" /\ \E st : status' = [status EXCEPT ![u] = st]
    BY <1>10 DEF CreateThread, wait_vars
  <2>2. \A v \in Thread : InSynch(v) => InSynch(v)'
    BY <2>1 DEF InSynch, TypeOK
  <2>3. calls = <<>> /\ ~Calling("ResumeFromWait")' /\ ~Calling("AddWaitingThread")'
    BY <1>0, <2>1 DEF Calling
  <2>4. QED BY <2>1, <2>2, <2>3, ListIdle
<1>11. ASSUME ExitThread(t) PROVE ListInv'
  <2>1. Stop(t, <<>>) /\ calls = <<>> /\ <<>> \in Seq(Call)
    BY <1>11 DEF ExitThread, Guest
  <2>2. \A x \in ToSet(calls) : x.op = "TerminateProcessThreads"
    BY <2>1, SmallSets
  <2>3. QED BY <2>1, <2>2, StopList, Zenon
<1>12. ASSUME NEW p \in Kills[OwnerOf[t]], TerminateProcess(t, p) PROVE ListInv'
  <2>1. /\ Guest(t) /\ UNCHANGED <<status, wait_objects, waiting_threads>> /\ p \in Process
        /\ calls' = [i \in 1 .. NumCores |-> Terminate(p, i - 1)]
    BY <1>12, ConstantAssumption DEF TerminateProcess, wait_vars
  <2>2. calls' \in Seq(Call) /\ \A i \in 1 .. Len(calls') : calls'[i].op = "TerminateProcessThreads"
    BY <2>1, TerminateCalls
  <2>3. ~Calling("ResumeFromWait")' /\ ~Calling("AddWaitingThread")'
    <3>1. calls' # <<>> => Head(calls').op = "TerminateProcessThreads"
      <4>1. calls' # <<>> => Head(calls') = calls'[1] /\ 1 \in 1 .. Len(calls')
        BY <2>2, TailPlaces
      <4>2. QED BY <2>2, <4>1
    <3>2. QED BY <3>1 DEF Calling
  <2>4. QED BY <1>0, <2>1, <2>3, ListIdle DEF InSynch
<1>13. QED
  BY <1>2, <1>3, <1>4, <1>5, <1>6, <1>7, <1>8, <1>9, <1>10, <1>11, <1>12 DEF SystemCall

\* The loop over the cores only switches threads between ready and running.
LEMMA RescheduleStatus ==
  ASSUME TypeOK, Scheduled, NEW c \in Core, Reschedule(c), NEW u \in Thread
  PROVE  \/ status'[u] = status[u]
         \/ status[u] \in {"Ready", "Running"} /\ status'[u] \in {"Ready", "Running"}
<1> DEFINE cur == current_thread[c]
           next == PopNextReadyThread(c)
           yield == cur # NoThread /\ status[cur] = "Running"
           saved == IF yield THEN [status EXCEPT ![cur] = "Ready"] ELSE status
<1>1. current_thread[c] # NoThread => CoreOf[cur] = c /\ cur \in Thread
  BY DEF Scheduled, CurrentThreads, TypeOK
<1>2. \/ next = NoThread
      \/ next \in Thread /\ next = cur /\ status[cur] = "Running"
      \/ next \in Thread /\ status[next] = "Ready"
  BY <1>1, NextThread
<1>3. status' = IF next = NoThread THEN saved ELSE [saved EXCEPT ![next] = "Running"]
  BY DEF Reschedule
<1>4. /\ saved \in [Thread -> Status]
      /\ saved[u] = IF yield /\ u = cur THEN "Ready" ELSE status[u]
  BY <1>1 DEF TypeOK, Status
<1>5. yield /\ u = cur => status[u] = "Running"
  OBVIOUS
<1>6. u = next /\ next # NoThread => status[u] \in {"Ready", "Running"}
  BY <1>2
<1> HIDE DEF next, saved, yield
<1>7. status'[u] = IF next # NoThread /\ u = next THEN "Running" ELSE saved[u]
  BY <1>3, <1>4
<1>8. QED BY <1>4, <1>5, <1>6, <1>7

LEMMA LoopStatus ==
  ASSUME TypeOK, Scheduled, EndAdvance \/ EndSlice
  PROVE  /\ calls = <<>>
         /\ UNCHANGED <<nominal_priority, current_priority, wait_objects, waiting_threads, result,
                        signaled, timer_events, interval, available_count, lock_count,
                        holding_thread, mutex_priority, calls>>
         /\ \A u \in Thread :
              \/ status'[u] = status[u]
              \/ status[u] \in {"Ready", "Running"} /\ status'[u] \in {"Ready", "Running"}
<1>1. Reschedule(RunningCore) \/ UNCHANGED status
  BY DEF EndAdvance, EndSlice
<1>2. RunningCore \in Core
  BY RunningCoreType
<1>3. \A u \in Thread :
        \/ status'[u] = status[u]
        \/ status[u] \in {"Ready", "Running"} /\ status'[u] \in {"Ready", "Running"}
  BY <1>1, <1>2, RescheduleStatus
<1>4. /\ calls = <<>>
      /\ UNCHANGED <<nominal_priority, current_priority, wait_objects, waiting_threads, result,
                     signaled, timer_events, interval, available_count, lock_count,
                     holding_thread, mutex_priority, calls>>
  BY DEF EndAdvance, EndSlice, wait_vars, timer_vars, mutex_vars
<1>5. QED BY <1>3, <1>4

LEMMA NextList ==
  TypeOK /\ Scheduled /\ Shape(calls) /\ ListInv /\ [Next]_vars => ListInv'
<1> SUFFICES ASSUME TypeOK, Scheduled, Shape(calls), ListInv, [Next]_vars PROVE ListInv'
  OBVIOUS
<1>1. ASSUME NEW t \in Thread, ThreadWakeupCallback(t) PROVE ListInv'
  <2>1. /\ calls = <<>> /\ UNCHANGED <<status, wait_objects, waiting_threads>>
        /\ \/ calls' = WakingCalls(t)
           \/ calls' = <<Resume(t)>> /\ ~TimesOut(t)
    BY <1>1 DEF ThreadWakeupCallback
  <2>2. CASE calls' = WakingCalls(t)
    <3>1. ~Calling("ResumeFromWait")' /\ ~Calling("AddWaitingThread")'
      BY <2>2, OneCall, CallOps DEF WakingCalls
    <3>2. QED BY <2>1, <3>1, ListIdle DEF InSynch
  <2>3. CASE calls' = <<Resume(t)>> /\ ~TimesOut(t)
    <3>1. ~Calling("AddWaitingThread")' /\ Top' = Resume(t) /\ Top'.thread = t
      BY <2>3, OneCall, CallOps
    <3>2. wait_objects[t] = <<>>
      BY <2>1, <2>3, NoneLeaving, SmallSets DEF TimesOut, InSynch
    <3>3. QED BY <2>1, <3>1, <3>2, ListIdle DEF InSynch
  <2>4. QED BY <2>1, <2>2, <2>3
<1>2. ASSUME NEW e \in Event, SignalEvent(e) PROVE ListInv'
  <2>1. /\ calls = <<>> /\ UNCHANGED <<status, wait_objects, waiting_threads>>
        /\ calls' = <<Wakeup(e)>>
    BY <1>2 DEF SignalEvent, wait_vars
  <2>2. ~Calling("ResumeFromWait")' /\ ~Calling("AddWaitingThread")'
    BY <2>1, OneCall, CallOps
  <2>3. QED BY <2>1, <2>2, ListIdle DEF InSynch
<1>3. ASSUME NEW o \in Timer, TimerCallback(o) PROVE ListInv'
  <2>1. /\ calls = <<>> /\ UNCHANGED <<status, wait_objects, waiting_threads>>
        /\ calls' = <<Wakeup(o), Rearm(o)>>
    BY <1>3 DEF TimerCallback, wait_vars
  <2>2. ~Calling("ResumeFromWait")' /\ ~Calling("AddWaitingThread")'
    BY <2>1, OneCall, CallOps
  <2>3. QED BY <2>1, <2>2, ListIdle DEF InSynch
<1>4. CASE EndAdvance \/ EndSlice
  <2>1. /\ calls = <<>> /\ UNCHANGED <<wait_objects, waiting_threads, calls>>
        /\ \A u \in Thread :
             \/ status'[u] = status[u]
             \/ status[u] \in {"Ready", "Running"} /\ status'[u] \in {"Ready", "Running"}
    BY <1>4, LoopStatus
  <2>2. ~Calling("ResumeFromWait")' /\ ~Calling("AddWaitingThread")'
    BY <2>1 DEF Calling
  <2>3. \A u \in Thread : InSynch(u) => InSynch(u)'
    BY <2>1 DEF InSynch
  <2>4. QED BY <2>1, <2>2, <2>3, ListIdle
<1>5. CASE UNCHANGED vars
  <2>1. UNCHANGED <<status, wait_objects, waiting_threads, calls>>
    BY <1>5 DEF vars, wait_vars
  <2>2. QED BY <2>1 DEF ListInv, InSynch, Leaving, Calling, Top
<1>6. QED
  BY <1>1, <1>2, <1>3, <1>4, <1>5, KernelCallList, SystemCallList DEF Next

--------------------------------------------------------------------------------
\* The theorems on lists and timers.

WaitInv == TypeOK /\ Scheduled /\ Shape(calls) /\ TimerInv /\ ListInv

LEMMA InitWaits == Init => WaitInv
<1> HAVE Init
<1>1. TypeOK /\ Scheduled
  BY InitType, InitScheduled
<1>2. /\ calls = <<>> /\ timer_events = [o \in Timer |-> 0]
      /\ wait_objects = [t \in Thread |-> <<>>] /\ waiting_threads = [o \in WaitObject |-> <<>>]
  BY DEF Init
<1>3. Shape(calls)
  BY <1>2, ShapeSmall
<1>4. TimerInv
  BY <1>2, SmallSets DEF TimerInv, OneTimerEvent
<1>5. ListInv
  <2>1. \A o \in WaitObject : IsInjective(waiting_threads[o])
    BY <1>2 DEF IsInjective
  <2>2. QED BY <1>2, <2>1, SmallSets DEF ListInv, Calling
<1>6. QED BY <1>1, <1>3, <1>4, <1>5 DEF WaitInv

LEMMA NextWaits == WaitInv /\ [Next]_vars => WaitInv'
BY NextType, NextScheduled, NextShape, NextTimer, NextList DEF WaitInv

LEMMA AlwaysWaits == Spec => []WaitInv
BY InitWaits, NextWaits, PTL DEF Spec

\* A timer never has two events scheduled, however Timer::Set, Timer::Cancel and the
\* callback of a periodic timer interleave.
THEOREM TimersScheduledOnce == Spec => []OneTimerEvent
<1>1. WaitInv => OneTimerEvent
  BY DEF WaitInv, TimerInv
<1>2. QED BY <1>1, AlwaysWaits, PTL

\* The waiting lists of the objects and the wait lists of the threads agree, and no
\* list names a thread twice, through every wakeup, timeout and Thread::Stop.
THEOREM ListsAgree == Spec => []WaitListsAgree
<1>1. ASSUME WaitInv PROVE WaitListsAgree
  <2>1. ListInv
    BY <1>1 DEF WaitInv
  <2>2. calls = <<>> => \A t \in Thread : wait_objects[t] # <<>> => InSynch(t)
    BY <2>1, SmallSets, NoneLeaving
  <2>3. calls = <<>> => AllAgree
    BY <2>1, Agree
  <2>4. QED BY <2>1, <2>2, <2>3 DEF ListInv, AllAgree, WaitListsAgree
<1>2. QED BY <1>1, AlwaysWaits, PTL

--------------------------------------------------------------------------------
\* No wakeup is lost.

LEMMA ShouldWaitCases ==
  ASSUME NEW t
  PROVE  /\ \A o \in Thread : ShouldWait(o, t) <=> status[o] # "Dead"
         /\ \A o \in Signalable : ShouldWait(o, t) <=> ~signaled[o]
         /\ \A o \in Semaphore : ShouldWait(o, t) <=> available_count[o] <= 0
         /\ \A o \in Mutex : ShouldWait(o, t) <=> lock_count[o] > 0 /\ holding_thread[o] # t
<1>1. /\ \A o \in Thread : o \notin Signalable /\ o \notin Semaphore /\ o \notin Mutex
      /\ \A o \in Signalable : o \notin Thread /\ o \notin Semaphore /\ o \notin Mutex
      /\ \A o \in Semaphore : o \notin Thread /\ o \notin Signalable /\ o \notin Mutex
      /\ \A o \in Mutex : o \notin Thread /\ o \notin Signalable /\ o \notin Semaphore
  BY ObjectAssumption DEF Signalable
<1>2. QED BY <1>1 DEF ShouldWait

LEMMA ShouldWaitCasesNext ==
  ASSUME NEW t
  PROVE  /\ \A o \in Thread : ShouldWait(o, t)' <=> status'[o] # "Dead"
         /\ \A o \in Signalable : ShouldWait(o, t)' <=> ~signaled'[o]
         /\ \A o \in Semaphore : ShouldWait(o, t)' <=> available_count'[o] <= 0
         /\ \A o \in Mutex : ShouldWait(o, t)' <=> lock_count'[o] > 0 /\ holding_thread'[o] # t
<1>1. /\ \A o \in Thread : o \notin Signalable /\ o \notin Semaphore /\ o \notin Mutex
      /\ \A o \in Signalable : o \notin Thread /\ o \notin Semaphore /\ o \notin Mutex
      /\ \A o \in Semaphore : o \notin Thread /\ o \notin Signalable /\ o \notin Mutex
      /\ \A o \in Mutex : o \notin Thread /\ o \notin Signalable /\ o \notin Semaphore
  BY ObjectAssumption DEF Signalable
<1>2. QED BY <1>1 DEF ShouldWait

\* What makes an object available to thread u is followed by the wakeup of the object,
\* and the wakeups that are on the stack stay there.
Announced(u) ==
  /\ \A x \in Thread : status'[x] = "Dead" => status[x] = "Dead" \/ Wakeup(x) \in ToSet(calls')
  /\ \A x \in Signalable : signaled'[x] => signaled[x] \/ Wakeup(x) \in ToSet(calls')
  /\ \A x \in Semaphore : \/ available_count'[x] <= available_count[x]
                          \/ Wakeup(x) \in ToSet(calls')
  /\ \A m \in Mutex : lock_count[m] > 0 /\ holding_thread[m] # u =>
                        \/ lock_count'[m] > 0 /\ holding_thread'[m] # u
                        \/ Wakeup(m) \in ToSet(calls')
WakeupsKept == \A x : Wakeup(x) \in ToSet(calls) => Wakeup(x) \in ToSet(calls')

LEMMA ShouldWaitKept ==
  ASSUME TypeOK, TypeOK', NEW u \in Thread, Announced(u), NEW o \in WaitObject, ShouldWait(o, u)
  PROVE  ShouldWait(o, u)' \/ Wakeup(o) \in ToSet(calls')
<1>1. CASE o \in Thread
  BY <1>1, ShouldWaitCases, ShouldWaitCasesNext DEF Announced
<1>2. CASE o \in Signalable
  BY <1>2, ShouldWaitCases, ShouldWaitCasesNext DEF Announced
<1>3. CASE o \in Semaphore
  <2>1. available_count[o] \in Int /\ available_count'[o] \in Int
    BY <1>3, ConstantAssumption DEF TypeOK, Int32
  <2>2. available_count[o] <= 0
    BY <1>3, ShouldWaitCases
  <2>3. available_count'[o] <= available_count[o] \/ Wakeup(o) \in ToSet(calls')
    BY <1>3 DEF Announced
  <2>4. available_count'[o] <= 0 \/ Wakeup(o) \in ToSet(calls')
    BY ONLY <2>1, <2>2, <2>3
  <2>5. QED BY <1>3, <2>4, ShouldWaitCasesNext
<1>4. CASE o \in Mutex
  BY <1>4, ShouldWaitCases, ShouldWaitCasesNext DEF Announced
<1>5. QED BY <1>1, <1>2, <1>3, <1>4 DEF WaitObject, Signalable

LEMMA AwaitedType ==
  ASSUME TypeOK, NEW t \in Thread
  PROVE  Awaited(t) \subseteq WaitObject
<1>1. \A s \in Seq(WaitObject) : ToSet(s) \subseteq WaitObject
  BY ElementOfSeq DEF ToSet
<1>2. wait_objects[t] \in Seq(WaitObject)
  BY DEF TypeOK
<1>3. Calling("AddWaitingThread") => Top.objs \in Seq(WaitObject)
  BY TopPlace, CallFields
<1>4. QED BY <1>1, <1>2, <1>3 DEF Awaited

\* A thread that keeps waiting for the same objects.
StillWaits(u) ==
  /\ InSynch(u) /\ ~Leaving(u) /\ status'[u] = status[u] /\ Awaited(u)' = Awaited(u)
  /\ Announced(u)

LEMMA LostQuiet ==
  ASSUME TypeOK, TypeOK', NoneLost, WakeupsKept,
         \A u \in Thread : InSynch(u)' /\ ~Leaving(u)' => Awaited(u)' = {} \/ StillWaits(u)
  PROVE  NoneLost'
<1> SUFFICES ASSUME NEW u \in Thread, InSynch(u)', ~Leaving(u)'
             PROVE  IF status'[u] = "WaitSynchAll"
                    THEN Awaited(u)' = {} \/ \E o \in Awaited(u)' : Covered(o, u)'
                    ELSE \A o \in Awaited(u)' : Covered(o, u)'
  BY DEF NoneLost
<1>1. CASE Awaited(u)' = {}
  BY <1>1
<1>2. CASE StillWaits(u)
  <2>1. /\ InSynch(u) /\ ~Leaving(u) /\ status'[u] = status[u] /\ Awaited(u)' = Awaited(u)
        /\ Announced(u)
    BY <1>2 DEF StillWaits
  <2>2. ASSUME NEW o \in Awaited(u), Covered(o, u) PROVE Covered(o, u)'
    <3>1. o \in WaitObject
      BY AwaitedType
    <3>2. QED BY <2>1, <2>2, <3>1, ShouldWaitKept DEF Covered, WakeupsKept
  <2>3. IF status[u] = "WaitSynchAll"
        THEN Awaited(u) = {} \/ \E o \in Awaited(u) : Covered(o, u)
        ELSE \A o \in Awaited(u) : Covered(o, u)
    BY <2>1 DEF NoneLost
  <2>4. QED BY <2>1, <2>2, <2>3
<1>3. QED BY <1>1, <1>2

\* Taking objects makes none available to another thread.
LEMMA AcquireAnnounced ==
  ASSUME TypeOK, NEW t \in Thread, NEW objs \in Seq(WaitObject), Acquire(objs, t),
         UNCHANGED status, NEW u \in Thread, u # t
  PROVE  Announced(u)
<1>1. \A x \in Signalable : signaled'[x] => signaled[x]
  BY DEF Acquire, AcquireSignals
<1>2. ASSUME NEW x \in Semaphore PROVE available_count'[x] <= available_count[x]
  <2>1. available_count' = AcquireCounts(objs)
    BY DEF Acquire
  <2>2. QED BY <2>1, AcquiredCount
<1>3. ASSUME NEW m \in Mutex, lock_count[m] > 0, holding_thread[m] # u
      PROVE  lock_count'[m] > 0 /\ holding_thread'[m] # u
  <2>1. Occurrences(m, objs) \in Nat /\ lock_count[m] \in Nat
    BY OccurrencesType DEF TypeOK
  <2>2. lock_count'[m] = lock_count[m] + Occurrences(m, objs)
    BY DEF Acquire
  <2>3. holding_thread'[m] = t \/ holding_thread'[m] = holding_thread[m]
    BY DEF Acquire
  <2>4. lock_count'[m] > 0
    BY ONLY <1>3, <2>1, <2>2
  <2>5. QED BY <1>3, <2>3, <2>4
<1>4. QED BY <1>1, <1>2, <1>3 DEF Announced

LEMMA SameAnnounced ==
  ASSUME TypeOK, NEW u \in Thread, \A x \in Thread : status'[x] = "Dead" => status[x] = "Dead",
         UNCHANGED <<signaled, available_count, lock_count, holding_thread>>
  PROVE  Announced(u)
<1>1. \A x \in Semaphore : available_count'[x] <= available_count[x]
  BY ConstantAssumption DEF TypeOK, Int32
<1>2. QED BY <1>1 DEF Announced

\* A step in which no thread enters or leaves lists.
LEMMA LostStep ==
  ASSUME TypeOK, TypeOK', NoneLost, UNCHANGED wait_objects, WakeupsKept,
         ~Calling("AddWaitingThread"), ~Calling("AddWaitingThread")',
         \A u \in Thread : InSynch(u)' /\ ~Leaving(u)' =>
           ~Leaving(u) /\ status'[u] = status[u] /\ Announced(u)
  PROVE  NoneLost'
<1>1. ASSUME NEW u \in Thread, InSynch(u)', ~Leaving(u)' PROVE StillWaits(u)
  <2>1. Awaited(u)' = Awaited(u)
    BY DEF Awaited
  <2>2. QED BY <1>1, <2>1 DEF StillWaits, InSynch
<1>2. QED BY <1>1, LostQuiet

LEMMA PopLost ==
  ASSUME TypeOK, TypeOK', Shape(calls), NoneLost, NEW op, Calling(op), Return(<<>>),
         op \notin {"AddWaitingThread", "WakeupAllWaitingThreads", "RemoveWaitingThread"},
         UNCHANGED <<wait_objects, signaled, available_count, lock_count, holding_thread>>,
         \A u \in Thread : status'[u] = status[u] \/ status'[u] = "Ready"
  PROVE  NoneLost'
<1>1. Top.op = op /\ \A x : x \in ToSet(calls) <=> x = Top \/ x \in ToSet(calls')
  BY TopPlace, PopSet
<1>2. WakeupsKept /\ \A u \in Thread : Leaving(u) => Leaving(u)'
  BY <1>1, CallOps DEF WakeupsKept, Leaving
<1>3. ~Calling("AddWaitingThread") /\ ~Calling("AddWaitingThread")'
  <2>1. ~Calling("AddWaitingThread")
    BY <1>1 DEF Calling, Top
  <2>2. QED BY <2>1, PopTop
<1>4. ASSUME NEW u \in Thread, InSynch(u)', ~Leaving(u)'
      PROVE  ~Leaving(u) /\ status'[u] = status[u] /\ Announced(u)
  <2>1. Announced(u)
    BY SameAnnounced
  <2>2. QED BY <1>2, <1>4, <2>1 DEF InSynch
<1>5. QED BY <1>2, <1>3, <1>4, LostStep

\* The last turn of a wakeup loop: the threads that are left have to wait.
LEMMA WakeupDoneLost ==
  ASSUME TypeOK, TypeOK', Shape(calls), ListInv, NoneLost, WakeupDone
  PROVE  NoneLost'
<1>0. PICK w : w = Top.obj
  OBVIOUS
<1>1. /\ Calling("WakeupAllWaitingThreads") /\ ReadyIndices(w) = {} /\ Return(<<>>)
      /\ UNCHANGED <<status, wait_objects, available_count, lock_count, holding_thread>>
      /\ \A o \in Signalable : signaled'[o] => signaled[o]
  BY <1>0 DEF WakeupDone, wait_vars, mutex_vars
<1>2. /\ Top.op = "WakeupAllWaitingThreads" /\ w \in WaitObject /\ Top = Wakeup(w)
      /\ \A x : x \in ToSet(calls) <=> x = Top \/ x \in ToSet(calls')
  BY <1>0, <1>1, TopPlace, PopSet, CallFields, CallForms
<1>3. \A u \in Thread : Leaving(u) => Leaving(u)'
  BY <1>2, CallOps DEF Leaving
<1>4. ~Calling("AddWaitingThread") /\ ~Calling("AddWaitingThread")'
  BY <1>1, <1>2, PopTop DEF Calling, Top
<1>5. AllAgree
  BY <1>2, Agree
<1> SUFFICES ASSUME NEW u \in Thread, InSynch(u)', ~Leaving(u)'
             PROVE  IF status'[u] = "WaitSynchAll"
                    THEN Awaited(u)' = {} \/ \E o \in Awaited(u)' : Covered(o, u)'
                    ELSE \A o \in Awaited(u)' : Covered(o, u)'
  BY DEF NoneLost
<1>6. /\ InSynch(u) /\ ~Leaving(u) /\ status'[u] = status[u]
      /\ Awaited(u) = ToSet(wait_objects[u]) /\ Awaited(u)' = ToSet(wait_objects[u])
  BY <1>1, <1>3, <1>4 DEF InSynch, Awaited
<1>7. ASSUME NEW o \in Awaited(u), ShouldWait(o, u) PROVE Covered(o, u)'
  <2>1. o \in WaitObject
    BY AwaitedType
  <2>2. Announced(u)
    <3>1. \A x \in Semaphore : available_count'[x] <= available_count[x]
      BY <1>1, ConstantAssumption DEF TypeOK, Int32
    <3>2. QED BY <1>1, <3>1 DEF Announced
  <2>3. QED BY <1>7, <2>1, <2>2, ShouldWaitKept DEF Covered
<1>8. ASSUME NEW o \in Awaited(u), Covered(o, u), o # w PROVE Covered(o, u)'
  <2>1. CASE ShouldWait(o, u)
    BY <1>7, <2>1
  <2>2. CASE Wakeup(o) \in ToSet(calls)
    <3>1. Wakeup(o) # Top
      <4>1. Wakeup(o).obj = o /\ Wakeup(w).obj = w
        BY CallOps
      <4>2. QED BY <1>2, <1>8, <4>1
    <3>2. QED BY <1>2, <2>2, <3>1 DEF Covered
  <2>3. QED BY <1>8, <2>1, <2>2 DEF Covered
<1>9. w \in Awaited(u) => ~CanAcquire(u, w)
  <2>1. HAVE w \in Awaited(u)
  <2>2. u \in ToSet(waiting_threads[w])
    BY <1>5, <1>6, <2>1 DEF AllAgree
  <2>3. PICK i \in DOMAIN waiting_threads[w] : waiting_threads[w][i] = u
    BY <2>2 DEF ToSet
  <2>4. QED BY <1>1, <2>3 DEF ReadyIndices
<1>10. CASE status[u] = "WaitSynchAll"
  <2>1. CASE Awaited(u) = {}
    BY <1>6, <1>10, <2>1
  <2>2. CASE \E o \in Awaited(u) : Covered(o, u)
    <3>1. PICK o \in Awaited(u) : Covered(o, u)
      BY <2>2
    <3>2. CASE o # w
      BY <1>6, <1>8, <1>10, <3>1, <3>2
    <3>3. CASE o = w
      <4>1. PICK x \in Awaited(u) : ShouldWait(x, u)
        BY <1>6, <1>9, <1>10, <3>1, <3>3 DEF CanAcquire
      <4>2. Covered(x, u)'
        BY <1>7, <4>1
      <4>3. QED BY <1>6, <1>10, <4>1, <4>2
    <3>4. QED BY <3>2, <3>3
  <2>3. QED BY <1>6, <1>10, <2>1, <2>2 DEF NoneLost
<1>11. CASE status[u] # "WaitSynchAll"
  <2>1. \A o \in Awaited(u) : Covered(o, u)
    BY <1>6, <1>11 DEF NoneLost
  <2>2. w \in Awaited(u) => Covered(w, u)'
    BY <1>7, <1>9, <1>11 DEF CanAcquire
  <2>3. \A o \in Awaited(u) : Covered(o, u)'
    BY <1>8, <2>1, <2>2
  <2>4. QED BY <1>6, <1>11, <2>3
<1>12. QED BY <1>10, <1>11

\* A thread that enters a list waits for the same objects before and after.
LEMMA AddAwaited ==
  ASSUME TypeOK, Shape(calls), AddWaitingThread
  PROVE  \A u \in Thread : Awaited(u)' = Awaited(u)
<1>0. PICK t, o, rest : t = Top.thread /\ o = Head(Top.objs) /\ rest = Tail(Top.objs)
  OBVIOUS
<1>1. /\ Calling("AddWaitingThread") /\ t \in Thread /\ o \in WaitObject
      /\ Top.objs \in Seq(WaitObject) /\ Top.objs # <<>> /\ rest \in Seq(WaitObject)
      /\ wait_objects' = [wait_objects EXCEPT ![t] = Append(@, o)]
      /\ calls' = IF rest = <<>> THEN <<>> ELSE <<Enter(t, rest)>>
  BY <1>0, AddWaitingThreadStep
<1>2. \A x : x \in ToSet(Top.objs) <=> x = o \/ x \in ToSet(rest)
  BY <1>0, <1>1, TailPlaces
<1>3. \A x : x \in ToSet(wait_objects'[t]) <=> x \in ToSet(wait_objects[t]) \/ x = o
  <2>1. wait_objects[t] \in Seq(WaitObject) /\ wait_objects'[t] = Append(wait_objects[t], o)
    BY <1>1 DEF TypeOK
  <2>2. QED BY <1>1, <2>1, AppendSet
<1>4. \A u \in Thread : u # t => wait_objects'[u] = wait_objects[u]
  BY <1>1 DEF TypeOK
<1>5. CASE rest = <<>>
  <2>1. ~Calling("AddWaitingThread")' /\ \A x : x \notin ToSet(rest)
    BY <1>1, <1>5, SmallSets DEF Calling
  <2>2. /\ Awaited(t)' = ToSet(wait_objects'[t])
        /\ Awaited(t) = ToSet(wait_objects[t]) \cup ToSet(Top.objs)
    BY <1>1, <1>0, <2>1 DEF Awaited
  <2>3. Awaited(t)' = Awaited(t)
    BY <1>2, <1>3, <2>1, <2>2
  <2>4. \A u \in Thread : u # t => Awaited(u)' = Awaited(u)
    BY <1>4, <1>0, <2>1 DEF Awaited
  <2>5. QED BY <2>3, <2>4
<1>6. CASE rest # <<>>
  <2>1. Calling("AddWaitingThread")' /\ Top'.thread = t /\ Top'.objs = rest
    BY <1>1, <1>6, OneCall, CallOps
  <2>2. /\ Awaited(t)' = ToSet(wait_objects'[t]) \cup ToSet(rest)
        /\ Awaited(t) = ToSet(wait_objects[t]) \cup ToSet(Top.objs)
    BY <1>1, <1>0, <2>1 DEF Awaited
  <2>3. Awaited(t)' = Awaited(t)
    BY <1>2, <1>3, <2>2
  <2>4. \A u \in Thread : u # t => Awaited(u)' = Awaited(u)
    BY <1>4, <1>0, <2>1 DEF Awaited
  <2>5. QED BY <2>3, <2>4
<1>7. QED BY <1>5, <1>6

LEMMA AddWaitingThreadLost ==
  ASSUME TypeOK, TypeOK', Shape(calls), NoneLost, AddWaitingThread
  PROVE  NoneLost'
<1>0. PICK t, o, rest : t = Top.thread /\ o = Head(Top.objs) /\ rest = Tail(Top.objs)
  OBVIOUS
<1>1. /\ Calling("AddWaitingThread") /\ t \in Thread /\ o \in WaitObject
      /\ Top.objs \in Seq(WaitObject) /\ Top.objs # <<>> /\ rest \in Seq(WaitObject)
      /\ wait_objects' = [wait_objects EXCEPT ![t] = Append(@, o)]
      /\ Len(calls) = 1
      /\ calls' = IF rest = <<>> THEN <<>> ELSE <<Enter(t, rest)>>
      /\ UNCHANGED <<status, timer_vars, available_count, lock_count, holding_thread>>
  BY <1>0, AddWaitingThreadStep
<1>2. Top.op = "AddWaitingThread" /\ \A x \in ToSet(calls) : x = Top
  <2>1. calls \in Seq(Call) /\ Top = calls[1] /\ Top.op = "AddWaitingThread"
    BY <1>1, TopPlace
  <2>2. QED BY <1>1, <2>1, InToSet
<1>3. WakeupsKept /\ \A u \in Thread : ~Leaving(u)
  BY <1>2, CallOps DEF WakeupsKept, Leaving
<1>4. \A u \in Thread : Awaited(u)' = Awaited(u)
  BY AddAwaited
<1>5. ASSUME NEW u \in Thread, InSynch(u)', ~Leaving(u)' PROVE StillWaits(u)
  <2>1. Announced(u)
    BY <1>1, SameAnnounced DEF timer_vars
  <2>2. QED BY <1>1, <1>3, <1>4, <1>5, <2>1 DEF StillWaits, InSynch
<1>6. QED BY <1>3, <1>5, LostQuiet

LEMMA RemoveWaitingThreadLost ==
  ASSUME TypeOK, TypeOK', Shape(calls), NoneLost, RemoveWaitingThread
  PROVE  NoneLost'
<1>0. PICK t : t = Top.thread
  OBVIOUS
<1>1. /\ Calling("RemoveWaitingThread") /\ t \in Thread /\ Top = Leave(t)
      /\ UNCHANGED <<status, timer_vars, available_count, lock_count, holding_thread>>
      /\ \/ /\ wait_objects[t] = <<>> /\ Return(<<>>)
            /\ UNCHANGED <<wait_objects, waiting_threads>>
         \/ /\ wait_objects[t] # <<>> /\ UNCHANGED calls
            /\ wait_objects' = [wait_objects EXCEPT ![t] = Tail(wait_objects[t])]
  BY <1>0, RemoveWaitingThreadStep
<1>2. Top.op = "RemoveWaitingThread" /\ ~Calling("AddWaitingThread")
  BY <1>1, CallOps DEF Calling, Top
<1>3. \A u \in Thread : u # t => wait_objects'[u] = wait_objects[u]
  BY <1>1 DEF TypeOK
<1>4. \A u \in Thread : Announced(u)
  BY <1>1, SameAnnounced DEF timer_vars
<1>5. CASE wait_objects[t] = <<>> /\ Return(<<>>) /\ UNCHANGED wait_objects
  <2>1. \A x : x \in ToSet(calls) <=> x = Top \/ x \in ToSet(calls')
    BY <1>1, <1>5, PopSet
  <2>2. WakeupsKept /\ \A u \in Thread : u # t /\ Leaving(u) => Leaving(u)'
    BY <1>1, <2>1, CallOps DEF WakeupsKept, Leaving
  <2>3. ~Calling("AddWaitingThread")'
    BY <1>1, <1>5, PopTop
  <2>4. Awaited(t)' = {}
    BY <1>5, <2>3, SmallSets DEF Awaited
  <2>5. ASSUME NEW u \in Thread, u # t, InSynch(u)', ~Leaving(u)' PROVE StillWaits(u)
    <3>1. Awaited(u)' = Awaited(u)
      BY <1>2, <1>5, <2>3 DEF Awaited
    <3>2. QED BY <1>1, <1>4, <2>2, <2>5, <3>1 DEF StillWaits, InSynch
  <2>6. QED BY <2>2, <2>4, <2>5, LostQuiet
<1>6. CASE UNCHANGED calls
  <2>1. WakeupsKept /\ ~Calling("AddWaitingThread")'
    BY <1>2, <1>6 DEF WakeupsKept, Calling
  <2>2. Leaving(t)'
    BY <1>1, <1>6, TopSet DEF Leaving
  <2>3. ASSUME NEW u \in Thread, InSynch(u)', ~Leaving(u)' PROVE StillWaits(u)
    <3>1. u # t
      BY <2>2, <2>3
    <3>2. Awaited(u)' = Awaited(u)
      BY <1>2, <1>3, <2>1, <3>1 DEF Awaited
    <3>3. QED BY <1>1, <1>4, <1>6, <2>3, <3>2 DEF StillWaits, InSynch, Leaving
  <2>4. QED BY <2>1, <2>3, LostQuiet
<1>7. QED BY <1>1, <1>5, <1>6

LEMMA StopLost ==
  ASSUME TypeOK, TypeOK', NoneLost, NEW t \in Thread, NEW more \in Seq(Call), Stop(t, more),
         \A x \in ToSet(calls) : x.op = "TerminateProcessThreads"
  PROVE  NoneLost'
<1>1. /\ status' = [status EXCEPT ![t] = "Dead"]
      /\ UNCHANGED <<wait_objects, signaled, available_count, lock_count, holding_thread>>
  BY DEF Stop, wait_vars, timer_vars, mutex_vars
<1>2. WakeupsKept /\ (\A u \in Thread : ~Leaving(u)) /\ Wakeup(t) \in ToSet(calls')
  BY StopSet, CallOps DEF WakeupsKept, Leaving
<1>3. ~Calling("AddWaitingThread") /\ ~Calling("AddWaitingThread")'
  <2>1. calls # <<>> => Head(calls) \in ToSet(calls)
    BY TailPlaces DEF TypeOK
  <2>2. QED BY <2>1, StopTop DEF Calling
<1>4. ASSUME NEW u \in Thread, InSynch(u)' PROVE status'[u] = status[u] /\ Announced(u)
  <2>1. \A x \in Thread : x # t => status'[x] = status[x]
    BY <1>1 DEF TypeOK
  <2>2. status'[t] = "Dead"
    BY <1>1 DEF TypeOK
  <2>3. \A x \in Semaphore : available_count'[x] <= available_count[x]
    BY <1>1, ConstantAssumption DEF TypeOK, Int32
  <2>4. Announced(u)
    BY <1>1, <1>2, <2>1, <2>3 DEF Announced
  <2>5. QED BY <1>4, <2>1, <2>2, <2>4 DEF InSynch
<1>5. QED BY <1>1, <1>2, <1>3, <1>4, LostStep

LEMMA KernelCallLost ==
  ASSUME TypeOK, TypeOK', Shape(calls), ListInv, NoneLost, KernelCall
  PROVE  NoneLost'
<1>1. CASE WakeupOne
  <2>1. PICK t \in Thread, objs \in Seq(WaitObject) :
          Acquire(objs, t) /\ calls' = WakingCalls(t) \o calls
    BY <1>1, WakeupOneStep
  <2>2. Calling("WakeupAllWaitingThreads") /\ UNCHANGED <<status, wait_objects>>
    BY <1>1, WakeupOneStep
  <2> DEFINE s == WakingCalls(t)
  <2>3. /\ s \in Seq(Call) /\ Len(s) \in Nat \ {0} /\ s[1] = Leave(t) /\ calls \in Seq(Call)
        /\ Top.op = "WakeupAllWaitingThreads" /\ calls' = s \o calls
    BY <2>1, <2>2, MadeSequences, TopPlace DEF WakingCalls
  <2>4. s[1] \in Call
    BY <2>3, ElementOfSeq
  <2>5. \A x : x \in ToSet(s) <=> x = Leave(t) \/ x = Resume(t)
    BY SmallSets
  <2> HIDE DEF s
  <2>6. \A x : x \in ToSet(calls') <=> x = Leave(t) \/ x = Resume(t) \/ x \in ToSet(calls)
    BY <2>3, <2>5, PushSet
  <2>7. WakeupsKept /\ Leaving(t)' /\ \A u \in Thread : Leaving(u) => Leaving(u)'
    BY <2>6 DEF WakeupsKept, Leaving
  <2>8. ~Calling("AddWaitingThread") /\ ~Calling("AddWaitingThread")'
    <3>1. ~Calling("AddWaitingThread")
      BY <2>3 DEF Calling, Top
    <3>2. \A op : Calling(op)' => op = s[1].op
      BY <2>3, <2>4, PushTop
    <3>3. QED BY <2>3, <3>1, <3>2, CallOps
  <2>9. ASSUME NEW u \in Thread, ~Leaving(u)'
        PROVE  ~Leaving(u) /\ status'[u] = status[u] /\ Announced(u)
    <3>1. u # t /\ ~Leaving(u)
      BY <2>7, <2>9
    <3>2. Announced(u)
      BY <2>1, <2>2, <3>1, AcquireAnnounced
    <3>3. QED BY <2>2, <3>1, <3>2
  <2>10. QED BY <2>2, <2>7, <2>8, <2>9, LostStep
<1>2. CASE ResumeFromWait
  <2>1. /\ Calling("ResumeFromWait") /\ Return(<<>>)
        /\ UNCHANGED <<wait_objects, signaled, available_count, lock_count, holding_thread>>
        /\ status' = [status EXCEPT ![Top.thread] = "Ready"] \/ UNCHANGED status
    BY <1>2 DEF ResumeFromWait, wait_vars, timer_vars, mutex_vars
  <2>2. \A u \in Thread : status'[u] = status[u] \/ status'[u] = "Ready"
    BY <2>1 DEF TypeOK
  <2>3. QED BY <2>1, <2>2, PopLost
<1>3. CASE RearmTimer
  <2>1. /\ Calling("RearmTimer") /\ Return(<<>>)
        /\ UNCHANGED <<wait_objects, signaled, available_count, lock_count, holding_thread, status>>
    BY <1>3 DEF RearmTimer, wait_vars, mutex_vars
  <2>2. QED BY <2>1, PopLost
<1>4. CASE ReleaseThreadMutexes
  <2>1. /\ Calling("ReleaseThreadMutexes")
        /\ UNCHANGED <<status, wait_objects, signaled, available_count>>
    BY <1>4 DEF ReleaseThreadMutexes, wait_vars, timer_vars
  <2>2. CASE Return(<<>>) /\ UNCHANGED <<lock_count, holding_thread>>
    BY <2>1, <2>2, PopLost
  <2>3. ASSUME NEW m \in HeldMutexes(Top.thread), calls' = <<Wakeup(m)>> \o calls,
               lock_count' = [lock_count EXCEPT ![m] = 0],
               holding_thread' = [holding_thread EXCEPT ![m] = NoThread]
        PROVE  NoneLost'
    <3> DEFINE s == <<Wakeup(m)>>
    <3>1. /\ Wakeup(m) \in Call /\ calls \in Seq(Call)
          /\ Top.op = "ReleaseThreadMutexes" /\ m \in Mutex
      BY <2>1, MadeCalls, TopPlace DEF HeldMutexes, WaitObject
    <3>2. s \in Seq(Call) /\ Len(s) \in Nat \ {0} /\ s[1] = Wakeup(m) /\ calls' = s \o calls
      BY <2>3, <3>1
    <3>3. \A x : x \in ToSet(s) <=> x = Wakeup(m)
      BY SmallSets
    <3> HIDE DEF s
    <3>4. \A x : x \in ToSet(calls') <=> x = Wakeup(m) \/ x \in ToSet(calls)
      BY <3>1, <3>2, <3>3, PushSet
    <3>5. /\ WakeupsKept /\ Wakeup(m) \in ToSet(calls')
          /\ \A u \in Thread : Leaving(u) => Leaving(u)'
      BY <3>4 DEF WakeupsKept, Leaving
    <3>6. ~Calling("AddWaitingThread") /\ ~Calling("AddWaitingThread")'
      <4>1. ~Calling("AddWaitingThread")
        BY <3>1 DEF Calling, Top
      <4>2. \A op : Calling(op)' => op = s[1].op
        BY <3>1, <3>2, PushTop
      <4>3. QED BY <3>2, <4>1, <4>2, CallOps
    <3>7. ASSUME NEW u \in Thread PROVE Announced(u)
      <4>1. \A n \in Mutex : n # m => /\ lock_count'[n] = lock_count[n]
                                   /\ holding_thread'[n] = holding_thread[n]
        BY <2>3, <3>1 DEF TypeOK
      <4>2. \A x \in Semaphore : available_count'[x] <= available_count[x]
        BY <2>1, ConstantAssumption DEF TypeOK, Int32
      <4>3. QED BY <2>1, <3>5, <4>1, <4>2 DEF Announced
    <3>8. QED BY <2>1, <3>5, <3>6, <3>7, LostStep
  <2>4. QED BY <1>4, <2>2, <2>3 DEF ReleaseThreadMutexes
<1>5. CASE UpdatePendingMutexes
  <2>1. /\ Calling("UpdatePending")
        /\ UNCHANGED <<status, wait_objects, signaled, available_count, lock_count, holding_thread>>
    BY <1>5 DEF UpdatePendingMutexes, wait_vars, timer_vars
  <2>2. Top.op = "UpdatePending" /\ \A x \in ToSet(calls) : x = Top
    <3>1. calls \in Seq(Call) /\ Top = calls[1] /\ Top.op = "UpdatePending" /\ ShapeAt(calls, 1)
      BY <2>1, TopPlace DEF Shape
    <3>2. Len(calls) = 1
      BY <3>1 DEF ShapeAt
    <3>3. QED BY <3>1, <3>2, InToSet
  <2>3. WakeupsKept /\ \A u \in Thread : ~Leaving(u)
    BY <2>2, CallOps DEF WakeupsKept, Leaving
  <2>4. ~Calling("AddWaitingThread") /\ ~Calling("AddWaitingThread")'
    <3>1. calls' = <<>> \/ \E ms : calls' = <<UpdatePending(ms)>>
      BY <1>5, UpdatePendingCalls
    <3>2. calls' = <<>> \/ Head(calls').op = "UpdatePending"
      BY <3>1, CallOps
    <3>3. QED BY <2>2, <3>2 DEF Calling, Top
  <2>5. \A u \in Thread : Announced(u)
    BY <2>1, SameAnnounced
  <2>6. QED BY <2>1, <2>3, <2>4, <2>5, LostStep
<1>6. CASE TerminateProcessThreads
  <2>1. Calling("TerminateProcessThreads")
    BY <1>6, TerminateStep
  <2>2. \A x \in ToSet(calls) : x.op = "TerminateProcessThreads"
    <3>1. calls \in Seq(Call)
      BY DEF TypeOK
    <3>2. QED BY <2>1, <3>1, TerminateStack, InToSet
  <2>3. ASSUME NEW t \in Thread, NEW more \in {calls, Tail(calls)}, Stop(t, more) PROVE NoneLost'
    <3>1. more \in Seq(Call)
      BY <2>1, TopPlace
    <3>2. QED BY <2>2, <2>3, <3>1, StopLost
  <2>4. CASE /\ Return(<<>>)
             /\ UNCHANGED <<status, wait_vars, timer_vars, available_count, mutex_vars>>
    <3>1. UNCHANGED <<wait_objects, signaled, available_count, lock_count, holding_thread, status>>
      BY <2>4 DEF wait_vars, timer_vars, mutex_vars
    <3>2. QED BY <2>1, <2>4, <3>1, PopLost
  <2>5. QED BY <1>6, <2>3, <2>4, TerminateStep DEF StopsOne
<1>7. QED
  BY <1>1, <1>2, <1>3, <1>4, <1>5, <1>6, WakeupDoneLost, AddWaitingThreadLost,
     RemoveWaitingThreadLost DEF KernelCall

\* A step from an empty stack.
LEMMA LostIdle ==
  ASSUME TypeOK, TypeOK', NoneLost, calls = <<>>, UNCHANGED wait_objects,
         ~Calling("AddWaitingThread")',
         \A u \in Thread : InSynch(u)' /\ ~Leaving(u)' => status'[u] = status[u] /\ Announced(u)
  PROVE  NoneLost'
<1>1. WakeupsKept /\ \A u \in Thread : ~Leaving(u)
  BY SmallSets DEF WakeupsKept, Leaving
<1>2. ~Calling("AddWaitingThread")
  BY DEF Calling
<1>3. QED BY <1>1, <1>2, LostStep

\* A thread that asks for objects takes them, is refused, or goes to wait.
LEMMA WaitSynchronizationStep ==
  ASSUME TypeOK, NEW t \in Thread, NEW objs \in WaitLists[t], NEW wait_all \in BOOLEAN,
         NEW timeout \in Timeouts, WaitSynchronization(t, objs, wait_all, timeout)
  PROVE  /\ Guest(t) /\ objs \in Seq(WaitObject)
         /\ UNCHANGED <<nominal_priority, wait_objects, waiting_threads, current_thread,
                        timer_events, interval, process_status, loop_vars>>
         /\ \/ /\ \E got \in Seq(WaitObject) : Acquire(got, t)
               /\ UNCHANGED <<status, wakeups, calls>>
            \/ /\ ~Available(objs, t, wait_all)
               /\ UNCHANGED <<current_priority, ready_queue, signaled, available_count, mutex_vars>>
               /\ \/ UNCHANGED <<status, wakeups, calls, halt_vars>>
                  \/ /\ status' = [status EXCEPT ![t] = IF wait_all THEN "WaitSynchAll"
                                                        ELSE "WaitSynchAny"]
                     /\ calls' = IF objs = <<>> THEN <<>> ELSE <<Enter(t, objs)>>
                     /\ PrepareReschedule
<1>1. /\ Guest(t) /\ objs \in Seq(WaitObject)
      /\ UNCHANGED <<nominal_priority, wait_objects, waiting_threads, current_thread,
                     timer_events, interval, process_status, loop_vars>>
  BY ConstantAssumption DEF WaitSynchronization
<1>2. CASE Available(objs, t, wait_all)
  <2> DEFINE I == {i \in 1 .. Len(objs) : ~ShouldWait(objs[i], t)}
             first == SelectInSeq(objs, LAMBDA o : ~ShouldWait(o, t))
             got == IF wait_all THEN objs ELSE <<objs[first]>>
  <2>1. Acquire(got, t) /\ UNCHANGED <<status, wakeups, calls>>
    BY <1>2 DEF WaitSynchronization
  <2>2. ~wait_all => first \in 1 .. Len(objs)
    <3>1. HAVE ~wait_all
    <3>2. I # {} /\ I \in SUBSET Nat
      BY <1>1, <1>2, <3>1 DEF Available
    <3>3. Min(I) \in I
      BY <3>2, MinIsLeast
    <3>4. first = Min(I)
      BY <3>2 DEF SelectInSeq
    <3>5. QED BY <3>3, <3>4
  <2> HIDE DEF first
  <2>3. got \in Seq(WaitObject)
    BY <1>1, <2>2
  <2> HIDE DEF got
  <2>4. QED BY <1>1, <2>1, <2>3
<1>3. CASE ~Available(objs, t, wait_all)
  <2>1. UNCHANGED <<current_priority, ready_queue, signaled, available_count, mutex_vars>>
    BY <1>3 DEF WaitSynchronization
  <2>2. \/ UNCHANGED <<status, wakeups, calls, halt_vars>>
        \/ /\ status' = [status EXCEPT ![t] = IF wait_all THEN "WaitSynchAll"
                                              ELSE "WaitSynchAny"]
           /\ calls' = IF objs = <<>> THEN <<>> ELSE <<Enter(t, objs)>>
           /\ PrepareReschedule
    BY <1>3 DEF WaitSynchronization
  <2>3. QED BY <1>1, <1>3, <2>1, <2>2
<1>4. QED BY <1>2, <1>3

LEMMA WaitSynchronizationLost ==
  ASSUME TypeOK, TypeOK', Scheduled, ListInv, NoneLost, NEW t \in Thread,
         NEW objs \in WaitLists[t], NEW wait_all \in BOOLEAN, NEW timeout \in Timeouts,
         WaitSynchronization(t, objs, wait_all, timeout)
  PROVE  NoneLost'
<1>1. Guest(t) /\ objs \in Seq(WaitObject) /\ UNCHANGED wait_objects
  BY WaitSynchronizationStep
<1>2. calls = <<>> /\ ~InSynch(t) /\ wait_objects[t] = <<>>
  <2>1. calls = <<>> /\ status[t] \in {"Running", "Dead"}
    BY <1>1, GuestThread DEF Guest
  <2>2. QED BY <2>1, NoneLeaving, SmallSets DEF InSynch
<1>3. ASSUME NEW got \in Seq(WaitObject), Acquire(got, t), UNCHANGED <<status, calls>>
      PROVE  NoneLost'
  <2>1. ~Calling("AddWaitingThread")'
    BY <1>2, <1>3 DEF Calling
  <2>2. ASSUME NEW u \in Thread, InSynch(u)' PROVE status'[u] = status[u] /\ Announced(u)
    <3>1. u # t
      BY <1>2, <1>3, <2>2 DEF InSynch
    <3>2. QED BY <1>3, <3>1, AcquireAnnounced
  <2>3. QED BY <1>1, <1>2, <2>1, <2>2, LostIdle
<1>4. ASSUME UNCHANGED <<status, calls, signaled, available_count, mutex_vars>> PROVE NoneLost'
  <2>1. ~Calling("AddWaitingThread")'
    BY <1>2, <1>4 DEF Calling
  <2>2. \A u \in Thread : Announced(u)
    BY <1>4, SameAnnounced DEF mutex_vars
  <2>3. QED BY <1>1, <1>2, <1>4, <2>1, <2>2, LostIdle
<1>5. ASSUME ~Available(objs, t, wait_all), UNCHANGED <<signaled, available_count, mutex_vars>>,
             status' = [status EXCEPT ![t] = IF wait_all THEN "WaitSynchAll" ELSE "WaitSynchAny"],
             calls' = IF objs = <<>> THEN <<>> ELSE <<Enter(t, objs)>>
      PROVE  NoneLost'
  <2>1. /\ status'[t] = IF wait_all THEN "WaitSynchAll" ELSE "WaitSynchAny"
        /\ \A u \in Thread : u # t => status'[u] = status[u]
    BY <1>5 DEF TypeOK
  <2>2. \A u \in Thread : Announced(u)
    BY <1>5, <2>1, SameAnnounced DEF mutex_vars
  <2>3. Awaited(t)' = ToSet(objs) /\ \A u \in Thread : u # t => Awaited(u)' = Awaited(u)
    <3>0. ~Calling("AddWaitingThread")
      BY <1>2 DEF Calling
    <3>1. CASE objs = <<>>
      <4>1. ~Calling("AddWaitingThread")'
        BY <1>5, <3>1 DEF Calling
      <4>2. QED BY <1>1, <1>2, <3>0, <3>1, <4>1 DEF Awaited
    <3>2. CASE objs # <<>>
      <4>1. Calling("AddWaitingThread")' /\ Top'.thread = t /\ Top'.objs = objs
        BY <1>5, <3>2, OneCall, CallOps
      <4>2. ToSet(wait_objects'[t]) = {}
        BY <1>1, <1>2, SmallSets
      <4>3. QED BY <1>1, <3>0, <4>1, <4>2 DEF Awaited
    <3>3. QED BY <3>1, <3>2
  <2>4. WakeupsKept /\ \A u \in Thread : ~Leaving(u)
    BY <1>2, SmallSets DEF WakeupsKept, Leaving
  <2>5. ASSUME NEW o \in Awaited(t)', ShouldWait(o, t) PROVE Covered(o, t)'
    <3>1. o \in WaitObject
      BY <1>1, <2>3, ElementOfSeq DEF ToSet
    <3>2. QED BY <2>2, <2>5, <3>1, ShouldWaitKept DEF Covered
  <2>6. IF status'[t] = "WaitSynchAll"
        THEN Awaited(t)' = {} \/ \E o \in Awaited(t)' : Covered(o, t)'
        ELSE \A o \in Awaited(t)' : Covered(o, t)'
    <3>1. CASE wait_all
      <4>1. PICK i \in DOMAIN objs : ShouldWait(objs[i], t)
        BY <1>5, <3>1 DEF Available
      <4>2. objs[i] \in Awaited(t)'
        BY <2>3 DEF ToSet
      <4>3. QED BY <2>1, <2>5, <3>1, <4>1, <4>2
    <3>2. CASE ~wait_all
      <4>1. \A i \in DOMAIN objs : ShouldWait(objs[i], t)
        BY <1>5, <3>2 DEF Available
      <4>2. \A o \in Awaited(t)' : ShouldWait(o, t)
        BY <2>3, <4>1 DEF ToSet
      <4>3. QED BY <2>1, <2>5, <3>2, <4>2
    <3>3. QED BY <3>1, <3>2
  <2>7. ASSUME NEW u \in Thread, u # t, InSynch(u)'
        PROVE  IF status'[u] = "WaitSynchAll"
               THEN Awaited(u)' = {} \/ \E o \in Awaited(u)' : Covered(o, u)'
               ELSE \A o \in Awaited(u)' : Covered(o, u)'
    <3>1. InSynch(u) /\ ~Leaving(u) /\ status'[u] = status[u] /\ Awaited(u)' = Awaited(u)
      BY <2>1, <2>3, <2>4, <2>7 DEF InSynch
    <3>2. ASSUME NEW o \in Awaited(u), Covered(o, u) PROVE Covered(o, u)'
      <4>1. o \in WaitObject
        BY AwaitedType
      <4>2. QED BY <2>2, <2>4, <3>2, <4>1, ShouldWaitKept DEF Covered, WakeupsKept
    <3>3. IF status[u] = "WaitSynchAll"
          THEN Awaited(u) = {} \/ \E o \in Awaited(u) : Covered(o, u)
          ELSE \A o \in Awaited(u) : Covered(o, u)
      BY <3>1 DEF NoneLost
    <3>4. QED BY <3>1, <3>2, <3>3
  <2>8. QED BY <2>6, <2>7 DEF NoneLost
<1>6. QED BY <1>3, <1>4, <1>5, WaitSynchronizationStep

LEMMA SystemCallLost ==
  ASSUME TypeOK, TypeOK', Scheduled, ListInv, NoneLost, NEW t \in Thread, SystemCall(t)
  PROVE  NoneLost'
<1>0. ASSUME Guest(t) PROVE calls = <<>> /\ ~InSynch(t)
  BY <1>0, GuestThread DEF Guest, InSynch
<1>1. ASSUME Guest(t), UNCHANGED <<status, wait_objects>>, \A u \in Thread : Announced(u),
             \/ calls' = <<>>
             \/ \E c : /\ calls' = <<c>> \/ \E d : calls' = <<c, d>>
                       /\ c.op # "AddWaitingThread"
      PROVE  NoneLost'
  <2>1. ~Calling("AddWaitingThread")'
    <3>1. CASE calls' = <<>>
      BY <3>1 DEF Calling
    <3>2. CASE calls' # <<>>
      BY <1>1, <3>2, OneCall
    <3>3. QED BY <3>1, <3>2
  <2>2. QED BY <1>0, <1>1, <2>1, LostIdle
<1>2. ASSUME NEW timeout, SleepThread(t, timeout) PROVE NoneLost'
  <2>1. /\ Guest(t) /\ status' = [status EXCEPT ![t] = "WaitSleep"]
        /\ UNCHANGED <<wait_objects, calls, signaled, available_count, lock_count, holding_thread>>
    BY <1>2 DEF SleepThread, wait_vars, timer_vars, mutex_vars
  <2>2. \A u \in Thread : (u # t => status'[u] = status[u]) /\ status'[t] = "WaitSleep"
    BY <2>1 DEF TypeOK
  <2>3. \A u \in Thread : Announced(u)
    BY <2>1, <2>2, SameAnnounced
  <2>4. calls = <<>> /\ ~Calling("AddWaitingThread")'
    BY <1>0, <2>1 DEF Calling
  <2>5. \A u \in Thread : InSynch(u)' => status'[u] = status[u]
    BY <2>2 DEF InSynch
  <2>6. QED BY <2>1, <2>3, <2>4, <2>5, LostIdle
<1>3. ASSUME NEW o \in Signalable, Clear(t, o) PROVE NoneLost'
  <2>1. /\ Guest(t) /\ signaled' = [signaled EXCEPT ![o] = FALSE]
        /\ UNCHANGED <<status, wait_objects, calls, available_count, lock_count, holding_thread>>
    BY <1>3 DEF Clear, wait_vars, mutex_vars
  <2>2. ASSUME NEW u \in Thread PROVE Announced(u)
    <3>1. \A x \in Semaphore : available_count'[x] <= available_count[x]
      BY <2>1, ConstantAssumption DEF TypeOK, Int32
    <3>2. \A x \in Signalable : signaled'[x] => signaled[x]
      BY <2>1 DEF TypeOK
    <3>3. QED BY <2>1, <3>1, <3>2 DEF Announced
  <2>3. QED BY <1>0, <1>1, <2>1, <2>2
<1>4. ASSUME NEW o \in Timer, NEW delayed \in BOOLEAN, NEW periodic,
             SetTimer(t, o, delayed, periodic)
      PROVE  NoneLost'
  <2>1. /\ Guest(t) /\ signaled' = [signaled EXCEPT ![o] = signaled[o] \/ ~delayed]
        /\ calls' = IF delayed THEN <<>> ELSE <<Wakeup(o), Rearm(o)>>
        /\ UNCHANGED <<status, wait_objects, available_count, lock_count, holding_thread>>
    BY <1>4 DEF SetTimer, wait_vars, mutex_vars
  <2>2. ASSUME NEW u \in Thread PROVE Announced(u)
    <3>1. \A x \in Semaphore : available_count'[x] <= available_count[x]
      BY <2>1, ConstantAssumption DEF TypeOK, Int32
    <3>2. ~delayed => Wakeup(o) \in ToSet(calls')
      BY <2>1, SmallSets
    <3>3. \A x \in Signalable : signaled'[x] => signaled[x] \/ (x = o /\ ~delayed)
      BY <2>1 DEF TypeOK
    <3>4. QED BY <2>1, <3>1, <3>2, <3>3 DEF Announced
  <2>3. QED BY <1>1, <2>1, <2>2, CallOps
<1>5. ASSUME NEW o \in Timer, CancelTimer(t, o) PROVE NoneLost'
  <2>1. /\ Guest(t)
        /\ UNCHANGED <<status, wait_objects, calls, signaled, available_count, lock_count,
                       holding_thread>>
    BY <1>5 DEF CancelTimer, wait_vars, mutex_vars
  <2>2. \A u \in Thread : Announced(u)
    BY <2>1, SameAnnounced
  <2>3. QED BY <1>0, <1>1, <2>1, <2>2
<1>6. ASSUME NEW s \in Semaphore, NEW n \in ReleaseCounts, ReleaseSemaphore(t, s, n) PROVE NoneLost'
  <2>1. /\ Guest(t) /\ \E k : available_count' = [available_count EXCEPT ![s] = k]
        /\ calls' = <<Wakeup(s)>>
        /\ UNCHANGED <<status, wait_objects, signaled, lock_count, holding_thread>>
    BY <1>6 DEF ReleaseSemaphore, wait_vars, timer_vars, mutex_vars
  <2>2. ASSUME NEW u \in Thread PROVE Announced(u)
    <3>1. ASSUME NEW x \in Semaphore, x # s PROVE available_count'[x] <= available_count[x]
      <4>1. available_count[x] \in Int
        BY ConstantAssumption DEF TypeOK, Int32
      <4>2. available_count'[x] = available_count[x]
        BY <2>1, <3>1 DEF TypeOK
      <4>3. QED BY <4>1, <4>2
    <3>2. Wakeup(s) \in ToSet(calls')
      BY <2>1, SmallSets
    <3>3. QED BY <2>1, <3>1, <3>2 DEF Announced
  <2>3. QED BY <1>1, <2>1, <2>2, CallOps
<1>7. ASSUME NEW m \in Mutex, ReleaseMutex(t, m) PROVE NoneLost'
  <2>1. /\ Guest(t) /\ lock_count[m] > 0
        /\ lock_count' = [lock_count EXCEPT ![m] = lock_count[m] - 1]
        /\ UNCHANGED <<status, wait_objects, signaled, available_count>>
        /\ \/ lock_count[m] > 1 /\ UNCHANGED <<holding_thread, calls>>
           \/ /\ holding_thread' = [holding_thread EXCEPT ![m] = NoThread]
              /\ calls' = <<Wakeup(m)>>
    BY <1>7 DEF ReleaseMutex, wait_vars, timer_vars
  <2>2. ASSUME NEW u \in Thread PROVE Announced(u)
    <3>1. \A x \in Semaphore : available_count'[x] <= available_count[x]
      BY <2>1, ConstantAssumption DEF TypeOK, Int32
    <3>2. \A x \in Mutex : x # m =>
            lock_count'[x] = lock_count[x] /\ holding_thread'[x] = holding_thread[x]
      BY <2>1 DEF TypeOK
    <3>3. \/ lock_count'[m] > 0 /\ holding_thread'[m] = holding_thread[m]
          \/ Wakeup(m) \in ToSet(calls')
      <4>1. lock_count[m] \in Nat /\ lock_count'[m] = lock_count[m] - 1
        BY <2>1 DEF TypeOK
      <4>2. lock_count[m] > 1 => lock_count'[m] > 0
        BY ONLY <4>1
      <4>3. QED BY <2>1, <4>2, SmallSets
    <3>4. QED BY <2>1, <3>1, <3>2, <3>3 DEF Announced
  <2>3. QED BY <1>0, <1>1, <2>1, <2>2, CallOps
<1>8. ASSUME NEW u \in Thread, NEW p, SetThreadPriority(t, u, p) PROVE NoneLost'
  <2>1. /\ Guest(t) /\ \E ms : calls' = <<UpdatePending(ms)>>
        /\ UNCHANGED <<status, wait_objects, signaled, available_count, lock_count, holding_thread>>
    BY <1>8 DEF SetThreadPriority, wait_vars, timer_vars, mutex_vars
  <2>2. \A v \in Thread : Announced(v)
    BY <2>1, SameAnnounced
  <2>3. QED BY <1>1, <2>1, <2>2, CallOps
<1>9. ASSUME NEW u \in Thread, NEW p, CreateThread(t, u, p) PROVE NoneLost'
  <2>1. /\ Guest(t) /\ status[u] = "Unborn"
        /\ \E st \in {"Ready", "Dormant"} : status' = [status EXCEPT ![u] = st]
        /\ UNCHANGED <<wait_objects, calls, signaled, available_count, lock_count, holding_thread>>
    BY <1>9 DEF CreateThread, wait_vars, timer_vars, mutex_vars
  <2>2. \A v \in Thread : (v # u => status'[v] = status[v]) /\ status'[u] \in {"Ready", "Dormant"}
    BY <2>1 DEF TypeOK
  <2>3. \A v \in Thread : Announced(v)
    BY <2>1, <2>2, SameAnnounced
  <2>4. calls = <<>> /\ ~Calling("AddWaitingThread")'
    BY <1>0, <2>1 DEF Calling
  <2>5. \A v \in Thread : InSynch(v)' => status'[v] = status[v]
    BY <2>2 DEF InSynch
  <2>6. QED BY <2>1, <2>3, <2>4, <2>5, LostIdle
<1>10. ASSUME ExitThread(t) PROVE NoneLost'
  <2>1. Stop(t, <<>>) /\ calls = <<>> /\ <<>> \in Seq(Call)
    BY <1>10 DEF ExitThread, Guest
  <2>2. \A x \in ToSet(calls) : x.op = "TerminateProcessThreads"
    BY <2>1, SmallSets
  <2>3. QED BY <2>1, <2>2, StopLost, Zenon
<1>11. ASSUME NEW p \in Kills[OwnerOf[t]], TerminateProcess(t, p) PROVE NoneLost'
  <2>1. /\ Guest(t) /\ p \in Process /\ calls' = [i \in 1 .. NumCores |-> Terminate(p, i - 1)]
        /\ UNCHANGED <<status, wait_objects, signaled, available_count, lock_count, holding_thread>>
    BY <1>11, ConstantAssumption DEF TerminateProcess, wait_vars, timer_vars, mutex_vars
  <2>2. calls' \in Seq(Call) /\ \A i \in 1 .. Len(calls') : calls'[i].op = "TerminateProcessThreads"
    BY <2>1, TerminateCalls
  <2>3. ~Calling("AddWaitingThread")'
    <3>1. calls' # <<>> => Head(calls').op = "TerminateProcessThreads"
      <4>1. calls' # <<>> => Head(calls') = calls'[1] /\ 1 \in 1 .. Len(calls')
        BY <2>2, TailPlaces
      <4>2. QED BY <2>2, <4>1
    <3>2. QED BY <3>1 DEF Calling
  <2>4. \A v \in Thread : Announced(v)
    BY <2>1, SameAnnounced
  <2>5. QED BY <1>0, <2>1, <2>3, <2>4, LostIdle
<1>12. QED
  BY <1>2, <1>3, <1>4, <1>5, <1>6, <1>7, <1>8, <1>9, <1>10, <1>11, WaitSynchronizationLost
  DEF SystemCall

LEMMA NextLost ==
  ASSUME TypeOK, TypeOK', Scheduled, Shape(calls), ListInv, NoneLost, [Next]_vars
  PROVE  NoneLost'
<1>1. ASSUME NEW t \in Thread, ThreadWakeupCallback(t) PROVE NoneLost'
  <2>1. /\ calls = <<>> /\ (calls' = WakingCalls(t) \/ calls' = <<Resume(t)>>)
        /\ UNCHANGED <<status, wait_objects, signaled, available_count, lock_count, holding_thread>>
    BY <1>1 DEF ThreadWakeupCallback, timer_vars, mutex_vars
  <2>2. ~Calling("AddWaitingThread")'
    BY <2>1, OneCall, CallOps DEF WakingCalls
  <2>3. \A u \in Thread : Announced(u)
    BY <2>1, SameAnnounced
  <2>4. QED BY <2>1, <2>2, <2>3, LostIdle
<1>2. ASSUME NEW o \in Signalable, calls = <<>>, signaled' = [signaled EXCEPT ![o] = TRUE],
             \/ calls' = <<Wakeup(o)>>
             \/ calls' = <<Wakeup(o), Rearm(o)>>,
             UNCHANGED <<status, wait_objects, available_count, lock_count, holding_thread>>
      PROVE  NoneLost'
  <2>1. ~Calling("AddWaitingThread")'
    BY <1>2, OneCall, CallOps
  <2>2. ASSUME NEW u \in Thread PROVE Announced(u)
    <3>1. \A x \in Semaphore : available_count'[x] <= available_count[x]
      BY <1>2, ConstantAssumption DEF TypeOK, Int32
    <3>2. Wakeup(o) \in ToSet(calls')
      BY <1>2, SmallSets
    <3>3. \A x \in Signalable : signaled'[x] => signaled[x] \/ x = o
      BY <1>2 DEF TypeOK
    <3>4. QED BY <1>2, <3>1, <3>2, <3>3 DEF Announced
  <2>3. QED BY <1>2, <2>1, <2>2, LostIdle
<1>3. ASSUME NEW e \in Event, SignalEvent(e) PROVE NoneLost'
  BY <1>2, <1>3 DEF SignalEvent, Signalable, wait_vars, mutex_vars
<1>4. ASSUME NEW o \in Timer, TimerCallback(o) PROVE NoneLost'
  BY <1>2, <1>4 DEF TimerCallback, Signalable, wait_vars, mutex_vars
<1>5. CASE EndAdvance \/ EndSlice
  <2>1. /\ calls = <<>>
        /\ UNCHANGED <<wait_objects, calls, signaled, available_count, lock_count, holding_thread>>
        /\ \A u \in Thread :
             \/ status'[u] = status[u]
             \/ status[u] \in {"Ready", "Running"} /\ status'[u] \in {"Ready", "Running"}
    BY <1>5, LoopStatus
  <2>2. ~Calling("AddWaitingThread")'
    BY <2>1 DEF Calling
  <2>3. \A u \in Thread : Announced(u)
    BY <2>1, SameAnnounced
  <2>4. \A u \in Thread : InSynch(u)' => status'[u] = status[u]
    BY <2>1 DEF InSynch
  <2>5. QED BY <2>1, <2>2, <2>3, <2>4, LostIdle
<1>6. CASE UNCHANGED vars
  <2>1. UNCHANGED <<status, wait_objects, calls, signaled, available_count, lock_count,
                    holding_thread>>
    BY <1>6 DEF vars, wait_vars, timer_vars, mutex_vars
  <2>2. \A u \in Thread : Announced(u)
    BY <2>1, SameAnnounced
  <2>3. \A u \in Thread : InSynch(u)' /\ ~Leaving(u)' => StillWaits(u)
    BY <2>1, <2>2 DEF StillWaits, InSynch, Leaving, Awaited, Calling, Top
  <2>4. WakeupsKept
    BY <2>1 DEF WakeupsKept
  <2>5. QED BY <2>3, <2>4, LostQuiet
<1>7. QED
  BY <1>1, <1>3, <1>4, <1>5, <1>6, KernelCallLost, SystemCallLost DEF Next

LEMMA AlwaysNoneLost == Spec => []NoneLost
<1>1. Init => NoneLost
  <2>1. HAVE Init
  <2>2. \A t \in Thread : ~InSynch(t)
    BY <2>1 DEF Init, InSynch
  <2>3. QED BY <2>2 DEF NoneLost
<1>2. WaitInv /\ WaitInv' /\ NoneLost /\ [Next]_vars => NoneLost'
  BY NextLost DEF WaitInv
<1>3. QED BY <1>1, <1>2, AlwaysWaits, PTL DEF Spec

\* When the kernel has finished its calls, no thread is left waiting for objects it
\* could have: every signal, release, unlock and death reaches all the threads that
\* wait, however wakeups nest and whatever the threads wait for.
THEOREM NoWakeupLost == Spec => []NoLostWakeup
<1>1. ASSUME TypeOK, NoneLost PROVE NoLostWakeup
  <2> SUFFICES ASSUME calls = <<>>, NEW t \in Thread, InSynch(t), wait_objects[t] # <<>>
               PROVE  ~Available(wait_objects[t], t, status[t] = "WaitSynchAll")
    BY DEF NoLostWakeup
  <2> DEFINE objs == wait_objects[t]
  <2>1. /\ ~Leaving(t) /\ Awaited(t) = ToSet(objs)
        /\ \A o : Covered(o, t) <=> ShouldWait(o, t)
    BY SmallSets DEF Leaving, Awaited, Covered, Calling
  <2>2. objs \in Seq(WaitObject) /\ objs # <<>>
    BY <1>1 DEF TypeOK
  <2> HIDE DEF objs
  <2>3. ToSet(objs) # {}
    BY <2>2, TailPlaces
  <2>4. CASE status[t] = "WaitSynchAll"
    <3>1. PICK o \in ToSet(objs) : ShouldWait(o, t)
      BY <1>1, <2>1, <2>3, <2>4 DEF NoneLost
    <3>2. ~Available(objs, t, TRUE)
      BY <3>1 DEF Available, ToSet
    <3>3. QED BY <2>4, <3>2 DEF objs
  <2>5. CASE status[t] # "WaitSynchAll"
    <3>1. \A o \in ToSet(objs) : ShouldWait(o, t)
      BY <1>1, <2>1, <2>5 DEF NoneLost
    <3>2. ~Available(objs, t, FALSE)
      BY <3>1 DEF Available, ToSet
    <3>3. QED BY <2>5, <3>2 DEF objs
  <2>6. QED BY <2>4, <2>5
<1>2. WaitInv => TypeOK
  BY DEF WaitInv
<1>3. QED BY <1>1, <1>2, AlwaysWaits, AlwaysNoneLost, PTL

--------------------------------------------------------------------------------
\* The lists of an object that wakes its waiters only hold threads that wait.

\* No thread waits for itself, now or in a list it asks for.
NoSelfWait == \A t \in Thread : \A objs \in WaitLists[t] : t \notin ToSet(objs)
SelfInv ==
  /\ \A t \in Thread : t \notin ToSet(wait_objects[t])
  /\ \A c \in ToSet(calls) : c.op = "AddWaitingThread" => c.thread \notin ToSet(c.objs)

\* A thread that leaves its lists is resumed when it is waiting, or it is stopped.
Paired(t) ==
  \/ Resume(t) \in ToSet(calls) /\ status[t] \in Waiting
  \/ ReleaseMutexes(t) \in ToSet(calls)

\* A call that is made from an empty stack.
FirstCall(x) ==
  /\ x.op \in {"AddWaitingThread", "UpdatePending", "ReleaseThreadMutexes"} => halted'
  /\ \A t \in Thread : x = Leave(t) => Paired(t)'
  /\ x.op = "AddWaitingThread" =>
       /\ x.thread \in Thread /\ Guest(x.thread) /\ x.objs \in WaitLists[x.thread]
       /\ \E wait_all \in BOOLEAN, timeout \in Timeouts :
            WaitSynchronization(x.thread, x.objs, wait_all, timeout)
  /\ x.op = "ReleaseThreadMutexes" => status' = [status EXCEPT ![x.thread] = "Dead"]
  /\ x.op = "TerminateProcessThreads" =>
       \E t \in Thread : Guest(t) /\ x.process \in Kills[OwnerOf[t]]

LEMMA FirstCalls ==
  ASSUME TypeOK, Next, ~KernelCall
  PROVE  calls = <<>> /\ \A x \in ToSet(calls') : FirstCall(x)
<1> DEFINE Other(x) == x.op \notin {"AddWaitingThread", "UpdatePending", "ReleaseThreadMutexes",
                                    "RemoveWaitingThread", "TerminateProcessThreads"}
           Goal == calls = <<>> /\ \A x \in ToSet(calls') : FirstCall(x)
<1>0. ASSUME calls = <<>>, \A x \in ToSet(calls') : Other(x) PROVE Goal
  BY <1>0, CallOps DEF FirstCall
<1> HIDE DEF Goal
<1>1. ASSUME calls = <<>>, UNCHANGED calls PROVE Goal
  BY <1>0, <1>1, SmallSets
<1>2. ASSUME NEW o, calls = <<>>, calls' = <<Wakeup(o)>> \/ calls' = <<Wakeup(o), Rearm(o)>>
      PROVE  Goal
  <2>1. Other(Wakeup(o)) /\ Other(Rearm(o))
    BY CallOps
  <2> HIDE DEF Other
  <2>2. \A x \in ToSet(calls') : Other(x)
    BY <1>2, <2>1, SmallSets
  <2>3. QED BY <1>0, <1>2, <2>2
<1>3. ASSUME NEW t \in Thread, NEW objs \in WaitLists[t], NEW wait_all \in BOOLEAN,
             NEW timeout \in Timeouts, WaitSynchronization(t, objs, wait_all, timeout)
      PROVE  Goal
  <2>1. Guest(t) /\ calls = <<>>
    BY <1>3 DEF WaitSynchronization, Guest
  <2>2. UNCHANGED calls \/ calls' = <<>> \/ (calls' = <<Enter(t, objs)>> /\ halted')
    BY <1>3, <2>1 DEF WaitSynchronization, PrepareReschedule, Guest
  <2>3. CASE calls' = <<>>
    BY <1>1, <2>1, <2>3
  <2>4. CASE calls' = <<Enter(t, objs)>> /\ halted'
    <3>1. FirstCall(Enter(t, objs))
      BY <1>3, <2>1, <2>4, CallOps DEF FirstCall
    <3>2. QED BY <2>1, <2>4, <3>1, SmallSets DEF Goal
  <2>5. QED BY <2>1, <2>2, <2>3, <2>4
<1>4. ASSUME NEW t \in Thread, ExitThread(t) PROVE Goal
  <2>1. calls = <<>> /\ Stop(t, <<>>) /\ status' = [status EXCEPT ![t] = "Dead"] /\ halted'
    BY <1>4 DEF ExitThread, Guest, Stop, PrepareReschedule
  <2>2. \A x : x \in ToSet(calls') <=> x = Wakeup(t) \/ x = Leave(t) \/ x = ReleaseMutexes(t)
    BY <2>1, ExitSet, Zenon
  <2>3. FirstCall(Wakeup(t)) /\ FirstCall(Leave(t)) /\ FirstCall(ReleaseMutexes(t))
    <3>1. ReleaseMutexes(t).thread = t
      BY CallOps
    <3>2. \A u \in Thread : Leave(t) = Leave(u) => Paired(u)'
      BY <2>2, CallOps DEF Paired
    <3>3. QED BY <2>1, <3>1, <3>2, CallOps DEF FirstCall
  <2>4. QED BY <2>1, <2>2, <2>3, Zenon DEF Goal
<1>5. ASSUME NEW t \in Thread, NEW p \in Kills[OwnerOf[t]], TerminateProcess(t, p) PROVE Goal
  <2>1. /\ Guest(t) /\ calls = <<>> /\ p \in Process
        /\ calls' = [i \in 1 .. NumCores |-> Terminate(p, i - 1)]
    BY <1>5, ConstantAssumption DEF TerminateProcess, Guest
  <2>2. /\ calls' \in Seq(Call)
        /\ \A i \in 1 .. Len(calls') : /\ calls'[i].op = "TerminateProcessThreads"
                                       /\ calls'[i].process = p
    BY <2>1, TerminateCalls
  <2>3. \A x \in ToSet(calls') : x.op = "TerminateProcessThreads" /\ x.process = p
    BY <2>2, InToSet
  <2>4. \A x \in ToSet(calls') : FirstCall(x)
    BY <2>1, <2>3, CallOps DEF FirstCall
  <2>5. QED BY <2>1, <2>4 DEF Goal
<1>6. ASSUME NEW t \in Thread, NEW u \in Thread, NEW p, SetThreadPriority(t, u, p) PROVE Goal
  <2>1. PICK ms : calls' = <<UpdatePending(ms)>>
    BY <1>6 DEF SetThreadPriority
  <2>2. calls = <<>> /\ halted'
    BY <1>6 DEF SetThreadPriority, Guest, PrepareReschedule
  <2>3. \A x \in ToSet(calls') : FirstCall(x)
    BY <2>1, <2>2, SmallSets, CallOps DEF FirstCall
  <2>4. QED BY <2>2, <2>3 DEF Goal
<1>7. ASSUME NEW t \in Thread, ThreadWakeupCallback(t) PROVE Goal
  <2>1. /\ calls = <<>> /\ UNCHANGED status
        /\ (calls' = WakingCalls(t) /\ TimesOut(t)) \/ calls' = <<Resume(t)>>
    BY <1>7 DEF ThreadWakeupCallback
  <2>2. CASE calls' = <<Resume(t)>>
    <3>1. \A x \in ToSet(calls') : Other(x)
      BY <2>2, SmallSets, CallOps
    <3>2. QED BY <1>0, <2>1, <3>1
  <2>3. CASE calls' = WakingCalls(t) /\ TimesOut(t)
    <3>1. \A x : x \in ToSet(calls') <=> x = Leave(t) \/ x = Resume(t)
      BY <2>3, SmallSets
    <3>2. Paired(t)'
      BY <2>1, <2>3, <3>1 DEF Paired, TimesOut, Waiting
    <3>3. FirstCall(Leave(t)) /\ FirstCall(Resume(t))
      BY <3>2, CallOps DEF FirstCall
    <3>4. QED BY <2>1, <3>1, <3>3, Zenon DEF Goal
  <2>4. QED BY <2>1, <2>2, <2>3
<1>8. ASSUME NEW t \in Thread, SystemCall(t) PROVE Goal
  <2>1. ASSUME NEW timeout, SleepThread(t, timeout) PROVE Goal
    BY <1>1, <2>1 DEF SleepThread, Guest
  <2>2. ASSUME NEW o, Clear(t, o) PROVE Goal
    BY <1>1, <2>2 DEF Clear, Guest
  <2>3. ASSUME NEW o, NEW delayed \in BOOLEAN, NEW periodic, SetTimer(t, o, delayed, periodic)
        PROVE  Goal
    <3>1. /\ calls = <<>>
          /\ \/ calls' = <<>>
             \/ calls' = <<Wakeup(o), Rearm(o)>>
      BY <2>3 DEF SetTimer, Guest
    <3>2. QED BY <1>1, <1>2, <3>1
  <2>4. ASSUME NEW o, CancelTimer(t, o) PROVE Goal
    BY <1>1, <2>4 DEF CancelTimer, Guest
  <2>5. ASSUME NEW s, NEW n, ReleaseSemaphore(t, s, n) PROVE Goal
    BY <1>2, <2>5 DEF ReleaseSemaphore, Guest
  <2>6. ASSUME NEW m, ReleaseMutex(t, m) PROVE Goal
    BY <1>1, <1>2, <2>6 DEF ReleaseMutex, Guest
  <2>7. ASSUME NEW u, NEW p, CreateThread(t, u, p) PROVE Goal
    BY <1>1, <2>7 DEF CreateThread, Guest
  <2>8. QED
    BY <1>3, <1>4, <1>5, <1>6, <1>8, <2>1, <2>2, <2>3, <2>4, <2>5, <2>6, <2>7 DEF SystemCall
<1>9. ASSUME NEW e, SignalEvent(e) PROVE Goal
  BY <1>2, <1>9 DEF SignalEvent
<1>10. ASSUME NEW o, TimerCallback(o) PROVE Goal
  BY <1>2, <1>10 DEF TimerCallback
<1>11. ASSUME EndAdvance \/ EndSlice PROVE Goal
  BY <1>1, <1>11 DEF EndAdvance, EndSlice
<1>12. Goal
  BY <1>7, <1>8, <1>9, <1>10, <1>11 DEF Next
<1>13. QED BY <1>12 DEF Goal

LEMMA ListsKept ==
  ASSUME [Next]_vars, ~AddWaitingThread, ~RemoveWaitingThread
  PROVE  UNCHANGED <<wait_objects, waiting_threads>>
<1>1. ASSUME NEW t, NEW more, Stop(t, more) PROVE UNCHANGED <<wait_objects, waiting_threads>>
  BY <1>1 DEF Stop, wait_vars
<1>2. CASE KernelCall
  BY <1>1, <1>2 DEF KernelCall, WakeupOne, WakeupDone, ResumeFromWait, ReleaseThreadMutexes,
     RearmTimer, UpdatePendingMutexes, TerminateProcessThreads, wait_vars
<1>3. ASSUME NEW t, SystemCall(t) PROVE UNCHANGED <<wait_objects, waiting_threads>>
  BY <1>1, <1>3 DEF SystemCall, WaitSynchronization, SleepThread, Clear, SetTimer, CancelTimer,
     ReleaseSemaphore, ReleaseMutex, SetThreadPriority, CreateThread, ExitThread,
     TerminateProcess, wait_vars
<1>4. QED
  BY <1>2, <1>3 DEF Next, ThreadWakeupCallback, SignalEvent, TimerCallback, EndAdvance, EndSlice,
     vars, wait_vars

LEMMA NextSelf ==
  ASSUME TypeOK, Shape(calls), NoSelfWait, SelfInv, [Next]_vars
  PROVE  SelfInv'
<1>1. CASE AddWaitingThread
  <2>0. PICK t, o, rest : t = Top.thread /\ o = Head(Top.objs) /\ rest = Tail(Top.objs)
    OBVIOUS
  <2>1. /\ Calling("AddWaitingThread") /\ t \in Thread /\ o \in WaitObject
        /\ Top.objs \in Seq(WaitObject) /\ Top.objs # <<>>
        /\ wait_objects' = [wait_objects EXCEPT ![t] = Append(@, o)]
        /\ calls' = IF rest = <<>> THEN <<>> ELSE <<Enter(t, rest)>>
    BY <1>1, <2>0, AddWaitingThreadStep
  <2>2. Top \in ToSet(calls) /\ Top.op = "AddWaitingThread"
    BY <2>1, TopSet, TopPlace
  <2>3. t \notin ToSet(Top.objs)
    BY <2>0, <2>2 DEF SelfInv
  <2>4. t # o /\ t \notin ToSet(rest)
    BY <2>0, <2>1, <2>3, TailPlaces
  <2>5. \A u \in Thread : u \notin ToSet(wait_objects'[u])
    <3>1. wait_objects[t] \in Seq(WaitObject) /\ wait_objects'[t] = Append(wait_objects[t], o)
      BY <2>1 DEF TypeOK
    <3>2. t \notin ToSet(wait_objects'[t])
      BY <2>1, <2>4, <3>1, AppendSet DEF SelfInv
    <3>3. \A u \in Thread : u # t => wait_objects'[u] = wait_objects[u]
      BY <2>1 DEF TypeOK
    <3>4. QED BY <3>2, <3>3 DEF SelfInv
  <2>6. \A c \in ToSet(calls') : c.thread = t /\ c.objs = rest
    BY <2>1, SmallSets, CallOps
  <2>7. QED BY <2>4, <2>5, <2>6 DEF SelfInv
<1>2. CASE ~AddWaitingThread
  <2>1. \A u \in Thread : \A x \in ToSet(wait_objects'[u]) : x \in ToSet(wait_objects[u])
    <3>1. CASE UNCHANGED wait_objects
      BY <3>1
    <3>2. CASE RemoveWaitingThread
      <4>0. PICK t : t = Top.thread
        OBVIOUS
      <4>1. /\ t \in Thread
            /\ \/ UNCHANGED wait_objects
               \/ /\ wait_objects[t] # <<>>
                  /\ wait_objects' = [wait_objects EXCEPT ![t] = Tail(wait_objects[t])]
        BY <3>2, <4>0, RemoveWaitingThreadStep
      <4>2. CASE /\ wait_objects[t] # <<>>
                 /\ wait_objects' = [wait_objects EXCEPT ![t] = Tail(wait_objects[t])]
        <5>1. /\ wait_objects'[t] = Tail(wait_objects[t])
              /\ \A u \in Thread : u # t => wait_objects'[u] = wait_objects[u]
          BY <4>1, <4>2 DEF TypeOK
        <5>2. \A x \in ToSet(wait_objects'[t]) : x \in ToSet(wait_objects[t])
          BY <4>1, <4>2, <5>1, TailPlaces DEF TypeOK
        <5>3. QED BY <5>1, <5>2
      <4>3. QED BY <4>1, <4>2
    <3>3. QED BY <1>2, <3>1, <3>2, ListsKept
  <2>2. \A c \in ToSet(calls') : c.op = "AddWaitingThread" => c.thread \notin ToSet(c.objs)
    <3>1. CASE KernelCall
      BY <1>2, <3>1, KernelCallNew DEF NewCall, SelfInv
    <3>2. CASE ~KernelCall /\ Next
      BY <3>2, FirstCalls DEF FirstCall, NoSelfWait
    <3>3. CASE UNCHANGED vars
      BY <3>3 DEF vars, SelfInv
    <3>4. QED BY <3>1, <3>2, <3>3
  <2>3. QED BY <2>1, <2>2 DEF SelfInv
<1>3. QED BY <1>1, <1>2

\* A dead thread that is still in a list is the object that wakes its waiters.
LEMMA DeadWaiter ==
  ASSUME TypeOK, Shape(calls), Calling("WakeupAllWaitingThreads"), NEW t \in Thread, Leaving(t)
  PROVE  Top = Wakeup(t)
<1>1. /\ calls \in Seq(Call) /\ Top = calls[1] /\ Top \in Call /\ ShapeAt(calls, 1)
      /\ Top.op = "WakeupAllWaitingThreads" /\ Len(calls) \in Nat
  BY TopPlace DEF Shape
<1>2. PICK i \in 1 .. Len(calls) : calls[i] = Leave(t)
  BY <1>1, InToSet DEF Leaving
<1>3. calls[i].op = "RemoveWaitingThread" /\ calls[i].thread = t /\ i # 1
  BY <1>1, <1>2, CallOps
<1>4. i - 1 \in 1 .. Len(calls) /\ i > 1 /\ (i - 1 = 1 \/ i - 1 \in 1 + 1 .. Len(calls))
  BY <1>1, <1>3
<1>5. calls[i - 1] = Wakeup(t)
  BY <1>2, <1>3, <1>4 DEF Shape, ShapeAt
<1>6. calls[i - 1].op = "WakeupAllWaitingThreads"
  BY <1>5, CallOps
<1>7. i - 1 = 1
  BY <1>1, <1>4, <1>6 DEF ShapeAt
<1>8. QED BY <1>1, <1>5, <1>7

\* If no thread waits for itself, the list of an object that wakes its waiters holds
\* threads that wait for objects only: the assertion of
\* WaitObject::GetHighestPriorityReadyThread never fails.
THEOREM WaitersWait == NoSelfWait /\ Spec => []WaitersAreWaiting
<1> DEFINE Inv == NoSelfWait /\ SelfInv
<1>1. NoSelfWait /\ Init => Inv
  <2>1. HAVE NoSelfWait /\ Init
  <2>2. calls = <<>> /\ \A t \in Thread : wait_objects[t] = <<>>
    BY <2>1 DEF Init
  <2>3. QED BY <2>1, <2>2, SmallSets DEF SelfInv
<1>2. WaitInv /\ Inv /\ [Next]_vars => Inv'
  BY NextSelf DEF WaitInv, NoSelfWait
<1>3. ASSUME WaitInv, Inv PROVE WaitersAreWaiting
  <2> SUFFICES ASSUME Calling("WakeupAllWaitingThreads"), NEW t \in ToSet(waiting_threads[Top.obj])
               PROVE  InSynch(t)
    BY DEF WaitersAreWaiting
  <2>0. TypeOK /\ Shape(calls) /\ ListInv /\ SelfInv
    BY <1>3 DEF WaitInv
  <2>1. Top \in Call /\ Top.obj \in WaitObject
    BY <2>0, TopPlace, CallFields
  <2>2. t \in Thread
    <3>1. waiting_threads[Top.obj] \in Seq(Thread)
      BY <2>0, <2>1 DEF TypeOK
    <3>2. QED BY <3>1, ElementOfSeq DEF ToSet
  <2>3. Top.obj \in ToSet(wait_objects[t])
    BY <2>0, <2>1 DEF ListInv
  <2>4. wait_objects[t] # <<>>
    BY <2>3, SmallSets
  <2>5. ~Leaving(t)
    <3>1. ASSUME Leaving(t) PROVE FALSE
      <4>1. Top = Wakeup(t)
        BY <2>0, <2>2, <3>1, DeadWaiter
      <4>2. Top.obj = t
        BY <4>1, CallOps
      <4>3. QED BY <2>0, <2>2, <2>3, <4>2 DEF SelfInv
    <3>2. QED BY <3>1
  <2>6. QED BY <2>0, <2>2, <2>4, <2>5 DEF ListInv
<1> HIDE DEF Inv
<1>4. QED BY <1>1, <1>2, <1>3, AlwaysWaits, PTL DEF Spec

--------------------------------------------------------------------------------
\* Dead threads.

\* In a step of SilentSpec a dead thread that is current makes no system call.
Silent == \A t \in Thread : Guest(t) /\ status[t] = "Dead" => EndSlice \/ UNCHANGED vars

LEMMA SilentSteps == [Next /\ StoppedAreSilent]_vars => [Next]_vars /\ Silent
BY DEF StoppedAreSilent, Silent

LEMMA SilentRuns == SilentSpec => Spec
BY SilentSteps, PTL DEF SilentSpec, Spec

\* How the status of thread u can change.
Suspended(u) == Guest(u) /\ status'[u] \in Waiting
Resumed(u)   == status[u] \in Waiting /\ status'[u] = "Ready"
Created(u)   == status[u] = "Unborn" /\ status'[u] \in {"Ready", "Dormant"} /\ UNCHANGED mutex_vars
Switched(u)  == status[u] \in {"Ready", "Running"} /\ status'[u] \in {"Ready", "Running"}
Stopped(u) ==
  /\ status'[u] = "Dead" /\ ReleaseMutexes(u) \in ToSet(calls')
  /\ \/ Guest(u) /\ PrepareReschedule
     \/ /\ Calling("TerminateProcessThreads") /\ Top.core \in Core
        /\ \/ u # current_thread[Top.core] /\ CoreOf[u] = Top.core /\ status[u] # "Unborn"
           \/ /\ u = current_thread[Top.core] /\ OwnerOf[u] = Top.process
              /\ PrepareReschedule
Steps(u) ==
  \/ status'[u] = status[u]
  \/ Suspended(u) \/ Resumed(u) \/ Created(u) \/ Switched(u) \/ Stopped(u)

LEMMA StopSteps ==
  ASSUME TypeOK, NEW t \in Thread, NEW more \in Seq(Call), Stop(t, more), NEW u \in Thread
  PROVE  \/ status'[u] = status[u]
         \/ u = t /\ status'[u] = "Dead" /\ ReleaseMutexes(u) \in ToSet(calls')
<1>1. status' = [status EXCEPT ![t] = "Dead"]
  BY DEF Stop
<1>2. ReleaseMutexes(t) \in ToSet(calls')
  BY StopSet
<1>3. QED BY <1>1, <1>2 DEF TypeOK

LEMMA KernelCallSteps ==
  ASSUME TypeOK, KernelCall, NEW u \in Thread
  PROVE  Steps(u)
<1>1. CASE UNCHANGED status
  BY <1>1 DEF Steps
<1>2. CASE ResumeFromWait
  <2>0. PICK t : t = Top.thread
    OBVIOUS
  <2>1. t \in Thread
    BY <1>2, <2>0, TopPlace, CallFields DEF ResumeFromWait
  <2>2. \/ UNCHANGED status
        \/ status[t] \in Waiting /\ status' = [status EXCEPT ![t] = "Ready"]
    BY <1>2, <2>0 DEF ResumeFromWait
  <2>3. status'[u] = status[u] \/ Resumed(u)
    BY <2>1, <2>2 DEF TypeOK, Resumed
  <2>4. QED BY <2>3 DEF Steps
<1>3. CASE TerminateProcessThreads
  <2>1. /\ Calling("TerminateProcessThreads") /\ Top.core \in Core
        /\ StopsOne \/ UNCHANGED status
    BY <1>3, TerminateStep
  <2>2. ASSUME NEW t \in Thread, NEW more \in {calls, Tail(calls)}, Stop(t, more),
               \/ t # current_thread[Top.core] /\ CoreOf[t] = Top.core /\ status[t] # "Unborn"
               \/ /\ t = current_thread[Top.core] /\ OwnerOf[t] = Top.process
                  /\ PrepareReschedule
        PROVE  status'[u] = status[u] \/ Stopped(u)
    <3>1. more \in Seq(Call)
      BY <2>1, TopPlace
    <3>2. \/ status'[u] = status[u]
          \/ u = t /\ status'[u] = "Dead" /\ ReleaseMutexes(u) \in ToSet(calls')
      BY <2>2, <3>1, StopSteps
    <3>3. QED BY <2>1, <2>2, <3>2 DEF Stopped
  <2>3. status'[u] = status[u] \/ Stopped(u)
    BY <2>1, <2>2, Zenon DEF StopsOne
  <2>4. QED BY <2>3 DEF Steps
<1>4. QED
  BY <1>1, <1>2, <1>3 DEF KernelCall, WakeupOne, WakeupDone, AddWaitingThread,
     RemoveWaitingThread, ReleaseThreadMutexes, RearmTimer, UpdatePendingMutexes

LEMMA SystemCallSteps ==
  ASSUME TypeOK, NEW t \in Thread, SystemCall(t), NEW u \in Thread
  PROVE  Steps(u)
<1>1. CASE UNCHANGED status
  BY <1>1 DEF Steps
<1>2. ASSUME Guest(t), NEW s \in Waiting, status' = [status EXCEPT ![t] = s]
      PROVE  Steps(u)
  BY <1>2 DEF Steps, Suspended, TypeOK
<1>3. ASSUME NEW objs, NEW wait_all \in BOOLEAN, NEW timeout,
             WaitSynchronization(t, objs, wait_all, timeout)
      PROVE  Steps(u)
  <2>1. /\ Guest(t)
        /\ \/ UNCHANGED status
           \/ status' = [status EXCEPT ![t] = IF wait_all THEN "WaitSynchAll" ELSE "WaitSynchAny"]
    BY <1>3 DEF WaitSynchronization
  <2>2. (IF wait_all THEN "WaitSynchAll" ELSE "WaitSynchAny") \in Waiting
    BY DEF Waiting
  <2>3. QED BY <1>1, <1>2, <2>1, <2>2
<1>4. ASSUME NEW timeout, SleepThread(t, timeout) PROVE Steps(u)
  BY <1>2, <1>4 DEF SleepThread, Waiting
<1>5. ASSUME NEW x \in Thread, NEW p, CreateThread(t, x, p) PROVE Steps(u)
  <2>1. PICK born \in {"Ready", "Dormant"} :
          /\ status[x] = "Unborn" /\ status' = [status EXCEPT ![x] = born]
          /\ UNCHANGED mutex_vars
    BY <1>5 DEF CreateThread
  <2>2. QED BY <2>1 DEF Steps, Created, TypeOK
<1>6. CASE ExitThread(t)
  <2>1. Guest(t) /\ Stop(t, <<>>) /\ PrepareReschedule /\ <<>> \in Seq(Call)
    BY <1>6 DEF ExitThread
  <2>2. \/ status'[u] = status[u]
        \/ u = t /\ status'[u] = "Dead" /\ ReleaseMutexes(u) \in ToSet(calls')
    BY <2>1, StopSteps
  <2>3. status'[u] = status[u] \/ Stopped(u)
    BY <2>1, <2>2 DEF Stopped
  <2>4. QED BY <2>3 DEF Steps
<1>7. QED
  BY <1>1, <1>3, <1>4, <1>5, <1>6 DEF SystemCall, Clear, SetTimer, CancelTimer,
     ReleaseSemaphore, ReleaseMutex, SetThreadPriority, TerminateProcess

LEMMA NextSteps ==
  ASSUME TypeOK, Scheduled, [Next]_vars, NEW u \in Thread
  PROVE  Steps(u)
<1>1. CASE UNCHANGED status
  BY <1>1 DEF Steps
<1>2. CASE EndAdvance \/ EndSlice
  <2>1. \/ status'[u] = status[u]
        \/ status[u] \in {"Ready", "Running"} /\ status'[u] \in {"Ready", "Running"}
    BY <1>2, LoopStatus
  <2>2. QED BY <2>1 DEF Steps, Switched
<1>3. QED
  BY <1>1, <1>2, KernelCallSteps, SystemCallSteps DEF Next, ThreadWakeupCallback, SignalEvent,
     TimerCallback, vars

\* Only the loop over the cores switches threads.
LEMMA LoopKept ==
  ASSUME TypeOK, [Next]_vars, ~EndAdvance, ~EndSlice
  PROVE  UNCHANGED <<current_thread, to_advance, to_run>> /\ (halted => halted')
<1> DEFINE Goal == UNCHANGED <<current_thread, to_advance, to_run>> /\ (halted => halted')
<1>0. ASSUME Halting PROVE halted => halted'
  BY <1>0 DEF Halting, PrepareReschedule, halt_vars
<1>1. ASSUME NEW t \in Thread, NEW objs \in Seq(WaitObject), Acquire(objs, t) PROVE Halting
  BY <1>1, AcquireBoost DEF Halting
<1>2. CASE KernelCall
  <2>1. CASE WakeupOne
    <3>1. Halting
      BY <1>1, <2>1, WakeupOneStep
    <3>2. QED BY <1>0, <2>1, <3>1 DEF WakeupOne, loop_vars
  <2>2. CASE TerminateProcessThreads
    BY <1>0, <2>2, TerminateStep DEF StopsOne, Stop, loop_vars, Halting
  <2>3. CASE ResumeFromWait
    BY <1>0, <2>3 DEF ResumeFromWait, loop_vars, Halting
  <2>4. QED
    BY <1>2, <2>1, <2>2, <2>3 DEF KernelCall, WakeupDone, AddWaitingThread, RemoveWaitingThread,
       ReleaseThreadMutexes, RearmTimer, UpdatePendingMutexes, loop_vars, halt_vars
<1>3. ASSUME NEW t \in Thread, SystemCall(t) PROVE Goal
  <2>1. Guest(t) => ~halted
    BY DEF Guest
  <2>2. QED
    BY <1>3, <2>1 DEF SystemCall, WaitSynchronization, SleepThread, Clear, SetTimer, CancelTimer,
       ReleaseSemaphore, ReleaseMutex, SetThreadPriority, CreateThread, ExitThread, Stop,
       TerminateProcess, loop_vars
<1>4. QED
  BY <1>2, <1>3 DEF Next, ThreadWakeupCallback, SignalEvent, TimerCallback, loop_vars, halt_vars,
     vars

\* A thread that makes a system call is running, and a dead thread stays dead.
LEMMA GuestRuns ==
  ASSUME TypeOK, Scheduled, Silent, ~EndSlice, ~UNCHANGED vars, NEW t \in Thread, Guest(t)
  PROVE  status[t] = "Running"
<1>1. t # NoThread /\ status[t] \in {"Running", "Dead"}
  BY GuestThread, ObjectAssumption
<1>2. QED BY <1>1 DEF Silent

LEMMA DeadStayDead ==
  ASSUME TypeOK, Scheduled, Silent, [Next]_vars, NEW t \in Thread, status[t] = "Dead"
  PROVE  status'[t] = "Dead"
<1>1. CASE EndSlice
  <2>1. \/ status'[t] = status[t]
        \/ status[t] \in {"Ready", "Running"} /\ status'[t] \in {"Ready", "Running"}
    BY <1>1, LoopStatus
  <2>2. QED BY <2>1
<1>2. CASE UNCHANGED vars
  BY <1>2 DEF vars
<1>3. CASE ~EndSlice /\ ~UNCHANGED vars
  <2>1. ~Guest(t)
    BY <1>3, GuestRuns
  <2>2. QED BY <2>1, NextSteps DEF Steps, Suspended, Resumed, Created, Switched, Stopped, Waiting
<1>4. QED BY <1>1, <1>2, <1>3

\* A thread that is ready waits for nothing, and the result of its wait stays.
LEMMA ReadySettled ==
  ASSUME TypeOK, Scheduled, Shape(calls), ListInv, [Next]_vars,
         NEW t \in Thread, status[t] = "Ready"
  PROVE  result'[t] = result[t] /\ wait_objects'[t] = <<>>
<1>1. wait_objects[t] = <<>> /\ ~InSynch(t) /\ ~Guest(t)
  <2>1. ~Guest(t)
    BY GuestThread
  <2>2. QED BY <2>1 DEF ListInv, InSynch
<1>2. wait_objects'[t] = <<>>
  <2>1. CASE AddWaitingThread
    <3>0. PICK u, o, rest : u = Top.thread /\ o = Head(Top.objs) /\ rest = Tail(Top.objs)
      OBVIOUS
    <3>1. /\ Calling("AddWaitingThread") /\ u \in Thread
          /\ wait_objects' = [wait_objects EXCEPT ![u] = Append(@, o)]
      BY <2>1, <3>0, AddWaitingThreadStep
    <3>2. u # t
      BY <1>1, <3>0, <3>1 DEF ListInv
    <3>3. QED BY <1>1, <3>1, <3>2 DEF TypeOK
  <2>2. CASE RemoveWaitingThread
    <3>0. PICK u : u = Top.thread
      OBVIOUS
    <3>1. /\ u \in Thread
          /\ \/ UNCHANGED wait_objects
             \/ /\ wait_objects[u] # <<>>
                /\ wait_objects' = [wait_objects EXCEPT ![u] = Tail(wait_objects[u])]
      BY <2>2, <3>0, RemoveWaitingThreadStep
    <3>2. QED BY <1>1, <3>1 DEF TypeOK
  <2>3. QED BY <1>1, <2>1, <2>2, ListsKept
<1>3. result'[t] = result[t]
  <2>0. ASSUME NEW u \in Thread, NEW r, result' = [result EXCEPT ![u] = r], u # t
        PROVE  result'[t] = result[t]
    BY <2>0 DEF TypeOK
  <2>1. CASE WakeupOne
    <3>0. PICK o : o = Top.obj
      OBVIOUS
    <3>1. PICK u \in Thread : /\ u \in ToSet(waiting_threads[o]) /\ o \in WaitObject
                              /\ result' = [result EXCEPT ![u] = "Success"]
      BY <2>1, <3>0, WakeupOneStep
    <3>2. wait_objects[u] # <<>>
      BY <3>1, SmallSets DEF ListInv
    <3>3. QED BY <1>1, <2>0, <3>1, <3>2
  <2>2. ASSUME NEW u \in Thread, NEW objs, NEW wait_all, NEW timeout,
               WaitSynchronization(u, objs, wait_all, timeout)
        PROVE  result'[t] = result[t]
    <3>1. /\ u # t
          /\ \/ result' = [result EXCEPT ![u] = "Success"]
             \/ result' = [result EXCEPT ![u] = "Timeout"]
      BY <1>1, <2>2 DEF WaitSynchronization
    <3>2. QED BY <2>0, <3>1
  <2>3. ASSUME NEW u \in Thread, ThreadWakeupCallback(u) PROVE result'[t] = result[t]
    <3>1. \/ UNCHANGED result
          \/ TimesOut(u) /\ result' = [result EXCEPT ![u] = "Timeout"]
      BY <2>3 DEF ThreadWakeupCallback
    <3>2. TimesOut(u) => u # t
      BY <1>1 DEF TimesOut, InSynch
    <3>3. QED BY <2>0, <3>1, <3>2
  <2>4. CASE KernelCall /\ ~WakeupOne
    BY <2>4 DEF KernelCall, WakeupDone, AddWaitingThread, RemoveWaitingThread, ResumeFromWait,
       ReleaseThreadMutexes, RearmTimer, UpdatePendingMutexes, TerminateProcessThreads, Stop,
       wait_vars
  <2>5. ASSUME NEW u \in Thread, SystemCall(u) PROVE result'[t] = result[t]
    BY <2>2, <2>5 DEF SystemCall, SleepThread, Clear, SetTimer, CancelTimer, ReleaseSemaphore,
       ReleaseMutex, SetThreadPriority, CreateThread, ExitThread, Stop, TerminateProcess,
       wait_vars
  <2>6. QED
    BY <2>1, <2>3, <2>4, <2>5 DEF Next, SignalEvent, TimerCallback, EndAdvance, EndSlice,
       wait_vars, vars
<1>4. QED BY <1>2, <1>3

\* While a thread that TerminateProcess has stopped makes no further system call, a wait
\* is settled when the thread is made ready, and no dead thread comes back: a timeout
\* that fires late, a wakeup, a system call or a kill from another core changes neither.
THEOREM WaitsSettled == SilentSpec => SettledWaits
<1> DEFINE Settled == \A t \in Thread :
                        /\ status[t] = "Ready" => result'[t] = result[t] /\ wait_objects'[t] = <<>>
                        /\ status[t] = "Dead" => status'[t] = "Dead"
<1>1. WaitInv /\ [Next /\ StoppedAreSilent]_vars => Settled
  BY SilentSteps, ReadySettled, DeadStayDead DEF WaitInv
<1> HIDE DEF Settled
<1>2. SilentSpec => [][Settled]_vars
  BY <1>1, SilentRuns, AlwaysWaits, PTL DEF SilentSpec
<1>3. QED BY <1>2 DEF Settled, SettledWaits

--------------------------------------------------------------------------------
\* The holders of mutexes.

\* A mutex is locked when it is held, by a thread that has been created.
HeldInv ==
  /\ \A m \in Mutex : lock_count[m] > 0 <=> holding_thread[m] # NoThread
  /\ \A m \in Mutex : holding_thread[m] # NoThread =>
       status[holding_thread[m]] \notin {"Unborn", "Dormant"}

\* A dead thread that holds a mutex still has to release its mutexes.
DeadInv ==
  \A m \in Mutex : holding_thread[m] # NoThread /\ status[holding_thread[m]] = "Dead" =>
    ReleaseMutexes(holding_thread[m]) \in ToSet(calls)

\* Only dead threads are made to release their mutexes.
StoppedInv ==
  \A x \in ToSet(calls) : x.op = "ReleaseThreadMutexes" => status[x.thread] = "Dead"

\* A call stays on the stack until it is on top and returns.
LEMMA CallsKept ==
  ASSUME TypeOK, Shape(calls), KernelCall, NEW x \in ToSet(calls), x # Top
  PROVE  x \in ToSet(calls')
<1>0. ASSUME NEW op, Calling(op), Return(<<>>) PROVE x \in ToSet(calls')
  BY <1>0, PopSet
<1>1. ASSUME NEW more \in Seq(Call), calls' = more \o calls PROVE x \in ToSet(calls')
  BY <1>1, PushSet DEF TypeOK
<1>2. CASE WakeupOne
  <2>1. PICK t \in Thread : calls' = WakingCalls(t) \o calls
    BY <1>2, WakeupOneStep
  <2>2. QED BY <1>1, <2>1, MadeSequences
<1>3. ASSUME Calling("AddWaitingThread") \/ Calling("UpdatePending") PROVE FALSE
  <2>1. PICK op \in {"AddWaitingThread", "UpdatePending"} : Calling(op)
    BY <1>3
  <2>2. calls \in Seq(Call) /\ calls[1].op = op /\ Top = calls[1] /\ 1 \in 1 .. Len(calls)
    BY <2>1, TopPlace
  <2>3. Len(calls) = 1
    BY <2>2 DEF Shape, ShapeAt
  <2>4. PICK i \in 1 .. Len(calls) : calls[i] = x
    BY <2>2, InToSet
  <2>5. QED BY <2>2, <2>3, <2>4
<1>4. CASE RemoveWaitingThread
  <2>1. UNCHANGED calls \/ (Calling("RemoveWaitingThread") /\ Return(<<>>))
    BY <1>4 DEF RemoveWaitingThread
  <2>2. QED BY <1>0, <2>1
<1>5. CASE ReleaseThreadMutexes
  <2>1. CASE Return(<<>>)
    BY <1>0, <1>5, <2>1, Zenon DEF ReleaseThreadMutexes
  <2>2. ASSUME NEW m \in HeldMutexes(Top.thread), calls' = <<Wakeup(m)>> \o calls
        PROVE  x \in ToSet(calls')
    <3>1. <<Wakeup(m)>> \in Seq(Call)
      BY MadeCalls DEF HeldMutexes, WaitObject
    <3>2. QED BY <1>1, <2>2, <3>1
  <2>3. QED BY <1>5, <2>1, <2>2 DEF ReleaseThreadMutexes
<1>6. CASE TerminateProcessThreads
  <2>1. Calling("TerminateProcessThreads")
    BY <1>6, TerminateStep
  <2>2. ASSUME NEW t \in Thread, NEW more \in {calls, Tail(calls)}, Stop(t, more)
        PROVE  x \in ToSet(calls')
    <3>1. more \in Seq(Call) /\ x \in ToSet(more)
      BY <2>1, TopPlace, TopSet
    <3>2. QED BY <2>2, <3>1, StopSet
  <2>3. CASE Return(<<>>)
    BY <1>0, <2>1, <2>3, Zenon
  <2>4. QED BY <1>6, <2>2, <2>3, TerminateStep DEF StopsOne
<1>7. QED
  BY <1>0, <1>2, <1>3, <1>4, <1>5, <1>6 DEF KernelCall, WakeupDone, AddWaitingThread,
     ResumeFromWait, RearmTimer, UpdatePendingMutexes

\* What a step does to mutex m: nothing but recursion, a release, or its
\* acquisition by a thread that has been created.
Kept(m)     == holding_thread'[m] = holding_thread[m] /\ (lock_count'[m] > 0 <=> lock_count[m] > 0)
Released(m) == holding_thread'[m] = NoThread /\ lock_count'[m] = 0
Taken(m) ==
  /\ holding_thread'[m] \in Thread /\ lock_count'[m] > 0 /\ UNCHANGED status
  /\ status[holding_thread'[m]] \notin {"Unborn", "Dormant"}
\* If the thread is dead, it will release the mutex.
Doomed(m) ==
  status[holding_thread'[m]] = "Dead" => ReleaseMutexes(holding_thread'[m]) \in ToSet(calls')

LEMMA AcquireHolds ==
  ASSUME TypeOK, NEW t \in Thread, NEW objs \in Seq(WaitObject), Acquire(objs, t), NEW m \in Mutex
  PROVE  Kept(m) \/ (holding_thread'[m] = t /\ lock_count'[m] > 0)
<1>1. /\ Occurrences(m, objs) \in Nat /\ lock_count[m] \in Nat
      /\ m \in ToSet(objs) <=> Occurrences(m, objs) > 0
  BY OccurrencesType DEF TypeOK
<1>2. lock_count'[m] = lock_count[m] + Occurrences(m, objs)
  BY DEF Acquire
<1>3. holding_thread'[m] = IF m \in ToSet(objs) /\ lock_count[m] = 0 THEN t ELSE holding_thread[m]
  BY DEF Acquire
<1>4. CASE m \in ToSet(objs) /\ lock_count[m] = 0
  BY <1>1, <1>2, <1>3, <1>4
<1>5. CASE ~(m \in ToSet(objs) /\ lock_count[m] = 0)
  <2>1. lock_count'[m] > 0 <=> lock_count[m] > 0
    BY ONLY <1>1, <1>2, <1>5
  <2>2. QED BY <1>3, <1>5, <2>1 DEF Kept
<1>6. QED BY <1>4, <1>5

\* Below the top, a thread that leaves its lists is one that is being stopped.
LEMMA StoppedBelow ==
  ASSUME TypeOK, Shape(calls), NEW t \in Thread, Leave(t) \in ToSet(calls), Leave(t) # Top
  PROVE  ReleaseMutexes(t) \in ToSet(calls)
<1>1. calls \in Seq(Call) /\ Len(calls) \in Nat
  BY DEF TypeOK
<1>2. PICK i \in 1 .. Len(calls) : calls[i] = Leave(t)
  BY <1>1, InToSet
<1>3. i # 1
  <2>1. calls # <<>>
    BY SmallSets
  <2>2. Top = calls[1]
    BY <1>1, <2>1, TailPlaces DEF Top
  <2>3. QED BY <1>2, <2>2
<1>4. calls[i].op = "RemoveWaitingThread" /\ calls[i].thread = t
  BY <1>2, CallOps
<1>5. i < Len(calls) /\ calls[i + 1] = ReleaseMutexes(t)
  BY <1>1, <1>2, <1>3, <1>4 DEF Shape, ShapeAt
<1>6. i + 1 \in 1 .. Len(calls)
  BY <1>1, <1>5
<1>7. QED BY <1>1, <1>5, <1>6, InToSet

LEMMA MutexSteps ==
  ASSUME TypeOK, Scheduled, Shape(calls), ListInv, [Next]_vars, NEW m \in Mutex
  PROVE  Kept(m) \/ Released(m) \/ (Taken(m) /\ (Silent => Doomed(m)))
<1>0. CASE UNCHANGED <<lock_count, holding_thread>>
  BY <1>0 DEF Kept
<1>1. CASE WakeupOne
  <2>1. PICK t \in Thread, objs \in Seq(WaitObject) :
          /\ t \in ToSet(waiting_threads[Top.obj]) /\ Acquire(objs, t)
          /\ calls' = WakingCalls(t) \o calls
    BY <1>1, WakeupOneStep
  <2>2. UNCHANGED status /\ Calling("WakeupAllWaitingThreads") /\ Top.obj \in WaitObject
    BY <1>1, WakeupOneStep
  <2>3. InSynch(t) \/ (status[t] = "Dead" /\ Leaving(t))
    <3>1. wait_objects[t] # <<>>
      BY <2>1, <2>2, SmallSets DEF ListInv
    <3>2. QED BY <3>1 DEF ListInv
  <2>4. status[t] = "Dead" => ReleaseMutexes(t) \in ToSet(calls')
    <3>1. HAVE status[t] = "Dead"
    <3>2. Leave(t) \in ToSet(calls) /\ Leave(t) # Top
      BY <2>2, <2>3, <3>1, TopPlace, CallOps DEF InSynch, Leaving
    <3>3. ReleaseMutexes(t) \in ToSet(calls)
      BY <3>2, StoppedBelow
    <3>4. QED BY <2>1, <3>3, PushSet, MadeSequences DEF TypeOK
  <2>5. QED BY <2>1, <2>2, <2>3, <2>4, AcquireHolds DEF Taken, Doomed, InSynch
<1>2. CASE ReleaseThreadMutexes
  <2>1. CASE UNCHANGED <<lock_count, holding_thread>>
    BY <1>0, <2>1
  <2>2. ASSUME NEW n \in Mutex, lock_count' = [lock_count EXCEPT ![n] = 0],
               holding_thread' = [holding_thread EXCEPT ![n] = NoThread]
        PROVE  Kept(m) \/ Released(m)
    BY <2>2 DEF Kept, Released, TypeOK
  <2>3. QED BY <1>2, <2>1, <2>2 DEF ReleaseThreadMutexes, HeldMutexes
<1>3. ASSUME NEW t \in Thread, NEW n \in Mutex, ReleaseMutex(t, n)
      PROVE  Kept(m) \/ Released(m)
  <2>1. /\ lock_count[n] > 0 /\ lock_count[n] \in Nat
        /\ lock_count' = [lock_count EXCEPT ![n] = lock_count[n] - 1]
        /\ \/ lock_count[n] > 1 /\ UNCHANGED holding_thread
           \/ ~(lock_count[n] > 1) /\ holding_thread' = [holding_thread EXCEPT ![n] = NoThread]
    BY <1>3 DEF ReleaseMutex, TypeOK
  <2>2. CASE m # n
    BY <2>1, <2>2 DEF Kept, TypeOK
  <2>3. CASE m = n
    <3>1. lock_count'[n] = lock_count[n] - 1
      BY <2>1 DEF TypeOK
    <3>2. lock_count[n] > 1 => lock_count'[n] > 0
      BY <2>1, <3>1
    <3>3. ~(lock_count[n] > 1) => lock_count'[n] = 0
      BY <2>1, <3>1
    <3>4. ~(lock_count[n] > 1) => holding_thread'[n] = NoThread
      BY <2>1 DEF TypeOK
    <3>5. QED BY <2>1, <2>3, <3>2, <3>3, <3>4 DEF Kept, Released
  <2>4. QED BY <2>2, <2>3
<1>4. ASSUME NEW t \in Thread, NEW objs \in WaitLists[t], NEW wait_all \in BOOLEAN,
             NEW timeout \in Timeouts, WaitSynchronization(t, objs, wait_all, timeout)
      PROVE  Kept(m) \/ (Taken(m) /\ (Silent => Doomed(m)))
  <2>1. /\ Guest(t)
        /\ \/ (\E got \in Seq(WaitObject) : Acquire(got, t)) /\ UNCHANGED status
           \/ UNCHANGED mutex_vars
    BY <1>4, WaitSynchronizationStep
  <2>2. /\ status[t] \in {"Running", "Dead"}
        /\ Silent /\ ~UNCHANGED mutex_vars => status[t] = "Running"
    <3>1. t # NoThread /\ status[t] \in {"Running", "Dead"}
      BY <2>1, GuestThread, ObjectAssumption
    <3>2. ASSUME Silent, ~UNCHANGED mutex_vars PROVE status[t] = "Running"
      <4>1. ~EndSlice /\ ~UNCHANGED vars
        BY <3>2 DEF EndSlice, vars
      <4>2. QED BY <2>1, <3>2, <4>1, GuestRuns
    <3>3. QED BY <3>1, <3>2
  <2>3. CASE UNCHANGED mutex_vars
    BY <2>3 DEF Kept, mutex_vars
  <2>4. ASSUME NEW got \in Seq(WaitObject), Acquire(got, t), UNCHANGED status
        PROVE  Kept(m) \/ (Taken(m) /\ (Silent => Doomed(m)))
    <3>1. Kept(m) \/ (holding_thread'[m] = t /\ lock_count'[m] > 0)
      BY <2>4, AcquireHolds
    <3>2. CASE holding_thread'[m] = t /\ lock_count'[m] > 0 /\ ~UNCHANGED mutex_vars
      <4>1. Taken(m)
        BY <2>2, <2>4, <3>2 DEF Taken
      <4>2. Silent => Doomed(m)
        BY <2>2, <3>2 DEF Doomed
      <4>3. QED BY <4>1, <4>2
    <3>3. QED BY <2>3, <3>1, <3>2
  <2>5. QED BY <2>1, <2>3, <2>4
<1>5. ASSUME NEW t \in Thread, SystemCall(t)
      PROVE  Kept(m) \/ Released(m) \/ (Taken(m) /\ (Silent => Doomed(m)))
  BY <1>0, <1>3, <1>4, <1>5 DEF SystemCall, SleepThread, Clear, SetTimer, CancelTimer,
     ReleaseSemaphore, SetThreadPriority, CreateThread, ExitThread, Stop, TerminateProcess,
     mutex_vars
<1>6. CASE KernelCall
  BY <1>0, <1>1, <1>2, <1>6 DEF KernelCall, WakeupDone, AddWaitingThread, RemoveWaitingThread,
     ResumeFromWait, RearmTimer, UpdatePendingMutexes, TerminateProcessThreads, Stop, mutex_vars
<1>7. QED
  BY <1>0, <1>5, <1>6 DEF Next, ThreadWakeupCallback, SignalEvent, TimerCallback, EndAdvance,
     EndSlice, mutex_vars, vars

LEMMA NextHeld ==
  ASSUME TypeOK, TypeOK', Scheduled, Shape(calls), ListInv, HeldInv, [Next]_vars
  PROVE  HeldInv'
<1>1. ASSUME NEW m \in Mutex PROVE lock_count'[m] > 0 <=> holding_thread'[m] # NoThread
  BY MutexSteps, ObjectAssumption DEF Kept, Released, Taken, HeldInv
<1>2. ASSUME NEW m \in Mutex, holding_thread'[m] # NoThread
      PROVE  status'[holding_thread'[m]] \notin {"Unborn", "Dormant"}
  <2>1. CASE Taken(m)
    BY <2>1 DEF Taken
  <2>2. CASE Kept(m)
    <3>0. PICK t : t = holding_thread[m]
      OBVIOUS
    <3>1. t \in Thread /\ holding_thread'[m] = t /\ status[t] \notin {"Unborn", "Dormant"}
      BY <1>2, <2>2, <3>0 DEF Kept, TypeOK, HeldInv
    <3>2. Steps(t)
      BY <3>1, NextSteps
    <3>3. status'[t] \notin {"Unborn", "Dormant"}
      BY <3>1, <3>2 DEF Steps, Suspended, Resumed, Created, Switched, Stopped, Waiting
    <3>4. QED BY <3>1, <3>3
  <2>3. QED BY <1>2, <2>1, <2>2, MutexSteps DEF Released
<1>3. QED BY <1>1, <1>2 DEF HeldInv

LEMMA NextDead ==
  ASSUME TypeOK, TypeOK', Scheduled, Shape(calls), ListInv, Silent, DeadInv, [Next]_vars
  PROVE  DeadInv'
<1>2. ASSUME NEW m \in Mutex, holding_thread'[m] # NoThread,
             status'[holding_thread'[m]] = "Dead"
      PROVE  ReleaseMutexes(holding_thread'[m]) \in ToSet(calls')
  <2>1. CASE Taken(m) /\ Doomed(m)
    BY <1>2, <2>1 DEF Taken, Doomed
  <2>2. CASE Kept(m)
    <3>0. PICK t : t = holding_thread[m]
      OBVIOUS
    <3>1. t \in Thread /\ holding_thread'[m] = t
      BY <1>2, <2>2, <3>0 DEF Kept, TypeOK
    <3>2. Steps(t)
      BY <3>1, NextSteps
    <3>4. ASSUME status'[t] = "Dead" PROVE ReleaseMutexes(t) \in ToSet(calls')
      <4>1. CASE Stopped(t)
        BY <4>1 DEF Stopped
      <4>2. CASE ~Stopped(t)
        <5>1. status[t] = "Dead"
          BY <3>2, <3>4, <4>2 DEF Steps, Suspended, Resumed, Created, Switched, Waiting
        <5>2. ReleaseMutexes(t) \in ToSet(calls)
          BY <1>2, <3>0, <3>1, <5>1 DEF DeadInv
        <5>3. CASE UNCHANGED calls
          BY <5>2, <5>3
        <5>4. CASE calls' # calls
          <6>1. KernelCall
            <7>1. calls # <<>>
              BY <5>2, SmallSets
            <7>2. QED BY <5>4, <7>1, FirstCalls DEF vars
          <6>2. CASE ReleaseMutexes(t) # Top
            BY <5>2, <6>1, <6>2, CallsKept
          <6>3. CASE ReleaseMutexes(t) = Top
            <7>1. Top.op = "ReleaseThreadMutexes" /\ Top.thread = t
              BY <6>3, CallOps
            <7>2. ReleaseThreadMutexes
              BY <6>1, <7>1 DEF KernelCall, WakeupOne, WakeupDone, AddWaitingThread,
                 RemoveWaitingThread, ResumeFromWait, RearmTimer, UpdatePendingMutexes,
                 TerminateProcessThreads, Calling, Top
            <7>3. m \in HeldMutexes(Top.thread)
              BY <3>0, <7>1 DEF HeldMutexes
            <7>4. PICK n \in HeldMutexes(Top.thread) : calls' = <<Wakeup(n)>> \o calls
              BY <7>2, <7>3 DEF ReleaseThreadMutexes
            <7>5. <<Wakeup(n)>> \in Seq(Call)
              BY MadeCalls DEF HeldMutexes, WaitObject
            <7>6. QED BY <5>2, <7>4, <7>5, PushSet DEF TypeOK
          <6>4. QED BY <6>2, <6>3
        <5>5. QED BY <5>3, <5>4
      <4>3. QED BY <4>1, <4>2
    <3>5. QED BY <1>2, <3>1, <3>4
  <2>3. QED BY <1>2, <2>1, <2>2, MutexSteps DEF Released
<1>3. QED BY <1>2 DEF DeadInv

LEMMA NextStopped ==
  ASSUME TypeOK, TypeOK', Scheduled, Shape(calls), StoppedInv, [Next]_vars
  PROVE  StoppedInv'
<1>3. ASSUME NEW x \in ToSet(calls'), x.op = "ReleaseThreadMutexes" PROVE status'[x.thread] = "Dead"
  <2>1. x.thread \in Thread
    <3>1. x \in Call
      <4>1. calls' \in Seq(Call)
        BY DEF TypeOK
      <4>2. QED BY <4>1, ElementOfSeq DEF ToSet
    <3>2. QED BY <1>3, <3>1, CallFields
  <2>2. CASE x \in ToSet(calls)
    <3>1. status[x.thread] = "Dead" /\ calls # <<>>
      BY <1>3, <2>2, SmallSets DEF StoppedInv
    <3>2. ~Guest(x.thread) /\ ~EndAdvance /\ ~EndSlice
      BY <3>1 DEF Guest, EndAdvance, EndSlice
    <3>3. QED
      BY <2>1, <3>1, <3>2, NextSteps DEF Steps, Suspended, Resumed, Created, Switched, Stopped,
         Waiting
  <2>3. CASE x \notin ToSet(calls)
    <3>1. Next
      BY <2>3 DEF vars
    <3>2. status' = [status EXCEPT ![x.thread] = "Dead"]
      BY <1>3, <2>3, <3>1, KernelCallNew, FirstCalls DEF NewCall, FirstCall
    <3>3. QED BY <2>1, <3>2 DEF TypeOK
  <2>4. QED BY <2>2, <2>3
<1>4. QED BY <1>3 DEF StoppedInv

LEMMA InitMutex == Init => HeldInv /\ DeadInv /\ StoppedInv
<1>1. HAVE Init
<1>2. /\ calls = <<>>
      /\ \A m \in Mutex : lock_count[m] = 0 /\ holding_thread[m] = NoThread
  BY <1>1 DEF Init
<1>3. QED BY <1>2, SmallSets DEF HeldInv, DeadInv, StoppedInv

LEMMA AlwaysHeld == Spec => []HeldInv
<1>1. WaitInv /\ WaitInv' /\ HeldInv /\ [Next]_vars => HeldInv'
  BY NextHeld DEF WaitInv
<1>2. QED BY <1>1, InitMutex, AlwaysWaits, PTL DEF Spec

LEMMA AlwaysStopped == Spec => []StoppedInv
<1>1. WaitInv /\ WaitInv' /\ StoppedInv /\ [Next]_vars => StoppedInv'
  BY NextStopped DEF WaitInv
<1>2. QED BY <1>1, InitMutex, AlwaysWaits, PTL DEF Spec

LEMMA AlwaysDead == SilentSpec => []DeadInv
<1>1. WaitInv /\ WaitInv' /\ DeadInv /\ [Next /\ StoppedAreSilent]_vars => DeadInv'
  BY SilentSteps, NextDead DEF WaitInv
<1>2. QED BY <1>1, InitMutex, SilentRuns, AlwaysWaits, PTL DEF SilentSpec

\* While a thread that TerminateProcess has stopped makes no further system call, a mutex
\* is locked exactly when a thread holds it, and outside of kernel calls that thread
\* lives: no death, of whichever thread, on whichever core and in whatever call, leaves a
\* mutex behind.
THEOREM MutexesOwned == SilentSpec => []MutexOwned
<1>1. ASSUME HeldInv, DeadInv PROVE MutexOwned
  BY <1>1, SmallSets DEF HeldInv, DeadInv, MutexOwned
<1>2. QED BY <1>1, SilentRuns, AlwaysHeld, AlwaysDead, PTL

--------------------------------------------------------------------------------
\* Priorities.

Alive(t)  == status[t] \notin {"Unborn", "Dead"}
BestAt(t) == current_priority[t] = BestPriority(t, HeldMutexes(t), mutex_priority)

\* The current priority of a live thread is what Thread::UpdatePriority computes.
BestInv == \A t \in Thread : Alive(t) => BestAt(t)

\* Nothing that the priority of thread u depends on changes.
Undisturbed(u) ==
  /\ nominal_priority'[u] = nominal_priority[u] /\ current_priority'[u] = current_priority[u]
  /\ HeldMutexes(u)' = HeldMutexes(u)
  /\ \A m \in HeldMutexes(u) : mutex_priority'[m] = mutex_priority[m]

LEMMA UndisturbedBest ==
  ASSUME NEW u \in Thread, Undisturbed(u), BestAt(u)
  PROVE  BestAt(u)'
<1> DEFINE held == HeldMutexes(u)
           S == {mutex_priority[m] : m \in held}
           S2 == {mutex_priority'[m] : m \in held}
<1>1. S = S2
  BY DEF Undisturbed
<1>2. /\ current_priority'[u] = current_priority[u] /\ nominal_priority'[u] = nominal_priority[u]
      /\ HeldMutexes(u)' = held
  BY DEF Undisturbed
<1>3. current_priority[u] = Min({nominal_priority[u]} \cup S)
  BY DEF BestAt, BestPriority
<1>4. current_priority'[u] = Min({nominal_priority'[u]} \cup S2)
  BY <1>1, <1>2, <1>3
<1>5. QED BY <1>2, <1>4 DEF BestAt, BestPriority

\* What a step does to the priority of thread u: nothing, or Thread::UpdatePriority.
Follows(u) == Undisturbed(u) \/ BestAt(u)'

\* Thread::UpdatePriority when the thread's mutexes are known.
LEMMA UpdatedBest ==
  ASSUME TypeOK, NEW u \in Thread, NEW held, HeldMutexes(u)' = held,
         nominal_priority'[u] = nominal_priority[u],
         BoostPriority(u, BestPriority(u, held, mutex_priority'))
  PROVE  BestAt(u)'
<1> DEFINE best == BestPriority(u, held, mutex_priority')
<1>1. current_priority' = [current_priority EXCEPT ![u] = best]
  BY DEF BoostPriority
<1>2. best = Min({nominal_priority'[u]} \cup {mutex_priority'[m] : m \in held})
  BY DEF BestPriority
<1> HIDE DEF best
<1>3. current_priority'[u] = best
  BY <1>1 DEF TypeOK
<1>4. QED BY <1>2, <1>3 DEF BestAt, BestPriority

LEMMA BoostOthers ==
  ASSUME TypeOK, NEW t \in Thread, NEW p, BoostPriority(t, p), NEW u \in Thread, u # t
  PROVE  current_priority'[u] = current_priority[u]
BY DEF BoostPriority, TypeOK

LEMMA AcquireBest ==
  ASSUME TypeOK, HeldInv, NEW t \in Thread, NEW objs \in Seq(WaitObject), Acquire(objs, t),
         UNCHANGED nominal_priority, NEW u \in Thread
  PROVE  Follows(u)
<1> DEFINE Free(m) == m \in ToSet(objs) /\ lock_count[m] = 0
           held == {m \in Mutex : holding_thread'[m] = t}
<1>1. /\ \A m \in Mutex : holding_thread'[m] = IF Free(m) THEN t ELSE holding_thread[m]
      /\ \A m \in Mutex : mutex_priority'[m] = IF Free(m) THEN current_priority[t]
                                               ELSE mutex_priority[m]
      /\ \/ /\ ~\E m \in Mutex : Free(m)
            /\ UNCHANGED current_priority
         \/ BoostPriority(t, BestPriority(t, held, mutex_priority'))
  BY DEF Acquire
<1>2. \A m \in Mutex : Free(m) => holding_thread[m] = NoThread
  BY DEF HeldInv, TypeOK
<1> HIDE DEF Free
<1>3. CASE BoostPriority(t, BestPriority(t, held, mutex_priority')) /\ u = t
  <2>1. HeldMutexes(u)' = held
    BY <1>3 DEF HeldMutexes
  <2> HIDE DEF held
  <2>2. QED BY <1>3, <2>1, UpdatedBest DEF Follows
<1>4. CASE u # t \/ ~\E m \in Mutex : Free(m)
  <2>1. \A m \in Mutex : holding_thread'[m] = u <=> holding_thread[m] = u
    BY <1>1, <1>2, <1>4, ObjectAssumption
  <2>2. HeldMutexes(u)' = HeldMutexes(u)
    BY <2>1 DEF HeldMutexes
  <2>3. \A m \in HeldMutexes(u) : mutex_priority'[m] = mutex_priority[m]
    BY <1>1, <1>2, ObjectAssumption DEF HeldMutexes
  <2>4. CASE UNCHANGED current_priority
    BY <2>2, <2>3, <2>4 DEF Undisturbed, Follows
  <2>5. CASE current_priority' # current_priority
    <3>1. u # t /\ BoostPriority(t, BestPriority(t, held, mutex_priority'))
      <4>1. CASE \E m \in Mutex : Free(m)
        BY <1>1, <1>4, <4>1
      <4>2. CASE ~\E m \in Mutex : Free(m)
        BY <2>5, <4>2 DEF Acquire, Free
      <4>3. QED BY <4>1, <4>2
    <3>2. current_priority'[u] = current_priority[u]
      BY <3>1, BoostOthers
    <3>3. QED BY <2>2, <2>3, <3>2 DEF Undisturbed, Follows
  <2>6. QED BY <2>4, <2>5
<1>5. QED BY <1>1, <1>3, <1>4

LEMMA UpdateMutexBest ==
  ASSUME TypeOK, NEW m \in Mutex, NEW ws, UpdateMutexPriority(m, ws),
         UNCHANGED <<nominal_priority, holding_thread>>, NEW u \in Thread
  PROVE  Follows(u)
<1>0. PICK h : h = holding_thread[m]
  OBVIOUS
<1>1. HeldMutexes(u)' = HeldMutexes(u)
  BY DEF HeldMutexes
<1>2. CASE UNCHANGED <<mutex_priority, current_priority>>
  BY <1>1, <1>2 DEF Undisturbed, Follows
<1>3. CASE ~UNCHANGED <<mutex_priority, current_priority>>
  <2>1. PICK b : /\ h # NoThread /\ mutex_priority' = [mutex_priority EXCEPT ![m] = b]
                 /\ BoostPriority(h, BestPriority(h, HeldMutexes(h), mutex_priority'))
    BY <1>0, <1>3, Zenon DEF UpdateMutexPriority
  <2>2. h \in Thread
    BY <1>0, <2>1 DEF TypeOK
  <2>3. CASE u = h
    BY <1>1, <2>1, <2>3, UpdatedBest DEF Follows
  <2>4. CASE u # h
    <3>1. current_priority'[u] = current_priority[u]
      BY <2>1, <2>2, <2>4, BoostOthers
    <3>2. \A n \in HeldMutexes(u) : n \in Mutex /\ n # m
      BY <1>0, <2>4 DEF HeldMutexes
    <3>3. \A n \in HeldMutexes(u) : mutex_priority'[n] = mutex_priority[n]
      BY <2>1, <3>2 DEF TypeOK
    <3>4. QED BY <1>1, <3>1, <3>3 DEF Undisturbed, Follows
  <2>5. QED BY <2>3, <2>4
<1>4. QED BY <1>2, <1>3

\* A step that leaves priorities and holders alone.
LEMMA SameBest ==
  ASSUME UNCHANGED <<nominal_priority, current_priority, mutex_priority, holding_thread>>,
         NEW u \in Thread
  PROVE  Follows(u)
BY DEF Undisturbed, Follows, HeldMutexes

\* A mutex is taken from a thread that is stopped.
Loses(u) ==
  /\ Calling("ReleaseThreadMutexes") /\ Top.thread = u
  /\ nominal_priority'[u] = nominal_priority[u] /\ current_priority'[u] = current_priority[u]
  /\ HeldMutexes(u)' \in SUBSET HeldMutexes(u)
  /\ \A m \in HeldMutexes(u) : mutex_priority'[m] = mutex_priority[m]

LEMMA KernelCallBest ==
  ASSUME TypeOK, Shape(calls), HeldInv, KernelCall, NEW u \in Thread
  PROVE  Follows(u) \/ Loses(u)
<1>1. CASE UNCHANGED <<nominal_priority, current_priority, mutex_priority, holding_thread>>
  BY <1>1, SameBest
<1>2. CASE WakeupOne
  BY <1>2, WakeupOneStep, AcquireBest
<1>3. CASE AddWaitingThread
  <2>1. UNCHANGED <<nominal_priority, holding_thread>>
    BY <1>3 DEF AddWaitingThread
  <2>2. \/ \E m \in Mutex : \E ws : UpdateMutexPriority(m, ws)
        \/ UNCHANGED <<mutex_priority, current_priority>>
    BY <1>3 DEF AddWaitingThread
  <2>3. QED BY <1>1, <2>1, <2>2, UpdateMutexBest
<1>4. CASE RemoveWaitingThread
  <2>1. UNCHANGED <<nominal_priority, holding_thread>>
    BY <1>4 DEF RemoveWaitingThread
  <2>2. \/ \E m \in Mutex : \E ws : UpdateMutexPriority(m, ws)
        \/ UNCHANGED <<mutex_priority, current_priority>>
    BY <1>4 DEF RemoveWaitingThread
  <2>3. QED BY <1>1, <2>1, <2>2, UpdateMutexBest
<1>5. CASE UpdatePendingMutexes
  <2>1. UNCHANGED <<nominal_priority, holding_thread>>
    BY <1>5 DEF UpdatePendingMutexes, wait_vars
  <2>2. Top \in Call /\ Top.op = "UpdatePending"
    BY <1>5, TopPlace DEF UpdatePendingMutexes
  <2>3. Top.mutexes \in SUBSET Mutex
    BY <2>2, CallFields
  <2>4. \/ \E m \in Mutex : \E ws : UpdateMutexPriority(m, ws)
        \/ UNCHANGED <<mutex_priority, current_priority>>
    BY <1>5, <2>3, Zenon DEF UpdatePendingMutexes
  <2>5. QED BY <1>1, <2>1, <2>4, UpdateMutexBest
<1>6. CASE ReleaseThreadMutexes
  <2>0. PICK t : t = Top.thread
    OBVIOUS
  <2>1. /\ UNCHANGED <<nominal_priority, current_priority, mutex_priority>>
        /\ \/ UNCHANGED holding_thread
           \/ \E m \in Mutex : /\ holding_thread[m] = t
                               /\ holding_thread' = [holding_thread EXCEPT ![m] = NoThread]
    BY <1>6, <2>0 DEF ReleaseThreadMutexes, priority_vars, HeldMutexes
  <2>2. ASSUME NEW m \in Mutex, holding_thread[m] = t,
               holding_thread' = [holding_thread EXCEPT ![m] = NoThread]
        PROVE  Follows(u) \/ Loses(u)
    <3>1. u # NoThread /\ \A n \in Mutex : holding_thread'[n] = IF n = m THEN NoThread
                                                              ELSE holding_thread[n]
      BY <2>2, ObjectAssumption DEF TypeOK
    <3>2. CASE u # t
      <4>1. HeldMutexes(u)' = HeldMutexes(u)
        BY <2>2, <3>1, <3>2 DEF HeldMutexes
      <4>2. QED BY <2>1, <4>1 DEF Undisturbed, Follows
    <3>3. CASE u = t
      <4>1. HeldMutexes(u)' \in SUBSET HeldMutexes(u)
        BY <3>1 DEF HeldMutexes
      <4>2. Calling("ReleaseThreadMutexes") /\ Top.thread = u
        BY <1>6, <2>0, <3>3 DEF ReleaseThreadMutexes
      <4>3. QED BY <2>1, <4>1, <4>2 DEF Loses
    <3>4. QED BY <3>2, <3>3
  <2>3. QED BY <1>1, <2>1, <2>2
<1>7. QED
  BY <1>1, <1>2, <1>3, <1>4, <1>5, <1>6 DEF KernelCall, WakeupDone, ResumeFromWait, RearmTimer,
     TerminateProcessThreads, Stop, priority_vars, mutex_vars

LEMMA SystemCallBest ==
  ASSUME TypeOK, HeldInv, NEW t \in Thread, SystemCall(t), NEW u \in Thread, status[u] # "Unborn"
  PROVE  Follows(u)
<1>1. CASE UNCHANGED <<nominal_priority, current_priority, mutex_priority, holding_thread>>
  BY <1>1, SameBest
<1>2. ASSUME NEW objs \in WaitLists[t], NEW wait_all \in BOOLEAN,
             NEW timeout \in Timeouts, WaitSynchronization(t, objs, wait_all, timeout)
      PROVE  Follows(u)
  <2>1. /\ UNCHANGED nominal_priority
        /\ \/ \E got \in Seq(WaitObject) : Acquire(got, t)
           \/ UNCHANGED <<current_priority, mutex_vars>>
    BY <1>2, WaitSynchronizationStep
  <2>2. QED BY <1>1, <2>1, AcquireBest DEF mutex_vars
<1>3. ASSUME NEW m \in Mutex, ReleaseMutex(t, m) PROVE Follows(u)
  <2>1. UNCHANGED <<nominal_priority, mutex_priority>> /\ holding_thread[m] = t
    BY <1>3 DEF ReleaseMutex
  <2>2. CASE UNCHANGED <<holding_thread, current_priority>>
    BY <1>1, <2>1, <2>2
  <2>3. CASE ~UNCHANGED <<holding_thread, current_priority>>
    <3>0. PICK held : held = HeldMutexes(t) \ {m}
      OBVIOUS
    <3>1. /\ holding_thread' = [holding_thread EXCEPT ![m] = NoThread]
          /\ BoostPriority(t, BestPriority(t, held, mutex_priority'))
      BY <1>3, <2>1, <2>3, <3>0 DEF ReleaseMutex
    <3>2. \A n \in Mutex : holding_thread'[n] = IF n = m THEN NoThread ELSE holding_thread[n]
      BY <3>1 DEF TypeOK
    <3>3. u # NoThread /\ t # NoThread
      BY ObjectAssumption
    <3>4. CASE u = t
      <4>1. HeldMutexes(u)' = held
        BY <3>0, <3>2, <3>3, <3>4 DEF HeldMutexes
      <4>2. QED BY <2>1, <3>1, <3>4, <4>1, UpdatedBest DEF Follows
    <3>5. CASE u # t
      <4>1. HeldMutexes(u)' = HeldMutexes(u)
        BY <2>1, <3>2, <3>3, <3>5 DEF HeldMutexes
      <4>2. current_priority'[u] = current_priority[u]
        BY <3>1, <3>5, BoostOthers
      <4>3. QED BY <2>1, <4>1, <4>2 DEF Undisturbed, Follows
    <3>6. QED BY <3>4, <3>5
  <2>4. QED BY <2>2, <2>3
<1>4. ASSUME NEW x \in Thread, NEW p \in Priorities, SetThreadPriority(t, x, p) PROVE Follows(u)
  <2>1. /\ nominal_priority' = [nominal_priority EXCEPT ![x] = p]
        /\ BoostPriority(x, Min({p} \cup {mutex_priority[m] : m \in HeldMutexes(x)}))
        /\ UNCHANGED <<mutex_priority, holding_thread>>
    BY <1>4 DEF SetThreadPriority, mutex_vars
  <2>2. HeldMutexes(u)' = HeldMutexes(u)
    BY <2>1 DEF HeldMutexes
  <2>3. CASE u = x
    <3>1. nominal_priority'[u] = p
      BY <2>1, <2>3 DEF TypeOK
    <3>2. current_priority'[u] = Min({p} \cup {mutex_priority[m] : m \in HeldMutexes(u)})
      BY <2>1, <2>3 DEF TypeOK, BoostPriority
    <3>3. QED BY <2>1, <2>2, <3>1, <3>2 DEF BestAt, BestPriority, Follows
  <2>4. CASE u # x
    <3>1. nominal_priority'[u] = nominal_priority[u]
      BY <2>1, <2>4 DEF TypeOK
    <3>2. current_priority'[u] = current_priority[u]
      BY <2>1, <2>4, BoostOthers
    <3>3. QED BY <2>1, <2>2, <3>1, <3>2 DEF Undisturbed, Follows
  <2>5. QED BY <2>3, <2>4
<1>5. ASSUME NEW x \in Thread, NEW p \in Priorities, CreateThread(t, x, p) PROVE Follows(u)
  <2>1. /\ status[x] = "Unborn"
        /\ nominal_priority' = [nominal_priority EXCEPT ![x] = p]
        /\ current_priority' = [current_priority EXCEPT ![x] = p]
        /\ UNCHANGED <<mutex_priority, holding_thread>>
    BY <1>5 DEF CreateThread, mutex_vars
  <2>2. u # x
    BY <2>1
  <2>3. /\ nominal_priority'[u] = nominal_priority[u] /\ current_priority'[u] = current_priority[u]
        /\ HeldMutexes(u)' = HeldMutexes(u)
    BY <2>1, <2>2 DEF TypeOK, HeldMutexes
  <2>4. QED BY <2>1, <2>3 DEF Undisturbed, Follows
<1>6. QED
  BY <1>1, <1>2, <1>3, <1>4, <1>5 DEF SystemCall, SleepThread, Clear, SetTimer, CancelTimer,
     ReleaseSemaphore, ExitThread, Stop, TerminateProcess, priority_vars, mutex_vars

\* A new thread holds no mutex.
LEMMA CreatedBest ==
  ASSUME TypeOK, HeldInv, NEW t \in Thread, NEW u \in Thread, NEW p \in Priorities,
         CreateThread(t, u, p)
  PROVE  BestAt(u)'
<1>1. /\ status[u] = "Unborn" /\ p \in Priority
      /\ nominal_priority' = [nominal_priority EXCEPT ![u] = p]
      /\ current_priority' = [current_priority EXCEPT ![u] = p]
      /\ UNCHANGED <<mutex_priority, holding_thread>>
  BY ConstantAssumption DEF CreateThread, mutex_vars
<1>2. HeldMutexes(u)' = {}
  BY <1>1, ObjectAssumption DEF HeldMutexes, HeldInv
<1>3. nominal_priority'[u] = p /\ current_priority'[u] = p
  BY <1>1 DEF TypeOK
<1>4. Min({p}) = p
  BY <1>1, MinPriority
<1>5. BestPriority(u, HeldMutexes(u), mutex_priority)' = p
  <2>1. BestPriority(u, HeldMutexes(u), mutex_priority)' = Min({p} \cup {})
    BY <1>2, <1>3 DEF BestPriority
  <2>2. {p} \cup {} = {p}
    OBVIOUS
  <2>3. QED BY <1>4, <2>1, <2>2
<1>6. QED BY <1>3, <1>5 DEF BestAt

\* The current thread of a core has been created.
CurrentBorn ==
  \A c \in Core : current_thread[c] # NoThread => status[current_thread[c]] # "Unborn"

LEMMA NextBorn ==
  ASSUME TypeOK, TypeOK', Scheduled, CurrentBorn, [Next]_vars
  PROVE  CurrentBorn'
<1> SUFFICES ASSUME NEW c \in Core, current_thread'[c] # NoThread
             PROVE  status'[current_thread'[c]] # "Unborn"
  BY DEF CurrentBorn
<1>1. CASE current_thread'[c] = current_thread[c]
  <2>1. current_thread[c] \in Thread /\ status[current_thread[c]] # "Unborn"
    BY <1>1 DEF CurrentBorn, TypeOK
  <2>2. QED
    BY <1>1, <2>1, NextSteps DEF Steps, Suspended, Resumed, Created, Switched, Stopped, Waiting
<1>2. CASE current_thread'[c] # current_thread[c]
  <2>1. Reschedule(RunningCore)
    <3>1. EndAdvance \/ EndSlice
      BY <1>2, LoopKept
    <3>2. QED BY <1>2, <3>1 DEF EndAdvance, EndSlice
  <2>0. RunningCore \in Core
    BY RunningCoreType
  <2>2. PICK next, saved :
          /\ current_thread' = [current_thread EXCEPT ![RunningCore] = next]
          /\ status' = IF next = NoThread THEN saved ELSE [saved EXCEPT ![next] = "Running"]
    BY <2>1, Zenon DEF Reschedule
  <2>3. current_thread'[c] = next
    BY <1>2, <2>0, <2>2 DEF TypeOK
  <2>4. next \in Thread /\ status' = [saved EXCEPT ![next] = "Running"]
    BY <2>2, <2>3 DEF TypeOK
  <2>5. status'[next] = "Running"
    <3>1. next \in DOMAIN status' /\ DOMAIN status' = DOMAIN saved
      BY <2>4 DEF TypeOK
    <3>2. QED BY <2>4, <3>1
  <2>6. QED BY <2>3, <2>5
<1>3. QED BY <1>1, <1>2

LEMMA AlwaysBorn == Spec => []CurrentBorn
<1>1. Init => CurrentBorn
  BY DEF Init, CurrentBorn
<1>2. WaitInv /\ WaitInv' /\ CurrentBorn /\ [Next]_vars => CurrentBorn'
  BY NextBorn DEF WaitInv
<1>3. QED BY <1>1, <1>2, AlwaysWaits, PTL DEF Spec

\* A thread comes to be when it is created.
LEMMA ComesAlive ==
  ASSUME TypeOK, Scheduled, CurrentBorn, [Next]_vars, NEW u \in Thread,
         status[u] = "Unborn", status'[u] # "Unborn"
  PROVE  \E t \in Thread, p \in Priorities : CreateThread(t, u, p)
<1>0. status[u] = "Unborn"
  OBVIOUS
<1>1. status[u] = "Unborn" /\ status'[u] \in {"Ready", "Dormant"}
  <2>1. ~Guest(u)
    BY GuestThread
  <2>2. ~Stopped(u)
    <3>1. ASSUME Stopped(u) PROVE FALSE
      <4>1. Top.core \in Core /\ u = current_thread[Top.core]
        BY <1>0, <2>1, <3>1, Zenon DEF Stopped
      <4>2. u # NoThread
        BY ObjectAssumption
      <4>3. QED BY <1>0, <4>1, <4>2 DEF CurrentBorn
    <3>2. QED BY <3>1
  <2>3. QED BY <2>1, <2>2, NextSteps DEF Steps, Suspended, Resumed, Created, Switched, Waiting
<1>2. ~KernelCall
  <2>1. ASSUME KernelCall PROVE FALSE
    <3>1. CASE UNCHANGED status
      BY <1>1, <3>1
    <3>2. CASE ResumeFromWait
      <4>1. Top.thread \in Thread
        BY <3>2, TopPlace, CallFields DEF ResumeFromWait
      <4>2. QED BY <1>1, <3>2, <4>1 DEF ResumeFromWait, TypeOK, Waiting
    <3>3. ASSUME NEW t \in Thread, NEW more, Stop(t, more) PROVE FALSE
      BY <1>1, <3>3 DEF Stop, TypeOK
    <3>4. QED
      BY <2>1, <3>1, <3>2, <3>3, TerminateStep DEF KernelCall, WakeupOne, WakeupDone,
         AddWaitingThread, RemoveWaitingThread, ReleaseThreadMutexes, RearmTimer,
         UpdatePendingMutexes, StopsOne
  <2>2. QED BY <2>1
<1>3. ~EndAdvance /\ ~EndSlice
  BY <1>1, LoopStatus
<1>4. PICK t \in Thread : SystemCall(t)
  BY <1>1, <1>2, <1>3 DEF Next, ThreadWakeupCallback, SignalEvent, TimerCallback, vars
<1>5. ASSUME NEW x \in Thread, NEW p \in Priorities, CreateThread(t, x, p) PROVE x = u
  BY <1>1, <1>5 DEF CreateThread, TypeOK
<1>6. ASSUME NEW s, s \notin {"Ready", "Dormant"}, status' = [status EXCEPT ![t] = s] PROVE FALSE
  BY <1>1, <1>6 DEF TypeOK
<1>7. \E x \in Thread, p \in Priorities : CreateThread(t, x, p)
  BY <1>1, <1>4, <1>6 DEF SystemCall, WaitSynchronization, SleepThread, Clear, SetTimer,
     CancelTimer, ReleaseSemaphore, ReleaseMutex, SetThreadPriority, ExitThread, Stop,
     TerminateProcess
<1>8. QED BY <1>5, <1>7

LEMMA NextPriority ==
  ASSUME TypeOK, Scheduled, Shape(calls), HeldInv, [Next]_vars,
         NEW u \in Thread, status[u] # "Unborn"
  PROVE  Follows(u) \/ Loses(u)
<1>1. CASE UNCHANGED <<nominal_priority, current_priority, mutex_priority, holding_thread>>
  BY <1>1, SameBest
<1>2. CASE EndAdvance \/ EndSlice
  BY <1>1, <1>2, LoopStatus
<1>3. QED
  BY <1>1, <1>2, KernelCallBest, SystemCallBest DEF Next, ThreadWakeupCallback,
     SignalEvent, TimerCallback, priority_vars, mutex_vars, vars

LEMMA NextBest ==
  ASSUME TypeOK, Scheduled, Shape(calls), CurrentBorn, HeldInv, StoppedInv, Silent, BestInv,
         [Next]_vars
  PROVE  BestInv'
<1> SUFFICES ASSUME NEW u \in Thread, Alive(u)' PROVE BestAt(u)'
  BY DEF BestInv, Alive, BestAt
<1>1. CASE ~Alive(u)
  <2>1. status[u] = "Unborn" /\ status'[u] # "Unborn"
    BY <1>1, DeadStayDead DEF Alive
  <2>2. QED BY <2>1, ComesAlive, CreatedBest
<1>2. CASE Alive(u)
  <2>1. BestAt(u) /\ status[u] # "Unborn"
    BY <1>2 DEF BestInv, Alive, BestAt
  <2>2. ~Loses(u)
    <3>1. ASSUME Loses(u) PROVE FALSE
      <4>1. Top \in ToSet(calls) /\ Top.op = "ReleaseThreadMutexes" /\ Top.thread = u
        BY <3>1, TopSet, TopPlace DEF Loses
      <4>2. QED BY <1>2, <4>1 DEF StoppedInv, Alive
    <3>2. QED BY <3>1
  <2>3. QED BY <2>1, <2>2, NextPriority, UndisturbedBest DEF Follows
<1>3. QED BY <1>1, <1>2

\* A thread that has been created never runs at a priority worse than its own or than
\* that of a mutex it holds.
BoundAt(t) ==
  /\ current_priority[t] <= nominal_priority[t]
  /\ \A m \in HeldMutexes(t) : current_priority[t] <= mutex_priority[m]
BoundInv == \A t \in Thread : status[t] # "Unborn" => BoundAt(t)

LEMMA BestBound == TypeOK => \A t \in Thread : BestAt(t) => BoundAt(t)
<1> SUFFICES ASSUME TypeOK, NEW t \in Thread, BestAt(t) PROVE BoundAt(t)
  OBVIOUS
<1> DEFINE S == {nominal_priority[t]} \cup {mutex_priority[m] : m \in HeldMutexes(t)}
<1>1. S \in SUBSET Priority /\ S # {}
  BY DEF TypeOK, HeldMutexes
<1>2. current_priority[t] = Min(S)
  BY DEF BestAt, BestPriority
<1>3. \A p \in S : Min(S) <= p
  BY <1>1, MinPriority
<1>4. QED BY <1>2, <1>3 DEF BoundAt

LEMMA NextBound ==
  ASSUME TypeOK, TypeOK', Scheduled, Shape(calls), CurrentBorn, HeldInv, BoundInv, [Next]_vars
  PROVE  BoundInv'
<1> SUFFICES ASSUME NEW u \in Thread, status'[u] # "Unborn" PROVE BoundAt(u)'
  BY DEF BoundInv, BoundAt
<1>1. BestAt(u)' => BoundAt(u)'
  <2>1. (TypeOK => \A t \in Thread : BestAt(t) => BoundAt(t))'
    BY BestBound, PTL
  <2>2. QED BY <2>1
<1>2. CASE status[u] = "Unborn"
  BY <1>1, <1>2, ComesAlive, CreatedBest
<1>3. CASE status[u] # "Unborn"
  <2>1. BoundAt(u)
    BY <1>3 DEF BoundInv
  <2>2. CASE Undisturbed(u)
    BY <2>1, <2>2 DEF Undisturbed, BoundAt
  <2>3. CASE Loses(u)
    BY <2>1, <2>3 DEF Loses, BoundAt
  <2>4. QED BY <1>1, <1>3, <2>2, <2>3, NextPriority DEF Follows
<1>4. QED BY <1>2, <1>3

LEMMA InitBest == Init => BestInv /\ \A t \in Thread : BestAt(t)
<1>1. HAVE Init
<1>2. /\ nominal_priority = InitialPriority /\ current_priority = InitialPriority
      /\ \A m \in Mutex : holding_thread[m] = NoThread
  BY <1>1 DEF Init
<1>3. ASSUME NEW t \in Thread PROVE BestAt(t)
  <2>0. PICK p : p = InitialPriority[t]
    OBVIOUS
  <2>1. HeldMutexes(t) = {} /\ p \in Priority
    BY <1>2, <2>0, ObjectAssumption, ConstantAssumption DEF HeldMutexes
  <2>2. Min({p}) = p
    BY <2>1, MinPriority
  <2>3. {p} \cup {} = {p}
    OBVIOUS
  <2>4. BestPriority(t, HeldMutexes(t), mutex_priority) = Min({p} \cup {})
    BY <1>2, <2>0, <2>1 DEF BestPriority
  <2>5. QED BY <1>2, <2>0, <2>2, <2>3, <2>4 DEF BestAt
<1>4. QED BY <1>3 DEF BestInv, BestAt

LEMMA AlwaysBest == SilentSpec => []BestInv
<1>1. WaitInv /\ CurrentBorn /\ HeldInv /\ StoppedInv /\ BestInv /\ [Next /\ StoppedAreSilent]_vars
      => BestInv'
  BY SilentSteps, NextBest DEF WaitInv
<1>2. QED BY <1>1, InitBest, SilentRuns, AlwaysWaits, AlwaysBorn, AlwaysHeld, AlwaysStopped, PTL
       DEF SilentSpec

LEMMA AlwaysBound == Spec => []BoundInv
<1>1. Init => BoundInv
  BY InitBest, InitType, BestBound DEF BoundInv
<1>2. WaitInv /\ WaitInv' /\ CurrentBorn /\ HeldInv /\ BoundInv /\ [Next]_vars => BoundInv'
  BY NextBound DEF WaitInv
<1>3. QED BY <1>1, <1>2, AlwaysWaits, AlwaysBorn, AlwaysHeld, PTL DEF Spec

\* While a thread that TerminateProcess has stopped makes no further system call, the
\* current priority of every live thread is the best of its own and of the mutexes it
\* holds, after every single step of every kernel call: no order of boosts, releases,
\* priority changes and deaths, on any core, leaves a thread with a boost it should have
\* lost.
THEOREM PrioritiesAreBest == SilentSpec => []PriorityIsBest
<1>1. ASSUME TypeOK, BestInv PROVE PriorityIsBest
  <2> SUFFICES ASSUME NEW t \in Thread, status[t] \notin {"Unborn", "Dead"}
               PROVE  /\ \A p \in {nominal_priority[t]}
                                    \cup {mutex_priority[m] : m \in HeldMutexes(t)} :
                           current_priority[t] <= p
                      /\ \/ current_priority[t] = nominal_priority[t]
                         \/ \E m \in HeldMutexes(t) : current_priority[t] = mutex_priority[m]
    BY DEF PriorityIsBest
  <2> DEFINE S == {nominal_priority[t]} \cup {mutex_priority[m] : m \in HeldMutexes(t)}
  <2>1. S \in SUBSET Priority /\ S # {}
    BY <1>1 DEF TypeOK, HeldMutexes
  <2>2. current_priority[t] = Min(S)
    BY <1>1 DEF BestInv, Alive, BestAt, BestPriority
  <2>3. Min(S) \in S /\ \A p \in S : Min(S) <= p
    BY <2>1, MinPriority
  <2>4. QED BY <2>2, <2>3
<1>2. WaitInv => TypeOK
  BY DEF WaitInv
<1>3. QED BY <1>1, <1>2, SilentRuns, AlwaysWaits, AlwaysBest, PTL

--------------------------------------------------------------------------------
\* The thread that executes.

\* A thread that is to become ready: its core reschedules then.
WillResume == \E t \in Thread : Resume(t) \in ToSet(calls) /\ status[t] \in Waiting

\* A thread that goes to sleep or changes priorities has halted the core; a thread that
\* leaves its lists is paired with its resumption or its end.
HaltedCalls ==
  \A x \in ToSet(calls) : x.op \in {"AddWaitingThread", "UpdatePending"} => halted
PairedCalls == \A t \in Thread : Leave(t) \in ToSet(calls) => Paired(t)

\* Outside of a loop step and of kernel calls, priorities and queues only change in
\* system calls that end in a reschedule, but for a thread that is only just created.
Quiet ==
  /\ UNCHANGED ready_queue
  /\ \A u \in Thread : status[u] # "Unborn" => current_priority'[u] = current_priority[u]

LEMMA QuietOrHalted ==
  ASSUME TypeOK, [Next]_vars, ~KernelCall, ~EndAdvance, ~EndSlice, to_advance = <<>>
  PROVE  halted' \/ Quiet
<1>1. PrepareReschedule => halted'
  BY DEF PrepareReschedule
<1>0. UNCHANGED <<current_priority, ready_queue>> => Quiet
  BY DEF Quiet
<1>2. ASSUME NEW t \in Thread, NEW objs \in WaitLists[t], NEW wait_all \in BOOLEAN,
             NEW timeout \in Timeouts, WaitSynchronization(t, objs, wait_all, timeout)
      PROVE  halted' \/ Quiet
  BY <1>0, <1>1, <1>2, WaitSynchronizationStep, AcquireBoost
<1>3. ASSUME NEW t \in Thread, NEW u \in Thread, NEW p, CreateThread(t, u, p)
      PROVE  halted' \/ Quiet
  <2>1. /\ status[u] = "Unborn"
        /\ current_priority' = [current_priority EXCEPT ![u] = p]
        /\ PrepareReschedule \/ UNCHANGED ready_queue
    BY <1>3 DEF CreateThread
  <2>2. QED BY <1>1, <2>1 DEF Quiet, TypeOK
<1>4. ASSUME NEW t \in Thread, SystemCall(t) PROVE halted' \/ Quiet
  BY <1>0, <1>1, <1>2, <1>3, <1>4 DEF SystemCall, SleepThread, Clear, SetTimer, CancelTimer,
     ReleaseSemaphore, ReleaseMutex, SetThreadPriority, ExitThread, TerminateProcess,
     priority_vars
<1>5. QED
  BY <1>0, <1>4 DEF Next, ThreadWakeupCallback, SignalEvent, TimerCallback, priority_vars, vars

LEMMA KernelQuiet ==
  ASSUME TypeOK, KernelCall, ~AddWaitingThread, ~UpdatePendingMutexes, ~TerminateProcessThreads,
         ~RemoveWaitingThread, to_advance = <<>>
  PROVE  halted' \/ UNCHANGED <<current_priority, ready_queue>>
<1>1. PrepareReschedule => halted'
  BY DEF PrepareReschedule
<1>2. CASE WakeupOne
  BY <1>1, <1>2, WakeupOneStep, AcquireBoost
<1>3. QED
  BY <1>1, <1>2 DEF KernelCall, WakeupDone, ResumeFromWait, ReleaseThreadMutexes, RearmTimer,
     priority_vars

\* A thread that will be resumed stays waiting until its turn comes.
LEMMA ResumeKept ==
  ASSUME TypeOK, Scheduled, Shape(calls), KernelCall, NEW t \in Thread,
         Resume(t) \in ToSet(calls), status[t] \in Waiting, Resume(t) # Top
  PROVE  Resume(t) \in ToSet(calls') /\ status'[t] \in Waiting
<1>1. Resume(t) \in ToSet(calls')
  BY CallsKept
<1>2. calls # <<>>
  BY SmallSets
<1>3. ~TerminateProcessThreads
  <2>1. ASSUME TerminateProcessThreads PROVE FALSE
    <3>1. \A i \in 1 .. Len(calls) : calls[i].op = "TerminateProcessThreads"
      BY <2>1, TerminateStep, TerminateStack
    <3>2. PICK i \in 1 .. Len(calls) : calls[i] = Resume(t)
      BY InToSet DEF TypeOK
    <3>3. QED BY <3>1, <3>2, CallOps
  <2>2. QED BY <2>1
<1>4. CASE ResumeFromWait
  <2>0. PICK u : u = Top.thread
    OBVIOUS
  <2>1. Top \in Call /\ Top.op = "ResumeFromWait"
    BY <1>4, TopPlace DEF ResumeFromWait
  <2>2. u \in Thread /\ u # t
    BY <2>0, <2>1, CallFields, CallForms
  <2>3. UNCHANGED status \/ status' = [status EXCEPT ![u] = "Ready"]
    BY <1>4, <2>0 DEF ResumeFromWait
  <2>4. status'[t] = status[t]
    BY <2>2, <2>3 DEF TypeOK
  <2>5. QED BY <1>1, <2>4
<1>5. CASE UNCHANGED status
  BY <1>1, <1>5
<1>6. QED
  BY <1>3, <1>4, <1>5 DEF KernelCall, WakeupOne, WakeupDone, AddWaitingThread,
     RemoveWaitingThread, ReleaseThreadMutexes, RearmTimer, UpdatePendingMutexes

\* When the mutexes of a dead thread are released, only terminations remain below.
LEMMA BelowRelease ==
  ASSUME TypeOK, Shape(calls), NEW x \in ToSet(calls), calls # <<>>,
         Top.op \in {"ReleaseThreadMutexes", "TerminateProcessThreads"}, x # Top
  PROVE  x.op = "TerminateProcessThreads"
<1>1. calls \in Seq(Call) /\ Len(calls) \in Nat
  BY DEF TypeOK
<1>2. Top = calls[1] /\ 1 \in 1 .. Len(calls)
  BY <1>1, TailPlaces DEF Top
<1>3. PICK i \in 1 .. Len(calls) : calls[i] = x
  BY <1>1, InToSet
<1>4. i \in 1 + 1 .. Len(calls)
  BY <1>1, <1>2, <1>3
<1>5. QED BY <1>2, <1>3, <1>4 DEF Shape, ShapeAt

LEMMA NextHalted ==
  ASSUME TypeOK, Scheduled, Shape(calls), HaltedCalls, [Next]_vars
  PROVE  HaltedCalls'
<1> SUFFICES ASSUME NEW x \in ToSet(calls'), x.op \in {"AddWaitingThread", "UpdatePending"}
             PROVE  halted'
  BY DEF HaltedCalls
<1>1. CASE EndAdvance \/ EndSlice
  <2>1. calls' = <<>>
    BY <1>1, LoopStatus
  <2>2. QED BY <2>1, SmallSets
<1>2. CASE ~EndAdvance /\ ~EndSlice
  <2>0. halted => halted'
    BY <1>2, LoopKept
  <2>1. CASE x \in ToSet(calls)
    BY <2>0, <2>1 DEF HaltedCalls
  <2>2. CASE x \notin ToSet(calls)
    <3>1. Next
      BY <2>2 DEF vars
    <3>2. CASE KernelCall
      <4>1. Calling("AddWaitingThread") \/ Calling("UpdatePending")
        BY <2>2, <3>2, KernelCallNew DEF NewCall, AddWaitingThread, UpdatePendingMutexes
      <4>2. PICK op \in {"AddWaitingThread", "UpdatePending"} : Calling(op)
        BY <4>1
      <4>3. Top \in ToSet(calls) /\ Top.op = op
        BY <4>2, TopSet, TopPlace
      <4>4. QED BY <2>0, <4>3 DEF HaltedCalls
    <3>3. CASE ~KernelCall
      BY <3>1, <3>3, FirstCalls DEF FirstCall
    <3>4. QED BY <3>2, <3>3
  <2>3. QED BY <2>1, <2>2
<1>3. QED BY <1>1, <1>2

LEMMA NextPaired ==
  ASSUME TypeOK, Scheduled, Shape(calls), ListInv, PairedCalls, [Next]_vars
  PROVE  PairedCalls'
<1> SUFFICES ASSUME NEW t \in Thread, Leave(t) \in ToSet(calls') PROVE Paired(t)'
  BY DEF PairedCalls
<1>1. CASE UNCHANGED vars
  BY <1>1 DEF vars, PairedCalls, Paired
<1>2. CASE Next /\ ~KernelCall
  BY <1>2, FirstCalls DEF FirstCall
<1>3. CASE KernelCall
  <2>1. CASE Leave(t) \in ToSet(calls)
    <3>0. calls # <<>>
      BY <2>1, SmallSets
    <3>1. Paired(t)
      BY <2>1 DEF PairedCalls
    <3>2. CASE ReleaseMutexes(t) \in ToSet(calls)
      <4>1. ReleaseMutexes(t) # Top
        <5>1. ASSUME ReleaseMutexes(t) = Top PROVE FALSE
          <6>1. Top.op = "ReleaseThreadMutexes" /\ Leave(t).op = "RemoveWaitingThread"
            BY <5>1, CallOps
          <6>2. Leave(t) # Top
            BY <6>1
          <6>3. Leave(t).op = "TerminateProcessThreads"
            BY <2>1, <3>0, <6>1, <6>2, BelowRelease
          <6>4. QED BY <6>1, <6>3
        <5>2. QED BY <5>1
      <4>2. QED BY <1>3, <3>2, <4>1, CallsKept DEF Paired
    <3>3. CASE ReleaseMutexes(t) \notin ToSet(calls)
      <4>1. Resume(t) \in ToSet(calls) /\ status[t] \in Waiting
        BY <3>1, <3>3 DEF Paired
      <4>2. Leave(t) = Top
        BY <2>1, <3>3, StoppedBelow
      <4>3. Resume(t) # Top
        BY <4>2, CallOps
      <4>4. QED BY <1>3, <4>1, <4>3, ResumeKept DEF Paired
    <3>4. QED BY <3>2, <3>3
  <2>2. CASE Leave(t) \notin ToSet(calls)
    <3>1. Leave(t).op = "RemoveWaitingThread" /\ Leave(t).thread = t
      BY CallOps
    <3>2. WakeupOne \/ ReleaseMutexes(t) \in ToSet(calls')
      BY <1>3, <2>2, <3>1, KernelCallNew DEF NewCall
    <3>3. CASE WakeupOne
      <4>1. PICK u \in Thread :
              u \in ToSet(waiting_threads[Top.obj]) /\ calls' = WakingCalls(u) \o calls
        BY <3>3, WakeupOneStep
      <4>2. UNCHANGED status /\ Calling("WakeupAllWaitingThreads") /\ Top.obj \in WaitObject
        BY <3>3, WakeupOneStep
      <4>3. \A x : x \in ToSet(calls') <=> x \in ToSet(WakingCalls(u)) \/ x \in ToSet(calls)
        BY <4>1, MadeSequences, PushSet, Zenon DEF TypeOK
      <4>4. u = t /\ Resume(t) \in ToSet(calls')
        BY <2>2, <4>3, SmallSets, CallOps
      <4>5. InSynch(t) \/ (status[t] = "Dead" /\ Leaving(t))
        <5>1. wait_objects[t] # <<>>
          BY <4>1, <4>2, <4>4, SmallSets DEF ListInv
        <5>2. QED BY <5>1 DEF ListInv
      <4>6. status'[t] \in Waiting
        BY <2>2, <4>2, <4>5 DEF Leaving, InSynch, Waiting
      <4>7. QED BY <4>4, <4>6 DEF Paired
    <3>4. QED BY <3>2, <3>3 DEF Paired
  <2>3. QED BY <2>1, <2>2
<1>4. QED BY <1>1, <1>2, <1>3

StackResumes ==
  \E i \in DOMAIN calls : calls[i].op = "ResumeFromWait" /\ status[calls[i].thread] \in Waiting

LEMMA ResumeOnStack == TypeOK => (WillResume <=> StackResumes)
<1> HAVE TypeOK
<1>0. calls \in Seq(Call)
  BY DEF TypeOK
<1>1. ASSUME NEW t \in Thread, Resume(t) \in ToSet(calls), status[t] \in Waiting
      PROVE  \E i \in DOMAIN calls : /\ calls[i].op = "ResumeFromWait"
                                     /\ status[calls[i].thread] \in Waiting
  <2>1. PICK i \in 1 .. Len(calls) : calls[i] = Resume(t)
    BY <1>0, <1>1, InToSet
  <2>2. i \in DOMAIN calls
    BY <1>0
  <2>3. QED BY <1>1, <2>1, <2>2, CallOps
<1>2. ASSUME NEW i \in DOMAIN calls, calls[i].op = "ResumeFromWait",
             status[calls[i].thread] \in Waiting
      PROVE  WillResume
  <2>1. calls[i] \in Call /\ calls[i] \in ToSet(calls)
    BY <1>0 DEF ToSet
  <2>2. calls[i].thread \in Thread /\ calls[i] = Resume(calls[i].thread)
    BY <1>2, <2>1, CallFields, CallForms
  <2>3. QED BY <1>2, <2>1, <2>2 DEF WillResume
<1>3. QED BY <1>1, <1>2 DEF WillResume, StackResumes

\* Stop takes a thread from the queue and puts none there.
LEMMA StopLevels ==
  ASSUME TypeOK, Scheduled, NEW u \in Thread, NEW more, Stop(u, more), NEW c \in Core, NEW bound,
         ReadyLevels(c, bound) = {}
  PROVE  ReadyLevels(c, bound)' = {}
<1> SUFFICES ASSUME NEW p \in Priority, p < bound PROVE ready_queue'[c][p] = <<>>
  BY DEF ReadyLevels
<1>1. ready_queue[c][p] = <<>>
  BY DEF ReadyLevels
<1>2. ready_queue' = Unready(u)
  BY DEF Stop
<1>3. CASE status[u] # "Ready"
  BY <1>1, <1>2, <1>3 DEF Unready
<1>4. CASE status[u] = "Ready"
  <2>0. PICK d, q : d = CoreOf[u] /\ q = current_priority[u]
    OBVIOUS
  <2>1. d \in Core /\ q \in Priority /\ u \in ToSet(ready_queue[d][q])
    BY <1>4, <2>0, ConstantAssumption DEF Scheduled, ReadyQueueExact, TypeOK
  <2>2. c # d \/ p # q
    BY <1>1, <2>1, SmallSets
  <2>3. ready_queue \in ReadyQueues
    BY DEF TypeOK, ReadyQueues
  <2>4. ready_queue' = [ready_queue EXCEPT ![d][q] = RemoveFirst(ready_queue[d][q], u)]
    BY <1>2, <1>4, <2>0 DEF Unready, QueueRemove
  <2>5. ready_queue'[c][p] = ready_queue[c][p]
    BY <2>1, <2>2, <2>3, <2>4 DEF ReadyQueues
  <2>6. QED BY <1>1, <2>5
<1>5. QED BY <1>3, <1>4

\* A kernel call readies or boosts nobody unless a reschedule is asked for or on its
\* way.
LEMMA KernelCallRuns ==
  ASSUME TypeOK, Scheduled, Shape(calls), HaltedCalls, PairedCalls, StoppedInv, KernelCall,
         NEW t \in Thread, to_advance = <<>>, ~halted, ~halted',
         ReadyLevels(CoreOf[t], current_priority[t]) = {} \/ WillResume
  PROVE  \/ ReadyLevels(CoreOf[t], current_priority[t])' = {}
         \/ WillResume'
         \/ TerminatedLeaves
<1>0. calls # <<>> /\ (PrepareReschedule => halted')
  BY DEF KernelCall, WakeupOne, WakeupDone, AddWaitingThread, RemoveWaitingThread,
     ResumeFromWait, ReleaseThreadMutexes, RearmTimer, UpdatePendingMutexes,
     TerminateProcessThreads, Calling, PrepareReschedule
<1>1. CASE WillResume
  <2>1. PICK u \in Thread : Resume(u) \in ToSet(calls) /\ status[u] \in Waiting
    BY <1>1 DEF WillResume
  <2>2. CASE Resume(u) # Top
    BY <2>1, <2>2, ResumeKept DEF WillResume
  <2>3. CASE Resume(u) = Top
    <3>1. Top.op = "ResumeFromWait" /\ Top.thread = u
      BY <2>3, CallOps
    <3>2. ResumeFromWait
      BY <3>1 DEF KernelCall, WakeupOne, WakeupDone, AddWaitingThread, RemoveWaitingThread,
         ReleaseThreadMutexes, RearmTimer, UpdatePendingMutexes, TerminateProcessThreads,
         Calling, Top
    <3>3. PrepareReschedule
      BY <2>1, <3>1, <3>2 DEF ResumeFromWait
    <3>4. QED BY <1>0, <3>3
  <2>4. QED BY <2>2, <2>3
<1>2. CASE ~WillResume
  <2>0. ReadyLevels(CoreOf[t], current_priority[t]) = {} /\ CoreOf[t] \in Core
    BY <1>2, ConstantAssumption
  <2>1. ~AddWaitingThread /\ ~UpdatePendingMutexes
    <3>1. ASSUME NEW op \in {"AddWaitingThread", "UpdatePending"}, Calling(op) PROVE FALSE
      <4>1. Top \in ToSet(calls) /\ Top.op = op
        BY <3>1, TopSet, TopPlace
      <4>2. QED BY <4>1 DEF HaltedCalls
    <3>2. QED BY <3>1 DEF AddWaitingThread, UpdatePendingMutexes
  <2>2. CASE RemoveWaitingThread
    <3>0. PICK u : u = Top.thread
      OBVIOUS
    <3>1. Calling("RemoveWaitingThread") /\ u \in Thread /\ Top = Leave(u)
      BY <2>2, <3>0, RemoveWaitingThreadStep
    <3>2. Leave(u) \in ToSet(calls)
      BY <3>1, TopSet
    <3>3. ReleaseMutexes(u) \in ToSet(calls)
      BY <1>2, <3>1, <3>2 DEF PairedCalls, Paired, WillResume
    <3>4. status[u] = "Dead"
      BY <3>3, CallOps DEF StoppedInv
    <3>5. QED BY <3>0, <3>1, <3>4 DEF TerminatedLeaves
  <2>3. CASE TerminateProcessThreads
    <3>1. CASE StopsOne
      <4>1. PICK u \in Thread, more \in {calls, Tail(calls)} : Stop(u, more)
        BY <3>1 DEF StopsOne
      <4>2. current_priority'[t] = current_priority[t]
        BY <4>1 DEF Stop
      <4>3. PICK bound : bound = current_priority[t]
        OBVIOUS
      <4>4. ReadyLevels(CoreOf[t], bound)' = {}
        BY <2>0, <4>1, <4>3, StopLevels
      <4>5. QED BY <4>2, <4>3, <4>4 DEF ReadyLevels
    <3>2. CASE UNCHANGED priority_vars
      BY <2>0, <3>2 DEF priority_vars, ReadyLevels
    <3>3. QED BY <2>3, <3>1, <3>2, TerminateStep
  <2>4. CASE ~RemoveWaitingThread /\ ~TerminateProcessThreads
    <3>1. UNCHANGED <<current_priority, ready_queue>>
      BY <2>1, <2>4, KernelQuiet
    <3>2. QED BY <2>0, <3>1 DEF ReadyLevels
  <2>5. QED BY <2>2, <2>3, <2>4
<1>3. QED BY <1>1, <1>2

\* A slice that ends is followed by the slice of another core or by an advance.
LEMMA SliceEnds ==
  ASSUME TypeOK, EndSlice, to_run' = to_run
  PROVE  to_advance' # <<>>
<1>1. to_run \in Seq(Core) /\ NumCores \in Nat \ {0}
  BY ConstantAssumption DEF TypeOK
<1>2. CASE Len(to_run) > 1
  <2>1. to_run' = Tail(to_run)
    BY <1>2 DEF EndSlice
  <2>2. Len(Tail(to_run)) = Len(to_run) - 1 /\ Len(to_run) \in Nat
    BY <1>1, <1>2
  <2>3. to_run = Tail(to_run)
    BY <2>1
  <2>4. Len(to_run) = Len(to_run) - 1
    BY <2>2, <2>3
  <2>5. QED BY <2>2, <2>4
<1>3. CASE ~(Len(to_run) > 1)
  <2>0. PICK n \in 0 .. NumCores - 1 : \E lagging \in [1 .. n -> Core] :
          \/ to_advance' = lagging \o AllCores
          \/ to_advance' = lagging /\ \E i \in 1 .. n : TRUE
    BY <1>3 DEF EndSlice, StartIteration
  <2>1. PICK lagging \in [1 .. n -> Core] :
          \/ to_advance' = lagging \o AllCores
          \/ to_advance' = lagging /\ \E i \in 1 .. n : TRUE
    BY <2>0
  <2>2. n \in Nat /\ lagging \in Seq(Core) /\ Len(lagging) = n
    BY <1>1, <2>1
  <2>3. AllCores \in Seq(Core) /\ Len(AllCores) = NumCores
    BY <1>1 DEF AllCores, Core
  <2>4. Len(lagging \o AllCores) = n + NumCores
    BY <2>2, <2>3
  <2>5. Len(to_advance') > 0
    BY <1>1, <2>1, <2>2, <2>4
  <2>6. QED BY <2>5
<1>4. QED BY <1>2, <1>3

\* While a core executes its slice, with any number of cores and any process terminating
\* any other, every operation that readies or boosts a thread of the core, or worsens
\* the one that executes, halts it before the guest goes on; only the priority that the
\* holder of a mutex loses with a terminated waiter is not followed by a reschedule.
THEOREM HighestRuns == Spec => HighestPriorityRuns
<1> DEFINE Step == \A t \in Thread :
                     Executes(t) /\ Executes(t)' /\ to_run' = to_run /\ BestOrHalted(t) =>
                       BestOrHalted(t)' \/ TerminatedLeaves
           Inv == HaltedCalls /\ PairedCalls
<1>1. Init => Inv
  <2>1. HAVE Init
  <2>2. calls = <<>>
    BY <2>1 DEF Init
  <2>3. QED BY <2>2, SmallSets DEF HaltedCalls, PairedCalls
<1>2. WaitInv /\ Inv /\ [Next]_vars => Inv'
  BY NextHalted, NextPaired DEF WaitInv
<1>3. WaitInv /\ WaitInv' /\ Inv /\ CurrentBorn /\ StoppedInv /\ [Next]_vars => Step
  <2> SUFFICES ASSUME WaitInv, WaitInv', Inv, CurrentBorn, StoppedInv, [Next]_vars,
                      NEW t \in Thread,
                      Executes(t), Executes(t)', to_run' = to_run, BestOrHalted(t), ~halted'
               PROVE  BestOrHalted(t)' \/ TerminatedLeaves
    BY DEF BestOrHalted
  <2>0. TypeOK /\ TypeOK' /\ Scheduled /\ Shape(calls)
    BY DEF WaitInv
  <2>1. ~EndAdvance /\ ~EndSlice
    <3>1. to_advance = <<>> /\ to_advance' = <<>>
      BY DEF Executes
    <3>2. QED BY <2>0, <3>1, SliceEnds DEF EndAdvance
  <2>2. ~halted /\ to_advance = <<>>
    BY <2>0, <2>1, LoopKept DEF Executes
  <2>3. ReadyLevels(CoreOf[t], current_priority[t]) = {} \/ WillResume
    BY <2>0, <2>2, ResumeOnStack DEF BestOrHalted, StackResumes
  <2>4. \/ ReadyLevels(CoreOf[t], current_priority[t])' = {}
        \/ WillResume'
        \/ TerminatedLeaves
    <3>1. CASE KernelCall
      BY <2>0, <2>2, <2>3, <3>1, KernelCallRuns
    <3>2. CASE UNCHANGED vars
      BY <2>3, <3>2 DEF vars, priority_vars, ReadyLevels, WillResume
    <3>3. CASE Next /\ ~KernelCall
      <4>1. calls = <<>>
        BY <2>0, <3>3, FirstCalls
      <4>2. ~WillResume
        BY <4>1, SmallSets DEF WillResume
      <4>3. Quiet
        BY <2>0, <2>1, <2>2, <3>3, QuietOrHalted
      <4>4. status[t] # "Unborn"
        <5>1. Head(to_run) \in Core
          BY <2>0, <2>2, RunningCoreType DEF RunningCore
        <5>2. QED BY <5>1, ObjectAssumption DEF CurrentBorn, Executes
      <4>5. current_priority'[t] = current_priority[t] /\ UNCHANGED ready_queue
        BY <4>3, <4>4 DEF Quiet
      <4>6. QED BY <2>3, <4>2, <4>5 DEF ReadyLevels
    <3>4. QED BY <3>1, <3>2, <3>3
  <2>5. (TypeOK => (WillResume <=> StackResumes))'
    BY ResumeOnStack, PTL
  <2>6. QED BY <2>0, <2>4, <2>5 DEF BestOrHalted, StackResumes
<1> HIDE DEF Inv, Step
<1>4. Spec => [][Step]_vars
  BY <1>1, <1>2, <1>3, AlwaysWaits, AlwaysBorn, AlwaysStopped, PTL DEF Spec
<1>5. QED BY <1>4 DEF Step, HighestPriorityRuns

--------------------------------------------------------------------------------
\* Priority inheritance.

\* The priority of a held mutex is at least the one that each thread that waits for any
\* of several objects has of its own, or it is about to be updated.
Pending(m) == \E x \in ToSet(calls) : x.op = "UpdatePending" /\ m \in x.mutexes
Lends(m, t) == mutex_priority[m] <= nominal_priority[t] \/ Pending(m)
Inherits ==
  \A m \in Mutex : holding_thread[m] # NoThread =>
    \A t \in ToSet(waiting_threads[m]) : status[t] = "WaitSynchAny" /\ ~Leaving(t) => Lends(m, t)

LEMMA SoleCall ==
  ASSUME TypeOK, Shape(calls), NEW x \in ToSet(calls),
         x.op \in {"AddWaitingThread", "UpdatePending"}
  PROVE  Calling(x.op) /\ Top = x
<1>1. calls \in Seq(Call) /\ calls # <<>>
  BY SmallSets DEF TypeOK
<1>2. PICK i \in 1 .. Len(calls) : calls[i] = x
  BY <1>1, InToSet
<1>3. Len(calls) = 1
  BY <1>2 DEF Shape, ShapeAt
<1>4. i = 1 /\ Head(calls) = calls[1]
  BY <1>1, <1>3, TailPlaces
<1>5. QED BY <1>1, <1>2, <1>4 DEF Calling, Top

\* A thread that has left its lists waits for nothing.
LEMMA LeavesLists ==
  ASSUME TypeOK, Shape(calls), [Next]_vars, NEW u \in Thread, Leaving(u), ~Leaving(u)'
  PROVE  Awaited(u)' = {}
<1>1. calls # <<>> /\ calls' # calls
  BY SmallSets DEF Leaving
<1>2. KernelCall
  BY <1>1, FirstCalls DEF vars
<1>3. Top = Leave(u)
  BY <1>2, CallsKept DEF Leaving
<1>4. RemoveWaitingThread /\ u = Top.thread
  <2>1. Top.op = "RemoveWaitingThread" /\ u = Top.thread
    BY <1>3, CallOps
  <2>2. QED
    BY <1>2, <2>1 DEF KernelCall, WakeupOne, WakeupDone, AddWaitingThread, ResumeFromWait,
       ReleaseThreadMutexes, RearmTimer, UpdatePendingMutexes, TerminateProcessThreads,
       Calling, Top
<1>5. /\ Calling("RemoveWaitingThread") /\ wait_objects[u] = <<>> /\ Return(<<>>)
      /\ UNCHANGED wait_objects
  BY <1>1, <1>4, RemoveWaitingThreadStep
<1>6. ~Calling("AddWaitingThread")'
  BY <1>5, PopTop
<1>7. QED BY <1>5, <1>6, SmallSets DEF Awaited

\* Mutex::UpdatePriority makes a mutex at least as urgent as those who wait for it.
LEMMA UpdatedPriority ==
  ASSUME TypeOK, NEW n \in Mutex, NEW ws \in Seq(Thread), UpdateMutexPriority(n, ws),
         NEW u \in Thread, NEW m \in Mutex, holding_thread[m] # NoThread,
         m = n => u \in ToSet(ws)
  PROVE  IF m = n THEN mutex_priority'[m] <= current_priority[u]
         ELSE mutex_priority'[m] = mutex_priority[m]
<1> DEFINE S == {ThreadPrioLowest} \cup {current_priority[w] : w \in ToSet(ws)}
           h == holding_thread[n]
<1>1. S \in SUBSET Priority /\ S # {}
  <2>1. \A w \in ToSet(ws) : w \in Thread
    BY DEF ToSet
  <2>2. ThreadPrioLowest \in Priority
    BY ConstantAssumption DEF Priority
  <2>3. current_priority \in [Thread -> Priority]
    BY DEF TypeOK
  <2>4. \A w \in ToSet(ws) : current_priority[w] \in Priority
    BY <2>1, <2>3
  <2>5. QED BY ONLY <2>2, <2>4
<1>2. u \in ToSet(ws) => Min(S) <= current_priority[u]
  <2>1. u \in ToSet(ws) => current_priority[u] \in S
    OBVIOUS
  <2> HIDE DEF S
  <2>2. QED BY <1>1, <2>1, MinPriority
<1>3. \/ /\ h = NoThread \/ Min(S) = mutex_priority[n]
         /\ UNCHANGED <<mutex_priority, current_priority>>
      \/ /\ h # NoThread /\ mutex_priority' = [mutex_priority EXCEPT ![n] = Min(S)]
         /\ \E p : BoostPriority(h, p)
  BY Zenon DEF UpdateMutexPriority
<1> HIDE DEF S
<1>4. CASE m = n
  <2>1. mutex_priority'[m] = Min(S)
    BY <1>3, <1>4 DEF TypeOK
  <2>2. QED BY <1>2, <1>4, <2>1
<1>5. CASE m # n
  BY <1>3, <1>5 DEF TypeOK
<1>6. QED BY <1>4, <1>5

\* A thread lends no better a priority than its own to what is updated from the
\* priority it has.
LEMMA UpdatedLends ==
  ASSUME TypeOK, BoundInv, NEW m \in Mutex, NEW u \in Thread, NEW w \in Thread,
         status[u] = "WaitSynchAny", UNCHANGED nominal_priority,
         mutex_priority'[m] \in Int, mutex_priority'[m] <= current_priority[w],
         current_priority[w] <= current_priority[u]
  PROVE  Lends(m, u)'
<1>1. BoundAt(u)
  BY DEF BoundInv
<1>2. /\ current_priority[w] \in Int /\ current_priority[u] \in Int
      /\ nominal_priority[u] \in Int /\ nominal_priority'[u] = nominal_priority[u]
  BY DEF TypeOK, Priority
<1>3. mutex_priority'[m] <= nominal_priority'[u]
  BY <1>1, <1>2 DEF BoundAt
<1>4. QED BY <1>3 DEF Lends

\* A step that leaves the priorities of a mutex and its waiter alone.
LEMMA QuietLends ==
  ASSUME NEW m, NEW u, Lends(m, u), mutex_priority'[m] = mutex_priority[m],
         nominal_priority'[u] = nominal_priority[u], Pending(m) => Pending(m)'
  PROVE  Lends(m, u)'
BY DEF Lends

LEMMA PendingKept ==
  ASSUME TypeOK, Shape(calls), KernelCall, ~UpdatePendingMutexes, NEW m, Pending(m)
  PROVE  Pending(m)'
<1>1. PICK x \in ToSet(calls) : x.op = "UpdatePending" /\ m \in x.mutexes
  BY DEF Pending
<1>2. x # Top
  <2>1. ~Calling("UpdatePending")
    BY DEF KernelCall, WakeupOne, WakeupDone, AddWaitingThread, RemoveWaitingThread,
       ResumeFromWait, ReleaseThreadMutexes, RearmTimer, TerminateProcessThreads, Calling
  <2>2. QED BY <1>1, <2>1, SoleCall
<1>3. x \in ToSet(calls')
  BY <1>2, CallsKept
<1>4. QED BY <1>1, <1>3 DEF Pending

\* Thread u waits for the held mutex m, before and after a step.
Waiter(m, u) ==
  /\ m \in Mutex /\ u \in Thread /\ ~Leaving(u) /\ ~Leaving(u)'
  /\ status[u] = "WaitSynchAny"
  /\ holding_thread'[m] # NoThread /\ u \in ToSet(waiting_threads'[m])

\* No thread waits for any of several objects one of which is a free mutex, unless the
\* waiters of that mutex are about to be woken.
LEMMA FreeMutex ==
  ASSUME ListInv, NoneLost, NEW m \in Mutex, NEW u \in Thread, ~Leaving(u),
         status[u] = "WaitSynchAny", u \in ToSet(waiting_threads[m]), lock_count[m] = 0
  PROVE  Wakeup(m) \in ToSet(calls)
<1>1. m \in Awaited(u)
  BY DEF ListInv, Awaited, WaitObject
<1>2. Covered(m, u)
  BY <1>1 DEF NoneLost, InSynch
<1>3. ~ShouldWait(m, u)
  BY ShouldWaitCases
<1>4. QED BY <1>2, <1>3 DEF Covered

\* A mutex that a woken thread takes goes to the most urgent of its waiters.
LEMMA WakeupOneLends ==
  ASSUME TypeOK, Shape(calls), ListInv, NoneLost, BoundInv, Inherits, WakeupOne,
         NEW m, NEW u, Waiter(m, u)
  PROVE  Lends(m, u)'
<1>0. PICK w : w = Top.obj
  OBVIOUS
<1>1. PICK t \in Thread, objs \in Seq(WaitObject) :
        /\ t \in ToSet(waiting_threads[w])
        /\ \A v \in ToSet(waiting_threads[w]) :
             CanAcquire(v, w) => current_priority[t] <= current_priority[v]
        /\ objs = IF status[t] = "WaitSynchAll" THEN wait_objects[t] ELSE <<w>>
        /\ Acquire(objs, t) /\ calls' = WakingCalls(t) \o calls
  BY <1>0, WakeupOneStep
<1>2. /\ Calling("WakeupAllWaitingThreads") /\ w \in WaitObject
      /\ UNCHANGED <<nominal_priority, wait_objects, waiting_threads>>
  BY <1>0, WakeupOneStep DEF WakeupOne
<1>3. /\ m \in Mutex /\ u \in Thread /\ ~Leaving(u) /\ status[u] = "WaitSynchAny"
      /\ holding_thread'[m] # NoThread /\ u \in ToSet(waiting_threads[m])
  BY <1>2 DEF Waiter
<1>4. CASE m \in ToSet(objs) /\ lock_count[m] = 0
  <2>1. mutex_priority'[m] = current_priority[t]
    BY <1>1, <1>3, <1>4 DEF Acquire
  <2>2. m = w
    <3>1. Wakeup(m) \in ToSet(calls)
      BY <1>3, <1>4, FreeMutex
    <3>2. PICK j \in 1 .. Len(calls) : calls[j] = Wakeup(m)
      BY <3>1, InToSet DEF TypeOK
    <3>3. calls[1] = Top /\ 1 \in 1 .. Len(calls) /\ Top.op = "WakeupAllWaitingThreads"
      BY <1>2, TopPlace
    <3>4. Wakeup(m).op = "WakeupAllWaitingThreads" /\ Wakeup(m).obj = m
      BY CallOps
    <3>5. j = 1
      BY <3>2, <3>3, <3>4 DEF Shape, ShapeAt
    <3>6. QED BY <1>0, <3>2, <3>3, <3>4, <3>5
  <2>3. CanAcquire(u, w)
    BY <1>3, <1>4, <2>2, ShouldWaitCases DEF CanAcquire
  <2>4. current_priority[t] <= current_priority[u] /\ current_priority[t] \in Int
    BY <1>1, <1>3, <2>2, <2>3 DEF TypeOK, Priority
  <2>5. QED BY <1>2, <1>3, <2>1, <2>4, UpdatedLends
<1>5. CASE ~(m \in ToSet(objs) /\ lock_count[m] = 0)
  <2>1. holding_thread'[m] = holding_thread[m] /\ mutex_priority'[m] = mutex_priority[m]
    BY <1>1, <1>3, <1>5 DEF Acquire
  <2>2. Lends(m, u)
    BY <1>3, <2>1 DEF Inherits
  <2>3. Pending(m) => Pending(m)'
    <3>1. KernelCall /\ ~UpdatePendingMutexes
      BY <1>2 DEF KernelCall, Calling, UpdatePendingMutexes
    <3>2. QED BY <3>1, PendingKept
  <2>4. QED BY <1>2, <2>1, <2>2, <2>3, QuietLends
<1>6. QED BY <1>4, <1>5

\* A list of waiters that changes brings the mutex up to date.
LEMMA ListLends ==
  ASSUME TypeOK, TypeOK', Shape(calls), BoundInv, Inherits,
         AddWaitingThread \/ RemoveWaitingThread,
         NEW m, NEW u, Waiter(m, u), NEW o, NEW ws \in Seq(Thread),
         waiting_threads' = [waiting_threads EXCEPT ![o] = ws],
         IF o \in Mutex THEN UpdateMutexPriority(o, ws)
         ELSE UNCHANGED <<mutex_priority, current_priority, ready_queue>>
  PROVE  Lends(m, u)'
<1>1. /\ m \in Mutex /\ u \in Thread /\ ~Leaving(u) /\ status[u] = "WaitSynchAny"
      /\ holding_thread[m] # NoThread /\ u \in ToSet(waiting_threads'[m])
      /\ UNCHANGED nominal_priority
  BY DEF Waiter, AddWaitingThread, RemoveWaitingThread
<1>2. m = o => u \in ToSet(ws)
  BY <1>1 DEF TypeOK, WaitObject
<1>3. CASE m = o
  <2>1. mutex_priority'[m] <= current_priority[u]
    BY <1>1, <1>2, <1>3, UpdatedPriority
  <2>2. mutex_priority'[m] \in Int /\ current_priority[u] \in Int
    BY <1>1 DEF TypeOK, Priority
  <2>3. QED BY <1>1, <2>1, <2>2, UpdatedLends
<1>4. CASE m # o
  <2>1. mutex_priority'[m] = mutex_priority[m]
    <3>1. CASE o \in Mutex
      BY <1>1, <1>2, <1>4, <3>1, UpdatedPriority
    <3>2. CASE o \notin Mutex
      BY <3>2
    <3>3. QED BY <3>1, <3>2
  <2>2. u \in ToSet(waiting_threads[m])
    BY <1>1, <1>4 DEF TypeOK, WaitObject
  <2>3. Lends(m, u)
    BY <1>1, <2>2 DEF Inherits
  <2>4. Pending(m) => Pending(m)'
    <3>1. KernelCall /\ ~UpdatePendingMutexes
      BY DEF KernelCall, AddWaitingThread, RemoveWaitingThread, UpdatePendingMutexes, Calling
    <3>2. QED BY <3>1, PendingKept
  <2>5. QED BY <1>1, <2>1, <2>3, <2>4, QuietLends
<1>5. QED BY <1>3, <1>4

LEMMA UpdatePendingLends ==
  ASSUME TypeOK, TypeOK', Shape(calls), BoundInv, Inherits, UpdatePendingMutexes,
         NEW m, NEW u, Waiter(m, u)
  PROVE  Lends(m, u)'
<1>1. /\ Calling("UpdatePending")
      /\ UNCHANGED <<nominal_priority, waiting_threads, holding_thread>>
      /\ Top.mutexes \in SUBSET Mutex
  BY TopPlace, CallFields DEF UpdatePendingMutexes, wait_vars
<1>2. /\ m \in Mutex /\ u \in Thread /\ ~Leaving(u) /\ status[u] = "WaitSynchAny"
      /\ holding_thread[m] # NoThread /\ u \in ToSet(waiting_threads[m])
  BY <1>1 DEF Waiter
<1>3. Lends(m, u)
  BY <1>2 DEF Inherits
<1>4. Pending(m) => m \in Top.mutexes
  BY SoleCall DEF Pending
<1>5. ASSUME NEW n \in Top.mutexes, UpdateMutexPriority(n, waiting_threads[n]),
             Return(<<UpdatePending(Top.mutexes \ {n})>>)
      PROVE  Lends(m, u)'
  <2>1. n \in Mutex /\ waiting_threads[n] \in Seq(Thread)
    BY <1>1 DEF TypeOK, WaitObject
  <2>2. IF m = n THEN mutex_priority'[m] <= current_priority[u]
        ELSE mutex_priority'[m] = mutex_priority[m]
    BY <1>2, <1>5, <2>1, UpdatedPriority
  <2>3. CASE m = n
    <3>1. mutex_priority'[m] \in Int /\ current_priority[u] \in Int
      BY <1>2 DEF TypeOK, Priority
    <3>2. QED BY <1>1, <1>2, <2>2, <2>3, <3>1, UpdatedLends
  <2>4. CASE m # n
    <3>0. PICK x : x = UpdatePending(Top.mutexes \ {n})
      OBVIOUS
    <3>1. x \in Call /\ x.op = "UpdatePending" /\ x.mutexes = Top.mutexes \ {n}
      BY <1>1, <3>0, MadeCalls, CallOps
    <3>2. <<x>> \in Seq(Call) /\ Tail(calls) \in Seq(Call) /\ calls' = <<x>> \o Tail(calls)
      BY <1>1, <1>5, <3>0, <3>1, TopPlace DEF Return
    <3>3. x \in ToSet(calls')
      BY <3>2, PushSet, SmallSets
    <3>4. Pending(m) => Pending(m)'
      BY <1>4, <2>4, <3>1, <3>3 DEF Pending
    <3>5. QED BY <1>1, <1>3, <2>2, <2>4, <3>4, QuietLends
  <2>5. QED BY <2>3, <2>4
<1>6. CASE Top.mutexes = {} /\ UNCHANGED <<mutex_priority, current_priority, ready_queue>>
  BY <1>1, <1>3, <1>4, <1>6, QuietLends
<1>7. QED BY <1>5, <1>6 DEF UpdatePendingMutexes

LEMMA KernelCallLends ==
  ASSUME TypeOK, TypeOK', Shape(calls), ListInv, NoneLost, BoundInv, Inherits, KernelCall,
         NEW m, NEW u, Waiter(m, u)
  PROVE  Lends(m, u)'
<1>1. CASE WakeupOne
  BY <1>1, WakeupOneLends
<1>2. CASE AddWaitingThread
  <2>0. PICK t, o, ws : /\ t = Top.thread /\ o = Head(Top.objs)
                        /\ ws = IF t \in ToSet(waiting_threads[o]) THEN waiting_threads[o]
                                ELSE Append(waiting_threads[o], t)
    OBVIOUS
  <2>1. t \in Thread /\ o \in WaitObject
    BY <1>2, <2>0, AddWaitingThreadStep
  <2>2. ws \in Seq(Thread)
    BY <2>0, <2>1 DEF TypeOK
  <2>3. /\ waiting_threads' = [waiting_threads EXCEPT ![o] = ws]
        /\ IF o \in Mutex THEN UpdateMutexPriority(o, ws)
           ELSE UNCHANGED <<mutex_priority, current_priority, ready_queue>>
    BY <1>2, <2>0, Zenon DEF AddWaitingThread
  <2>4. QED BY <1>2, <2>2, <2>3, ListLends
<1>3. CASE RemoveWaitingThread
  <2>0. PICK t, o, ws : /\ t = Top.thread /\ o = Head(wait_objects[t])
                        /\ ws = RemoveFirst(waiting_threads[o], t)
    OBVIOUS
  <2>1. t \in Thread /\ (wait_objects[t] # <<>> => o \in WaitObject)
    <3>1. t \in Thread
      BY <1>3, <2>0, RemoveWaitingThreadStep
    <3>2. wait_objects[t] \in Seq(WaitObject)
      BY <3>1 DEF TypeOK
    <3>3. QED BY <2>0, <3>1, <3>2, TailPlaces
  <2>2. CASE /\ wait_objects[t] # <<>>
             /\ waiting_threads' = [waiting_threads EXCEPT ![o] = ws]
             /\ IF o \in Mutex THEN UpdateMutexPriority(o, ws)
                ELSE UNCHANGED <<mutex_priority, current_priority, ready_queue>>
    <3>1. ws \in Seq(Thread)
      BY <2>0, <2>1, <2>2, RemoveFirstType DEF TypeOK
    <3>2. QED BY <1>3, <2>2, <3>1, ListLends
  <2>3. CASE UNCHANGED <<waiting_threads, mutex_priority>>
    <3>1. KernelCall /\ ~UpdatePendingMutexes /\ UNCHANGED <<nominal_priority, holding_thread>>
      BY <1>3 DEF KernelCall, RemoveWaitingThread, UpdatePendingMutexes, Calling
    <3>2. Lends(m, u)
      BY <2>3, <3>1 DEF Waiter, Inherits
    <3>3. QED BY <2>3, <3>1, <3>2, PendingKept, QuietLends
  <2>4. QED BY <1>3, <2>0, <2>2, <2>3, Zenon DEF RemoveWaitingThread
<1>4. CASE UpdatePendingMutexes
  BY <1>4, UpdatePendingLends
<1>5. CASE ~WakeupOne /\ ~AddWaitingThread /\ ~RemoveWaitingThread /\ ~UpdatePendingMutexes
  <2>1. UNCHANGED <<waiting_threads, mutex_priority, nominal_priority>>
    BY <1>5 DEF KernelCall, WakeupDone, ResumeFromWait, ReleaseThreadMutexes, RearmTimer,
       TerminateProcessThreads, Stop, wait_vars, mutex_vars, priority_vars
  <2>2. holding_thread[m] # NoThread
    <3>1. UNCHANGED holding_thread
          \/ \E n \in Mutex : holding_thread' = [holding_thread EXCEPT ![n] = NoThread]
      BY <1>5 DEF KernelCall, WakeupDone, ResumeFromWait, ReleaseThreadMutexes, RearmTimer,
         TerminateProcessThreads, Stop, mutex_vars, HeldMutexes
    <3>2. QED BY <3>1 DEF Waiter, TypeOK
  <2>3. Lends(m, u)
    BY <2>1, <2>2 DEF Waiter, Inherits
  <2>4. QED BY <1>5, <2>1, <2>3, PendingKept, QuietLends
<1>6. QED BY <1>1, <1>2, <1>3, <1>4, <1>5

LEMMA SystemCallLends ==
  ASSUME TypeOK, Scheduled, ListInv, NoneLost, Inherits,
         NEW t \in Thread, SystemCall(t), NEW m, NEW u, Waiter(m, u)
  PROVE  Lends(m, u)'
<1>1. /\ m \in Mutex /\ u \in Thread /\ ~Leaving(u) /\ status[u] = "WaitSynchAny"
      /\ holding_thread'[m] # NoThread
  BY DEF Waiter
<1>2. calls = <<>> /\ ~KernelCall
  <2>1. calls = <<>>
    BY DEF Guest, SystemCall, WaitSynchronization, SleepThread, Clear, SetTimer, CancelTimer,
       ReleaseSemaphore, ReleaseMutex, SetThreadPriority, CreateThread, ExitThread,
       TerminateProcess
  <2>2. QED
    BY <2>1 DEF KernelCall, WakeupOne, WakeupDone, AddWaitingThread, RemoveWaitingThread,
       ResumeFromWait, ReleaseThreadMutexes, RearmTimer, UpdatePendingMutexes,
       TerminateProcessThreads, Calling
<1>3. ~Pending(m) /\ u \in ToSet(waiting_threads[m])
  <2>1. UNCHANGED waiting_threads
    <3>1. Next /\ ~AddWaitingThread /\ ~RemoveWaitingThread
      BY <1>2 DEF Next, KernelCall
    <3>2. QED BY <3>1, ListsKept
  <2>2. QED BY <1>2, <2>1, SmallSets DEF Waiter, Pending
<1>4. ASSUME holding_thread'[m] = NoThread \/ holding_thread'[m] = holding_thread[m],
             mutex_priority'[m] = mutex_priority[m], nominal_priority'[u] = nominal_priority[u]
      PROVE  Lends(m, u)'
  <2>1. Lends(m, u)
    BY <1>1, <1>3, <1>4 DEF Inherits
  <2>2. QED BY <1>3, <1>4, <2>1, QuietLends
<1>5. ASSUME NEW objs \in WaitLists[t], NEW wait_all \in BOOLEAN,
             NEW timeout \in Timeouts, WaitSynchronization(t, objs, wait_all, timeout)
      PROVE  Lends(m, u)'
  <2>1. UNCHANGED nominal_priority
    BY <1>5, WaitSynchronizationStep
  <2>2. CASE UNCHANGED mutex_vars
    BY <1>4, <2>1, <2>2 DEF mutex_vars
  <2>3. ASSUME NEW got \in Seq(WaitObject), Acquire(got, t) PROVE Lends(m, u)'
    <3>1. lock_count[m] # 0
      BY <1>1, <1>2, <1>3, FreeMutex, SmallSets
    <3>2. holding_thread'[m] = holding_thread[m] /\ mutex_priority'[m] = mutex_priority[m]
      BY <1>1, <2>3, <3>1 DEF Acquire
    <3>3. QED BY <1>4, <2>1, <3>2
  <2>4. QED BY <1>5, <2>2, <2>3, WaitSynchronizationStep
<1>6. ASSUME NEW n \in Mutex, ReleaseMutex(t, n) PROVE Lends(m, u)'
  <2>1. /\ UNCHANGED <<mutex_priority, nominal_priority>>
        /\ \/ UNCHANGED holding_thread
           \/ holding_thread' = [holding_thread EXCEPT ![n] = NoThread]
    BY <1>6 DEF ReleaseMutex
  <2>2. holding_thread'[m] = NoThread \/ holding_thread'[m] = holding_thread[m]
    BY <1>1, <2>1 DEF TypeOK
  <2>3. QED BY <1>4, <2>1, <2>2
<1>7. ASSUME NEW v \in Thread, NEW p \in Priorities, SetThreadPriority(t, v, p)
      PROVE  Lends(m, u)'
  <2>1. /\ UNCHANGED mutex_vars
        /\ nominal_priority' = [nominal_priority EXCEPT ![v] = p]
        /\ calls' = <<UpdatePending(Mutex \cap ToSet(wait_objects[v]))>>
    BY <1>7 DEF SetThreadPriority
  <2>2. CASE v = u
    <3>1. m \in ToSet(wait_objects[u])
      BY <1>1, <1>3 DEF ListInv, WaitObject
    <3>2. Pending(m)'
      BY <1>1, <2>1, <2>2, <3>1, SmallSets, CallOps DEF Pending
    <3>3. QED BY <3>2 DEF Lends
  <2>3. CASE v # u
    <3>1. nominal_priority'[u] = nominal_priority[u]
      BY <1>1, <2>1, <2>3 DEF TypeOK
    <3>2. QED BY <1>4, <2>1, <3>1 DEF mutex_vars
  <2>4. QED BY <2>2, <2>3
<1>8. ASSUME NEW v \in Thread, NEW p, CreateThread(t, v, p) PROVE Lends(m, u)'
  <2>1. v # u /\ UNCHANGED mutex_vars
        /\ nominal_priority' = [nominal_priority EXCEPT ![v] = p]
    BY <1>1, <1>8 DEF CreateThread
  <2>2. nominal_priority'[u] = nominal_priority[u]
    BY <1>1, <2>1 DEF TypeOK
  <2>3. QED BY <1>4, <2>1, <2>2 DEF mutex_vars
<1>9. CASE UNCHANGED <<nominal_priority, mutex_vars>>
  BY <1>4, <1>9 DEF mutex_vars
<1>10. QED
  BY <1>5, <1>6, <1>7, <1>8, <1>9 DEF SystemCall, SleepThread, Clear, SetTimer, CancelTimer,
     ReleaseSemaphore, ExitThread, TerminateProcess, Stop, priority_vars

LEMMA NextInherits ==
  ASSUME TypeOK, TypeOK', Scheduled, Shape(calls), ListInv, ListInv', NoneLost, BoundInv,
         Inherits, [Next]_vars
  PROVE  Inherits'
<1> SUFFICES ASSUME NEW m \in Mutex, holding_thread'[m] # NoThread,
                    NEW u \in ToSet(waiting_threads'[m]), ~Leaving(u)',
                    status'[u] = "WaitSynchAny"
             PROVE  Lends(m, u)'
  BY DEF Inherits
<1>1. u \in Thread /\ m \in WaitObject
  <2>1. m \in WaitObject
    BY DEF WaitObject
  <2>2. waiting_threads'[m] \in Seq(Thread)
    BY <2>1 DEF TypeOK
  <2>3. QED BY <2>1, <2>2 DEF ToSet
<1>2. m \in ToSet(wait_objects'[u]) /\ m \in Awaited(u)'
  BY <1>1 DEF ListInv, Awaited
<1>3. ~Leaving(u)
  BY <1>1, <1>2, LeavesLists
<1>4. ~KernelCall => UNCHANGED <<wait_objects, waiting_threads>>
  BY ListsKept DEF KernelCall
<1>5. status[u] = "WaitSynchAny"
  <2>1. ~Suspended(u)
    <3>1. SUFFICES ASSUME Suspended(u) PROVE FALSE
      OBVIOUS
    <3>2. calls = <<>> /\ status[u] \in {"Running", "Dead"}
      BY <1>1, <3>1, GuestThread DEF Suspended, Guest
    <3>3. ~KernelCall
      BY <3>2 DEF KernelCall, WakeupOne, WakeupDone, AddWaitingThread, RemoveWaitingThread,
         ResumeFromWait, ReleaseThreadMutexes, RearmTimer, UpdatePendingMutexes,
         TerminateProcessThreads, Calling
    <3>4. wait_objects[u] # <<>>
      BY <1>2, <1>4, <3>3, SmallSets
    <3>5. QED BY <1>1, <3>2, <3>4, NoneLeaving, SmallSets DEF InSynch
  <2>2. Steps(u)
    BY <1>1, NextSteps
  <2>3. QED BY <2>1, <2>2 DEF Steps, Resumed, Created, Switched, Stopped
<1>6. Waiter(m, u)
  BY <1>1, <1>3, <1>5 DEF Waiter
<1>7. CASE KernelCall
  BY <1>6, <1>7, KernelCallLends
<1>8. CASE \E t \in Thread : SystemCall(t)
  BY <1>6, <1>8, SystemCallLends
<1>9. CASE ~KernelCall /\ ~\E t \in Thread : SystemCall(t)
  <2>1. UNCHANGED <<nominal_priority, mutex_priority, holding_thread>>
    BY <1>9, LoopStatus DEF Next, ThreadWakeupCallback, SignalEvent, TimerCallback,
       priority_vars, mutex_vars, vars
  <2>2. Lends(m, u)
    BY <1>3, <1>4, <1>5, <1>9, <2>1 DEF Inherits
  <2>3. Pending(m) => Pending(m)'
    <3>1. UNCHANGED calls \/ calls = <<>>
      BY <1>9, FirstCalls DEF vars
    <3>2. QED BY <3>1, SmallSets DEF Pending
  <2>4. QED BY <2>1, <2>2, <2>3, QuietLends
<1>10. QED BY <1>7, <1>8, <1>9

LEMMA AlwaysInherits == Spec => []Inherits
<1>1. Init => Inherits
  BY DEF Init, Inherits
<1>2. WaitInv /\ WaitInv' /\ NoneLost /\ BoundInv /\ Inherits /\ [Next]_vars => Inherits'
  BY NextInherits DEF WaitInv
<1>3. QED BY <1>1, <1>2, AlwaysWaits, AlwaysNoneLost, AlwaysBound, PTL DEF Spec

\* The holder of a mutex is, outside of kernel calls, never of worse priority than a
\* thread that waits for any of several objects, the mutex among them, has of its own: no
\* order of waits, timeouts, releases, wakeups, deaths and priority changes, on any number
\* of cores and with any number of mutexes and processes, inverts their priorities.
THEOREM PrioritiesInherited == Spec => []PriorityInherited
<1>1. ASSUME TypeOK, HeldInv, BoundInv, Inherits PROVE PriorityInherited
  <2> SUFFICES ASSUME calls = <<>>, NEW m \in Mutex, holding_thread[m] # NoThread,
                      NEW t \in ToSet(waiting_threads[m]), status[t] = "WaitSynchAny"
               PROVE  current_priority[holding_thread[m]] <= nominal_priority[t]
    BY DEF PriorityInherited
  <2>0. PICK h : h = holding_thread[m]
    OBVIOUS
  <2>1. h \in Thread /\ t \in Thread
    <3>1. waiting_threads[m] \in Seq(Thread)
      BY <1>1 DEF TypeOK, WaitObject
    <3>2. QED BY <1>1, <2>0, <3>1 DEF TypeOK, ToSet
  <2>2. mutex_priority[m] <= nominal_priority[t]
    BY <1>1, SmallSets DEF Inherits, Lends, Pending, Leaving
  <2>3. current_priority[h] <= mutex_priority[m]
    BY <1>1, <2>0, <2>1 DEF HeldInv, BoundInv, BoundAt, HeldMutexes
  <2>4. /\ current_priority[h] \in Int /\ nominal_priority[t] \in Int
        /\ mutex_priority[m] \in Int
    BY <1>1, <2>1 DEF TypeOK, Priority
  <2>5. current_priority[h] <= nominal_priority[t]
    BY ONLY <2>2, <2>3, <2>4
  <2>6. QED BY <2>0, <2>5
<1>2. QED BY <1>1, AlwaysInherits, AlwaysWaits, AlwaysHeld, AlwaysBound, PTL DEF WaitInv

================================================================================
